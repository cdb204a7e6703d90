--------------------------- MODULE SerializeProofs ---------------------------
(***************************************************************************)
(* For any kinds, values and room: a Serialize object is a bounded map,    *)
(* and what a listener makes of its bytes is what was sent.  For any       *)
(* number of reports and days: houseThread sends all of each report, and   *)
(* csvThread writes each row once and to a file of its day.                *)
(***************************************************************************)
EXTENDS SerializeExchange, OutputThreads, SumLemmas

Slots == 1..ElementCount

\* The places given out hold an element each, of the kind whose number they are;
Placed(o) ==
  \A p \in Slots : p <= o.nextFreeElement =>
    /\ o.elementArray[p].elementID \in Kinds
    /\ o.elementArray[p].data \in Values
    /\ o.elementTable[o.elementArray[p].elementID] = p - 1

\* the others are as the constructor left them;
Vacant(o) ==
  \A p \in Slots : p > o.nextFreeElement => o.elementArray[p] = NewElement

\* and a number in the table was given out, and leads to its kind.
Tabled(o) ==
  \A k \in Kinds : o.elementTable[k] # -1 =>
    /\ o.elementTable[k] < o.nextFreeElement
    /\ o.elementTable[k] < ElementCount => o.elementArray[o.elementTable[k] + 1].elementID = k

Consistent(o) == o \in Objects /\ Placed(o) /\ Vacant(o) /\ Tabled(o)

-----------------------------------------------------------------------------
\* A new object, with nothing in it, is consistent.
LEMMA NewConsistent == Consistent(NewObject)
<1>1. NewElement \in Elements
  BY DEF NewElement, Elements
<1>2. NewObject \in Objects
  BY <1>1 DEF NewObject, Unnumbered, Objects
<1> QED BY <1>2, ConstantsAssumption
        DEF Consistent, Placed, Vacant, Tabled, NewObject, Unnumbered, Slots

\* A kind without a number gets the next one; nothing else changes.
LEMMA NumberedResult ==
  ASSUME NEW o \in Objects, NEW k \in Kinds
  PROVE  /\ Numbered(o, k) \in Objects
         /\ Numbered(o, k).elementArray = o.elementArray
         /\ o.elementTable[k] # -1 => Numbered(o, k) = o
         /\ o.elementTable[k] = -1 =>
              /\ Numbered(o, k).nextFreeElement = o.nextFreeElement + 1
              /\ Numbered(o, k).elementTable =
                   [o.elementTable EXCEPT ![k] = o.nextFreeElement]
<1>1. CASE o.elementTable[k] # -1
  BY <1>1 DEF Numbered
<1>2. CASE o.elementTable[k] = -1
  <2> DEFINE n == [o EXCEPT !.elementTable[k] = o.nextFreeElement, !.nextFreeElement = @ + 1]
  <2>1. Numbered(o, k) = n
    BY <1>2 DEF Numbered
  <2>2. /\ n.elementArray = o.elementArray
        /\ n.nextFreeElement = o.nextFreeElement + 1
        /\ n.elementTable = [o.elementTable EXCEPT ![k] = o.nextFreeElement]
    BY DEF Objects
  <2>3. n \in Objects
    <3>1. /\ o.elementArray \in [1..ElementCount -> Elements]
          /\ o.elementTable \in [Kinds -> Nat \cup {-1}] /\ o.nextFreeElement \in Nat
      BY DEF Objects
    <3> DEFINE table == [o.elementTable EXCEPT ![k] = o.nextFreeElement]
               next  == o.nextFreeElement + 1
    <3>2. table \in [Kinds -> Nat \cup {-1}] /\ next \in Nat
      BY <3>1
    <3>3. n = [o EXCEPT !.elementTable = table, !.nextFreeElement = next]
      OBVIOUS
    <3> HIDE DEF table, next, n
    <3>4. [o EXCEPT !.elementTable = table, !.nextFreeElement = next] \in Objects
      BY <3>1, <3>2 DEF Objects
    <3> QED BY <3>3, <3>4
  <2> QED BY <1>2, <2>1, <2>2, <2>3
<1> QED BY <1>1, <1>2

\* Where an element that is set gets to, if there is room.
LEMMA WithElementResult ==
  ASSUME NEW o \in Objects, NEW k \in Kinds, NEW v \in Values
  PROVE  LET n == Numbered(o, k)
             w == WithElement(o, k, v)
             p == n.elementTable[k]
         IN /\ w \in Objects
            /\ w.elementTable = n.elementTable /\ w.nextFreeElement = n.nextFreeElement
            /\ p \in Nat
            /\ w.elementArray = IF p < ElementCount
                                  THEN [o.elementArray EXCEPT ![p + 1] = Element(k, v)]
                                  ELSE o.elementArray
<1> DEFINE n == Numbered(o, k)
           p == n.elementTable[k]
           w == WithElement(o, k, v)
<1>1. n \in Objects /\ n.elementArray = o.elementArray
  BY NumberedResult
<1>2. p \in Nat
  <2>1. o.elementTable \in [Kinds -> Nat \cup {-1}] /\ o.nextFreeElement \in Nat
    BY DEF Objects
  <2> QED BY <2>1, NumberedResult
<1>3. Element(k, v) \in Elements
  BY DEF Element, Elements
<1>4. CASE p < ElementCount
  <2>1. w = [n EXCEPT !.elementArray[p + 1] = Element(k, v)]
    BY <1>2, <1>4 DEF WithElement, InArray
  <2>2. p + 1 \in 1..ElementCount
    BY <1>2, <1>4, ConstantsAssumption
  <2> HIDE DEF n, p, w
  <2>3. w \in Objects
    BY <1>1, <1>3, <2>1, <2>2 DEF Objects
  <2>4. /\ w.elementTable = n.elementTable /\ w.nextFreeElement = n.nextFreeElement
        /\ w.elementArray = [n.elementArray EXCEPT ![p + 1] = Element(k, v)]
    BY <1>1, <2>1 DEF Objects
  <2> QED BY <1>1, <1>2, <1>4, <2>3, <2>4 DEF n, p, w
<1>5. CASE ~(p < ElementCount)
  BY <1>1, <1>2, <1>5 DEF WithElement, InArray
<1> QED BY <1>4, <1>5

\* setElement keeps the array and the table consistent.
LEMMA WithElementConsistent ==
  ASSUME NEW o, Consistent(o), NEW k \in Kinds, NEW v \in Values
  PROVE  Consistent(WithElement(o, k, v))
<1> DEFINE w == WithElement(o, k, v)
           n == Numbered(o, k)
           p == n.elementTable[k]
<1>1. o \in Objects /\ Placed(o) /\ Vacant(o) /\ Tabled(o)
  BY DEF Consistent
<1>2. /\ o.elementTable \in [Kinds -> Nat \cup {-1}] /\ o.nextFreeElement \in Nat
      /\ o.elementArray \in [1..ElementCount -> Elements]
  BY <1>1 DEF Objects
<1>3. /\ w \in Objects /\ p \in Nat
      /\ w.elementTable = n.elementTable /\ w.nextFreeElement = n.nextFreeElement
      /\ w.elementArray = IF p < ElementCount
                            THEN [o.elementArray EXCEPT ![p + 1] = Element(k, v)]
                            ELSE o.elementArray
  BY <1>1, WithElementResult
<1>4. Element(k, v).elementID = k /\ Element(k, v).data = v
  BY DEF Element
<1>5. CASE o.elementTable[k] # -1
  <2>1. n = o
    BY <1>1, <1>5, NumberedResult
  <2>2. w.elementTable = o.elementTable /\ w.nextFreeElement = o.nextFreeElement
    BY <1>3, <2>1
  <2>3. p = o.elementTable[k] /\ p < o.nextFreeElement
    BY <1>1, <1>5, <2>1 DEF Tabled
  <2> HIDE DEF n, p, w
  <2>4. Placed(w)
    <3> SUFFICES ASSUME NEW q \in Slots, q <= w.nextFreeElement
                 PROVE  /\ w.elementArray[q].elementID \in Kinds
                        /\ w.elementArray[q].data \in Values
                        /\ w.elementTable[w.elementArray[q].elementID] = q - 1
      BY DEF Placed
    <3>1. CASE q = p + 1
      BY <1>2, <1>3, <1>4, <2>2, <2>3, <3>1, ConstantsAssumption DEF Slots
    <3>2. CASE q # p + 1
      <4>1. w.elementArray[q] = o.elementArray[q]
        BY <1>2, <1>3, <3>2, ConstantsAssumption DEF Slots
      <4> QED BY <1>1, <2>2, <4>1 DEF Placed
    <3> QED BY <3>1, <3>2
  <2>5. Vacant(w)
    BY <1>1, <1>2, <1>3, <2>2, <2>3, ConstantsAssumption DEF Vacant, Slots
  <2>6. Tabled(w)
    BY <1>1, <1>2, <1>3, <1>4, <2>2, <2>3, ConstantsAssumption DEF Tabled
  <2> QED BY <1>3, <2>4, <2>5, <2>6 DEF Consistent, w
<1>6. CASE o.elementTable[k] = -1
  <2>1. /\ n.nextFreeElement = o.nextFreeElement + 1
        /\ n.elementTable = [o.elementTable EXCEPT ![k] = o.nextFreeElement]
    BY <1>1, <1>6, NumberedResult
  <2>2. p = o.nextFreeElement
    BY <1>2, <2>1
  <2>3. /\ w.nextFreeElement = o.nextFreeElement + 1
        /\ w.elementTable = [o.elementTable EXCEPT ![k] = o.nextFreeElement]
    BY <1>3, <2>1
  <2> HIDE DEF n, p, w
  <2>4. Placed(w)
    <3> SUFFICES ASSUME NEW q \in Slots, q <= w.nextFreeElement
                 PROVE  /\ w.elementArray[q].elementID \in Kinds
                        /\ w.elementArray[q].data \in Values
                        /\ w.elementTable[w.elementArray[q].elementID] = q - 1
      BY DEF Placed
    <3>1. CASE q = p + 1
      BY <1>2, <1>3, <1>4, <2>2, <2>3, <3>1, ConstantsAssumption DEF Slots
    <3>2. CASE q # p + 1
      <4>1. q <= o.nextFreeElement
        BY <1>2, <2>2, <2>3, <3>2, ConstantsAssumption DEF Slots
      <4>2. w.elementArray[q] = o.elementArray[q]
        BY <1>2, <1>3, <3>2, ConstantsAssumption DEF Slots
      <4>3. /\ o.elementArray[q].elementID \in Kinds
            /\ o.elementArray[q].data \in Values
            /\ o.elementTable[o.elementArray[q].elementID] = q - 1
        BY <1>1, <4>1 DEF Placed
      <4>4. o.elementArray[q].elementID # k
        BY <1>6, <4>3, ConstantsAssumption DEF Slots
      <4> QED BY <1>2, <2>3, <4>2, <4>3, <4>4
    <3> QED BY <3>1, <3>2
  <2>5. Vacant(w)
    BY <1>1, <1>2, <1>3, <2>2, <2>3, ConstantsAssumption DEF Vacant, Slots
  <2>6. Tabled(w)
    BY <1>1, <1>2, <1>3, <1>4, <2>2, <2>3, ConstantsAssumption DEF Tabled
  <2> QED BY <1>3, <2>4, <2>5, <2>6 DEF Consistent, w
<1> QED BY <1>2, <1>5, <1>6

-----------------------------------------------------------------------------
(***************************************************************************)
(* While a listener's constructor makes r of the bytes of o, and has gone  *)
(* through p elements, it has given out the numbers o has, so far: those   *)
(* too were given out in the order of the array.                           *)
(***************************************************************************)
LoadedTo(p, r, o) ==
  /\ r.elementArray = o.elementArray
  /\ r.nextFreeElement = IF p < o.nextFreeElement THEN p ELSE o.nextFreeElement
  /\ \A k \in Kinds : r.elementTable[k] =
       IF o.elementTable[k] < p THEN o.elementTable[k] ELSE -1

\* It starts with the array and no number.
LEMMA LoadNone ==
  ASSUME NEW o \in Objects
  PROVE  Unnumbered(Bytes(o)) \in Objects /\ LoadedTo(0, Unnumbered(Bytes(o)), o)
BY DEF LoadedTo, Unnumbered, Bytes, Objects

\* The element at the next place gives its kind the number of the place.
LEMMA LoadOne ==
  ASSUME NEW o, Consistent(o), NEW r \in Objects, NEW l \in Nat, l < ElementCount,
         LoadedTo(l, r, o)
  PROVE  LoadedElement(r, l + 1) \in Objects /\ LoadedTo(l + 1, LoadedElement(r, l + 1), o)
<1> DEFINE p == l + 1
           k == r.elementArray[p].elementID
           s == LoadedElement(r, p)
<1>1. p \in Slots
  BY ConstantsAssumption DEF Slots
<1>2. /\ o \in Objects /\ r.elementArray = o.elementArray
      /\ Placed(o) /\ Vacant(o) /\ Tabled(o)
  BY DEF Consistent, LoadedTo
<1>3. /\ o.elementTable \in [Kinds -> Nat \cup {-1}] /\ o.nextFreeElement \in Nat
      /\ r.elementTable \in [Kinds -> Nat \cup {-1}] /\ r.nextFreeElement \in Nat
  BY <1>2 DEF Objects
<1>4. CASE p <= o.nextFreeElement
  <2>1. k \in Kinds /\ o.elementTable[k] = l
    BY <1>1, <1>2, <1>4 DEF Placed, Slots
  <2>2. r.elementTable[k] = -1 /\ r.nextFreeElement = l
    BY <1>3, <1>4, <2>1 DEF LoadedTo
  <2>3. s = Numbered(r, k)
    BY <2>1, ConstantsAssumption DEF LoadedElement
  <2>4. /\ s \in Objects /\ s.elementArray = r.elementArray
        /\ s.nextFreeElement = p
        /\ s.elementTable = [r.elementTable EXCEPT ![k] = l]
    BY <2>1, <2>2, <2>3, NumberedResult
  <2>5. \A j \in Kinds : o.elementTable[j] = l => j = k
    BY <1>1, <1>2, <1>3 DEF Tabled
  <2> HIDE DEF k, s
  <2>6. ASSUME NEW j \in Kinds
        PROVE  s.elementTable[j] = IF o.elementTable[j] < p THEN o.elementTable[j] ELSE -1
    <3>1. CASE j = k
      BY <1>3, <2>1, <2>4, <3>1
    <3>2. CASE j # k
      <4>1. s.elementTable[j] = r.elementTable[j]
        BY <1>3, <2>1, <2>4, <3>2
      <4>2. o.elementTable[j] # l /\ o.elementTable[j] \in Nat \cup {-1}
        BY <1>3, <2>5, <3>2
      <4> QED BY <4>1, <4>2 DEF LoadedTo
    <3> QED BY <3>1, <3>2
  <2> QED BY <1>2, <1>3, <1>4, <2>4, <2>6 DEF LoadedTo, s
<1>5. CASE p > o.nextFreeElement
  <2>1. k = NoKind
    BY <1>1, <1>2, <1>5 DEF Vacant, NewElement
  <2>2. s = r
    BY <2>1 DEF LoadedElement
  <2>3. \A j \in Kinds : o.elementTable[j] # l
    BY <1>2, <1>3, <1>5 DEF Tabled
  <2>4. \A j \in Kinds : (o.elementTable[j] < p) <=> (o.elementTable[j] < l)
    <3> SUFFICES ASSUME NEW j \in Kinds
                 PROVE  (o.elementTable[j] < p) <=> (o.elementTable[j] < l)
      OBVIOUS
    <3> DEFINE e == o.elementTable[j]
    <3>1. e \in Nat \cup {-1} /\ e # l
      BY <1>3, <2>3
    <3> HIDE DEF e
    <3>2. (e < p) <=> (e < l)
      BY <3>1
    <3> QED BY <3>2 DEF e
  <2> HIDE DEF s
  <2> QED BY <1>2, <1>3, <1>5, <2>2, <2>4 DEF LoadedTo, s
<1> QED BY <1>3, <1>4, <1>5

\* At the end it has for each kind what o has.
LEMMA LoadedAll ==
  ASSUME NEW o \in Objects, NEW r \in Objects, LoadedTo(ElementCount, r, o), NEW k \in Kinds
  PROVE  GetElement(r, k) = GetElement(o, k)
<1>1. /\ o.elementTable[k] \in Nat \cup {-1}
      /\ r.elementArray = o.elementArray
      /\ r.elementTable[k] = IF o.elementTable[k] < ElementCount THEN o.elementTable[k] ELSE -1
  BY DEF Objects, LoadedTo
<1> QED BY <1>1, ConstantsAssumption DEF GetElement, InArray

-----------------------------------------------------------------------------
Loading == LoadedTo(loaded, received, sent)

IInv == ExchangeTypeOK /\ Consistent(local) /\ Consistent(sent) /\ Loading

\* The exchange begins in IInv.
LEMMA InitIInv == InitExchange => IInv
<1> SUFFICES ASSUME InitExchange PROVE IInv
  OBVIOUS
<1>1. Consistent(local) /\ Consistent(sent)
  BY NewConsistent DEF InitExchange
<1>2. ExchangeTypeOK
  BY <1>1, ConstantsAssumption DEF InitExchange, ExchangeTypeOK, Consistent
<1>3. Loading
  BY ConstantsAssumption DEF InitExchange, Loading, LoadedTo, NewObject, Unnumbered
<1> QED BY <1>1, <1>2, <1>3 DEF IInv

\* setElement changes the sender's object only.
LEMMA SetElementKeeps ==
  ASSUME IInv, NEW k \in Kinds, NEW v \in Values, SetElement(k, v)
  PROVE  IInv'
<1>1. Consistent(local')
  BY WithElementConsistent DEF IInv, SetElement
<1> QED BY <1>1 DEF IInv, SetElement, ExchangeTypeOK, Consistent, Placed, Vacant, Tabled, Loading, LoadedTo

\* The listener starts afresh.
LEMMA SendToKeeps ==
  ASSUME IInv, SendTo
  PROVE  IInv'
<1>1. local \in Objects /\ Consistent(local)
  BY DEF IInv, Consistent
<1>2. /\ local' = local /\ sent' = local /\ loaded' = 0
      /\ received' = Unnumbered(Bytes(local))
  BY DEF SendTo
<1>3. received' \in Objects /\ Loading'
  BY <1>1, <1>2, LoadNone DEF Loading
<1>4. ExchangeTypeOK'
  BY <1>1, <1>2, <1>3, ConstantsAssumption DEF ExchangeTypeOK
<1>5. Consistent(local)' /\ Consistent(sent)'
  BY <1>1, <1>2
<1> QED BY <1>3, <1>4, <1>5 DEF IInv

\* The listener goes on.
LEMMA LoadElementKeeps ==
  ASSUME IInv, LoadElement
  PROVE  IInv'
<1>1. /\ loaded \in Nat /\ loaded < ElementCount /\ loaded + 1 \in 0..ElementCount
      /\ local' = local /\ sent' = sent /\ loaded' = loaded + 1
      /\ received' = LoadedElement(received, loaded + 1)
  BY ConstantsAssumption DEF IInv, ExchangeTypeOK, LoadElement
<1>2. Consistent(local)' /\ Consistent(sent)'
  BY <1>1 DEF IInv
<1>3. received' \in Objects /\ Loading'
  BY <1>1, LoadOne DEF IInv, ExchangeTypeOK, Loading
<1>4. ExchangeTypeOK'
  BY <1>1, <1>3 DEF IInv, ExchangeTypeOK
<1> QED BY <1>2, <1>3, <1>4 DEF IInv

\* Every step of the exchange keeps IInv.
LEMMA NextKeeps == IInv /\ [NextExchange]_exchangeVars => IInv'
<1> SUFFICES ASSUME IInv, [NextExchange]_exchangeVars PROVE IInv'
  OBVIOUS
<1>1. CASE \E k \in Kinds, v \in Values : SetElement(k, v)
  BY <1>1, SetElementKeeps
<1>2. CASE SendTo
  BY <1>2, SendToKeeps
<1>3. CASE LoadElement
  BY <1>3, LoadElementKeeps
<1>4. CASE UNCHANGED exchangeVars
  BY <1>4 DEF exchangeVars, IInv, ExchangeTypeOK, Consistent, Placed, Vacant, Tabled, Loading, LoadedTo
<1> QED BY <1>1, <1>2, <1>3, <1>4 DEF NextExchange

\* IInv holds throughout.
LEMMA AlwaysIInv == ExchangeSpec => []IInv
BY InitIInv, NextKeeps, PTL DEF ExchangeSpec

\* Every object the program can make is well formed.
THEOREM TypeCorrect == ExchangeSpec => []ExchangeTypeOK
<1>1. IInv => ExchangeTypeOK
  BY DEF IInv
<1> QED BY <1>1, AlwaysIInv, PTL

\* For any kinds and any room, a listener that has read the bytes gets for each
\* kind what the sender would have got.
THEOREM ReceivesWhatWasSent == ExchangeSpec => []ReceivedAsSent
<1>1. IInv => ReceivedAsSent
  <2> SUFFICES ASSUME IInv, loaded = ElementCount, NEW k \in Kinds
               PROVE  GetElement(received, k) = GetElement(sent, k)
    BY DEF ReceivedAsSent
  <2> QED BY LoadedAll DEF IInv, ExchangeTypeOK, Loading
<1> QED BY <1>1, AlwaysIInv, PTL

-----------------------------------------------------------------------------
(***************************************************************************)
(* The map a consistent object stands for.                                 *)
(***************************************************************************)
Data(o) == [k \in Kinds |-> GetElement(o, k).data]
Room(o) == IF o.nextFreeElement < ElementCount THEN ElementCount - o.nextFreeElement ELSE 0

\* A kind has a value exactly if it has a place in the array.
LEMMA DataResult ==
  ASSUME NEW o, Consistent(o), NEW k \in Kinds
  PROVE  /\ InArray(o.elementTable[k]) =>
              /\ Data(o)[k] = o.elementArray[o.elementTable[k] + 1].data
              /\ Data(o)[k] \in Values
              /\ o.elementArray[o.elementTable[k] + 1].elementID = k
              /\ o.elementTable[k] < o.nextFreeElement
         /\ ~InArray(o.elementTable[k]) => Data(o)[k] = Missing
<1>1. /\ o.elementTable \in [Kinds -> Nat \cup {-1}] /\ o.nextFreeElement \in Nat
      /\ Placed(o) /\ Tabled(o)
  BY DEF Consistent, Objects
<1>2. CASE InArray(o.elementTable[k])
  <2>1. /\ o.elementTable[k] + 1 \in Slots /\ o.elementTable[k] # -1
        /\ o.elementTable[k] < ElementCount
    BY <1>1, <1>2, ConstantsAssumption DEF InArray, Slots
  <2>2. /\ o.elementTable[k] < o.nextFreeElement
        /\ o.elementArray[o.elementTable[k] + 1].elementID = k
    BY <1>1, <2>1 DEF Tabled
  <2>3. o.elementArray[o.elementTable[k] + 1].data \in Values
    BY <1>1, <2>1, <2>2 DEF Placed
  <2> QED BY <1>2, <2>2, <2>3 DEF Data, GetElement
<1>3. CASE ~InArray(o.elementTable[k])
  BY <1>3 DEF Data, GetElement, NewElement
<1> QED BY <1>2, <1>3

\* setElement puts the value into the map, or, without room, does nothing to it.
LEMMA PutOrNothing ==
  ASSUME NEW o, Consistent(o), NEW k \in Kinds, NEW v \in Values
  PROVE  LET w     == WithElement(o, k, v)
             known == Data(o)[k] # Missing
         IN \/ /\ known \/ Room(o) > 0
               /\ Data(w) = [Data(o) EXCEPT ![k] = v]
               /\ Room(w) = IF known THEN Room(o) ELSE Room(o) - 1
            \/ Data(w) = Data(o) /\ Room(w) = Room(o)
<1> DEFINE w == WithElement(o, k, v)
           n == Numbered(o, k)
           p == n.elementTable[k]
<1>1. /\ o \in Objects /\ o.nextFreeElement \in Nat /\ ElementCount \in Nat
      /\ o.elementTable \in [Kinds -> Nat \cup {-1}]
      /\ o.elementArray \in [1..ElementCount -> Elements]
  BY ConstantsAssumption DEF Consistent, Objects
<1>2. /\ w \in Objects /\ p \in Nat
      /\ w.elementTable = n.elementTable /\ w.nextFreeElement = n.nextFreeElement
      /\ w.elementArray = IF p < ElementCount
                            THEN [o.elementArray EXCEPT ![p + 1] = Element(k, v)]
                            ELSE o.elementArray
  BY <1>1, WithElementResult
<1>3. Consistent(w)
  BY WithElementConsistent
<1>4. \A j \in Kinds : Data(o)[j] = Missing <=> ~InArray(o.elementTable[j])
  BY DataResult, ConstantsAssumption
<1>5. CASE o.elementTable[k] # -1
  <2>1. n = o
    BY <1>1, <1>5, NumberedResult
  <2>2. Room(w) = Room(o)
    BY <1>2, <2>1 DEF Room
  <2>3. CASE p < ElementCount
    <3>1. Data(o)[k] # Missing
      BY <1>2, <1>4, <2>1, <2>3 DEF InArray
    <3>2. ASSUME NEW j \in Kinds PROVE Data(w)[j] = IF j = k THEN v ELSE Data(o)[j]
      <4>1. CASE j = k
        <5>1. w.elementTable[k] = p /\ p + 1 \in 1..ElementCount /\ InArray(p)
          BY <1>1, <1>2, <2>3 DEF InArray
        <5>2. w.elementArray[p + 1].data = v
          BY <1>1, <1>2, <2>3, <5>1 DEF Element
        <5>3. Data(w)[k] = w.elementArray[w.elementTable[k] + 1].data
          BY <1>3, <5>1, DataResult
        <5> QED BY <4>1, <5>1, <5>2, <5>3
      <4>2. CASE j # k
        <5>1. InArray(o.elementTable[j]) => o.elementTable[j] # p
          BY <1>2, <2>1, <2>3, <4>2, DataResult DEF InArray
        <5>2. InArray(o.elementTable[j]) => o.elementTable[j] + 1 \in 1..ElementCount
          BY <1>1 DEF InArray
        <5>3. InArray(o.elementTable[j]) =>
                w.elementArray[o.elementTable[j] + 1] = o.elementArray[o.elementTable[j] + 1]
          BY <1>1, <1>2, <2>3, <5>1, <5>2
        <5> QED BY <1>2, <2>1, <4>2, <5>3 DEF Data, GetElement
      <4> QED BY <4>1, <4>2
    <3>3. Data(w) = [Data(o) EXCEPT ![k] = v]
      BY <3>2 DEF Data
    <3> QED BY <2>2, <3>1, <3>3
  <2>4. CASE ~(p < ElementCount)
    <3>1. Data(w) = Data(o)
      BY <1>2, <2>1, <2>4 DEF Data, GetElement
    <3> QED BY <2>2, <3>1
  <2> QED BY <2>3, <2>4
<1>6. CASE o.elementTable[k] = -1
  <2>1. /\ n.nextFreeElement = o.nextFreeElement + 1
        /\ n.elementTable = [o.elementTable EXCEPT ![k] = o.nextFreeElement]
        /\ p = o.nextFreeElement
    BY <1>1, <1>6, NumberedResult
  <2>2. ~InArray(o.elementTable[k]) /\ Data(o)[k] = Missing
    BY <1>4, <1>6 DEF InArray
  <2>3. CASE p < ElementCount
    <3>1. Room(o) > 0 /\ Room(w) = Room(o) - 1
      BY <1>1, <1>2, <2>1, <2>3 DEF Room
    <3>2. ASSUME NEW j \in Kinds PROVE Data(w)[j] = IF j = k THEN v ELSE Data(o)[j]
      <4>1. CASE j = k
        <5>1. w.elementTable[k] = p /\ p + 1 \in 1..ElementCount /\ InArray(p)
          BY <1>1, <1>2, <2>3 DEF InArray
        <5>2. w.elementArray[p + 1].data = v
          BY <1>1, <1>2, <2>3, <5>1 DEF Element
        <5>3. Data(w)[k] = w.elementArray[w.elementTable[k] + 1].data
          BY <1>3, <5>1, DataResult
        <5> QED BY <4>1, <5>1, <5>2, <5>3
      <4>2. CASE j # k
        <5>1. w.elementTable[j] = o.elementTable[j]
          BY <1>1, <1>2, <2>1, <4>2
        <5>2. InArray(o.elementTable[j]) =>
                o.elementTable[j] # p /\ o.elementTable[j] + 1 \in 1..ElementCount
          BY <1>1, <2>1, DataResult DEF InArray
        <5>3. InArray(o.elementTable[j]) =>
                w.elementArray[o.elementTable[j] + 1] = o.elementArray[o.elementTable[j] + 1]
          BY <1>1, <1>2, <2>3, <5>2
        <5> QED BY <4>2, <5>1, <5>3 DEF Data, GetElement
      <4> QED BY <4>1, <4>2
    <3>3. Data(w) = [Data(o) EXCEPT ![k] = v]
      BY <3>2 DEF Data
    <3> QED BY <2>2, <3>1, <3>3
  <2>4. CASE ~(p < ElementCount)
    <3>1. Room(w) = Room(o)
      BY <1>1, <1>2, <2>1, <2>4 DEF Room
    <3>2. ASSUME NEW j \in Kinds PROVE GetElement(w, j) = GetElement(o, j)
      <4>1. CASE j = k
        BY <1>1, <1>2, <2>1, <2>2, <2>4, <4>1 DEF GetElement, InArray
      <4>2. CASE j # k
        BY <1>1, <1>2, <2>1, <2>4, <4>2 DEF GetElement
      <4> QED BY <4>1, <4>2
    <3> QED BY <3>1, <3>2 DEF Data
  <2> QED BY <2>3, <2>4
<1> QED BY <1>1, <1>5, <1>6

\* For any kinds, values and room a Serialize object is a bounded map: every
\* step is a Put of the abstract specification or leaves it alone.
THEOREM IsBoundedMap == ExchangeSpec => ImplementsElementMap
<1>1. InitExchange => Map!Init
  <2> SUFFICES ASSUME InitExchange PROVE Map!Init
    OBVIOUS
  <2>1. \A k \in Kinds : GetElement(local, k).data = Missing
    <3> SUFFICES ASSUME NEW k \in Kinds PROVE GetElement(local, k).data = Missing
      OBVIOUS
    <3>1. local.elementTable[k] = -1
      BY DEF InitExchange, NewObject, Unnumbered
    <3>2. ~(0 <= local.elementTable[k])
      BY <3>1
    <3> QED BY <3>2 DEF GetElement, InArray, NewElement
  <2>2. local.nextFreeElement = 0
    BY DEF InitExchange, NewObject, Unnumbered
  <2> QED BY <2>1, <2>2, ConstantsAssumption DEF Map!Init
<1>2. IInv /\ [NextExchange]_exchangeVars => [Map!Next]_<<Data(local), Room(local)>>
  <2> SUFFICES ASSUME IInv, [NextExchange]_exchangeVars
               PROVE  \/ Map!Next
                      \/ Data(local)' = Data(local) /\ Room(local)' = Room(local)
    OBVIOUS
  <2>1. ASSUME NEW k \in Kinds, NEW v \in Values, SetElement(k, v)
        PROVE  \/ Map!Put(k, v)
               \/ Data(local)' = Data(local) /\ Room(local)' = Room(local)
    <3>1. local' = WithElement(local, k, v) /\ Consistent(local)
      BY <2>1 DEF SetElement, IInv
    <3>2. LET known == Data(local)[k] # Missing
          IN \/ /\ known \/ Room(local) > 0
                /\ Data(local') = [Data(local) EXCEPT ![k] = v]
                /\ Room(local') = IF known THEN Room(local) ELSE Room(local) - 1
             \/ Data(local') = Data(local) /\ Room(local') = Room(local)
      BY <3>1, PutOrNothing
    <3> QED BY <3>2 DEF Map!Put, Data, Room
  <2>2. CASE local' = local
    BY <2>2 DEF Data, Room
  <2> QED BY <2>1, <2>2 DEF NextExchange, SendTo, LoadElement, exchangeVars, Map!Next
<1> QED BY <1>1, <1>2, AlwaysIInv, PTL DEF ExchangeSpec, ImplementsElementMap, Map!Spec, Data, Room

-----------------------------------------------------------------------------
(* csvThread *)

DatedRows == [kind : ReportKinds, number : Nat, day : Nat]
CsvFiles == [day : Nat, rows : Seq(DatedRows)]

\* What the theorem needs to know of the types.
CsvTyped ==
  /\ today \in Nat /\ previous \in Nat
  /\ reports \in [ReportKinds -> Seq(Nat)]
  /\ taken \in [DOMAIN Takers -> Nat]
  /\ outputQueue \in Seq(DatedRows)
  /\ files \in Seq(CsvFiles)
  /\ pc \in {"midnight", "reopen", "write"} => row \in DatedRows
  /\ pc \in {"detect", "pop", "midnight", "reopen", "write"} => files # <<>>
  /\ pc = "open" => files = <<>>
  /\ pc = "detect" => Len(files) = 1

\* Nothing is dated after today.
NothingFromTomorrow ==
  /\ \A k \in ReportKinds : \A n \in 1..Len(reports[k]) : reports[k][n] <= today
  /\ \A n \in 1..Len(outputQueue) : outputQueue[n].day <= today
  /\ pc \in {"midnight", "reopen", "write"} => row.day <= today
  /\ previous <= today

\* While the thread is not misled, the open file is of the day it last looked
\* at or later, and a row that goes to a file is of that day or earlier.
UpToDate ==
  ~disturbed =>
    /\ pc \in {"pop", "midnight", "write"} => previous <= files[Len(files)].day
    /\ pc \in {"reopen", "write"} => row.day <= previous

CsvInv == CsvTyped /\ NothingFromTomorrow /\ UpToDate /\ FileOfTheDay

-----------------------------------------------------------------------------
\* CsvInv holds before the first file is open.
LEMMA InitCsv == Init => CsvInv
BY DEF Init, CsvInv, CsvTyped, NothingFromTomorrow, UpToDate, FileOfTheDay

\* The steps that leave csvThread and its queue alone.
LEMMA PublishStep ==
  ASSUME CsvInv, NEW k \in ReportKinds, Publish(k)
  PROVE  CsvInv'
<1>1. /\ reports' = [reports EXCEPT ![k] = Append(@, today)]
      /\ UNCHANGED <<today, taken, outputQueue, pc, row, previous, files, disturbed>>
  BY DEF Publish, csvVars
<1>2. /\ reports' \in [ReportKinds -> Seq(Nat)]
      /\ \A j \in ReportKinds : \A n \in 1..Len(reports'[j]) : reports'[j][n] <= today
  <2>1. /\ reports \in [ReportKinds -> Seq(Nat)] /\ today \in Nat
        /\ \A j \in ReportKinds : \A n \in 1..Len(reports[j]) : reports[j][n] <= today
    BY DEF CsvInv, CsvTyped, NothingFromTomorrow
  <2>2. \A n \in 1..Len(Append(reports[k], today)) : Append(reports[k], today)[n] <= today
    BY <2>1
  <2>3. Append(reports[k], today) \in Seq(Nat)
    BY <2>1
  <2>4. QED
    BY <1>1, <2>1, <2>2, <2>3
<1>3. QED
  BY <1>1, <1>2 DEF CsvInv, CsvTyped, NothingFromTomorrow, UpToDate, FileOfTheDay

\* Midnight keeps CsvInv.
LEMMA NewDayStep == ASSUME CsvInv, NewDay PROVE CsvInv'
<1>1. /\ today' = today + 1
      /\ UNCHANGED <<reports, taken, outputQueue, pc, row, previous, files, disturbed>>
  BY DEF NewDay, csvVars
<1>2. CsvTyped' /\ UpToDate' /\ FileOfTheDay'
  BY <1>1 DEF CsvInv, CsvTyped, UpToDate, FileOfTheDay
<1>3. NothingFromTomorrow'
  <2>1. today \in Nat /\ previous \in Nat
    BY DEF CsvInv, CsvTyped
  <2>2. ASSUME NEW k \in ReportKinds, NEW n \in 1..Len(reports[k])
        PROVE  reports[k][n] <= today'
    <3>1. reports[k][n] \in Nat /\ reports[k][n] <= today
      BY DEF CsvInv, CsvTyped, NothingFromTomorrow
    <3>2. QED
      BY <1>1, <2>1, <3>1
  <2>3. ASSUME NEW n \in 1..Len(outputQueue) PROVE outputQueue[n].day <= today'
    <3>1. outputQueue[n] \in DatedRows /\ outputQueue[n].day <= today
      BY DEF CsvInv, CsvTyped, NothingFromTomorrow
    <3>2. QED
      BY <1>1, <2>1, <3>1 DEF DatedRows
  <2>4. ASSUME pc \in {"midnight", "reopen", "write"} PROVE row.day <= today'
    <3>1. row \in DatedRows /\ row.day <= today
      BY <2>4 DEF CsvInv, CsvTyped, NothingFromTomorrow
    <3>2. QED
      BY <1>1, <2>1, <3>1 DEF DatedRows
  <2>5. previous <= today'
    BY <1>1, <2>1 DEF CsvInv, NothingFromTomorrow
  <2>6. QED
    BY <1>1, <2>2, <2>3, <2>4, <2>5 DEF NothingFromTomorrow
<1>4. QED
  BY <1>2, <1>3 DEF CsvInv

\* A row has the day of the report it is made of.
LEMMA PublishRowStep ==
  ASSUME CsvInv, NEW t \in CsvTakers, PublishRow(t)
  PROVE  CsvInv'
<1> DEFINE k == Takers[t]  n == taken'[t]
           r == [kind |-> k, number |-> n, day |-> reports[k][n]]
<1>1. /\ taken[t] < Len(reports[k])
      /\ taken' = [taken EXCEPT ![t] = @ + 1]
      /\ outputQueue' = Append(outputQueue, r)
      /\ UNCHANGED <<today, reports, pc, row, previous, files, disturbed>>
  BY DEF PublishRow, TakeReport, csvVars
<1>2. k \in ReportKinds /\ t \in DOMAIN Takers
  BY DEF CsvTakers, Takers, ReportKinds
<1>3. taken' \in [DOMAIN Takers -> Nat] /\ n = taken[t] + 1 /\ taken[t] \in Nat
  BY <1>1, <1>2 DEF CsvInv, CsvTyped
<1>4. n \in 1..Len(reports[k]) /\ reports[k] \in Seq(Nat)
  BY <1>1, <1>2, <1>3 DEF CsvInv, CsvTyped
<1>5. reports[k][n] \in Nat /\ reports[k][n] <= today /\ n \in Nat
  BY <1>2, <1>4 DEF CsvInv, NothingFromTomorrow
<1>6. r \in DatedRows /\ r.day <= today
  BY <1>2, <1>5 DEF DatedRows
<1> HIDE DEF r
<1>7. /\ outputQueue' \in Seq(DatedRows)
      /\ \A i \in 1..Len(outputQueue') : outputQueue'[i].day <= today
  BY <1>1, <1>6 DEF CsvInv, CsvTyped, NothingFromTomorrow
<1>8. QED
  BY <1>1, <1>3, <1>7 DEF CsvInv, CsvTyped, NothingFromTomorrow, UpToDate, FileOfTheDay

-----------------------------------------------------------------------------
(* The steps of csvThread *)

\* A new file keeps CsvInv: it is named after today.
LEMMA OpenFileStep ==
  ASSUME CsvInv, UNCHANGED <<today, reports, taken>>, NEW from, NEW to,
         <<from, to>> \in {<<"open", "detect">>, <<"reopen", "write">>}, OpenFile(from, to)
  PROVE  CsvInv'
<1>1. /\ pc = from /\ UNCHANGED <<today, reports, taken, outputQueue, row, previous>>
      /\ <<from, to>> = <<"open", "detect">> \/ <<from, to>> = <<"reopen", "write">>
  BY DEF OpenFile, Goto
<1>2. CASE pc' = "done" /\ UNCHANGED <<files, disturbed>>
  BY <1>1, <1>2 DEF CsvInv, CsvTyped, NothingFromTomorrow, UpToDate, FileOfTheDay
<1>3. ASSUME NEW named \in Dates, pc' = to, files' = Append(files, NewFile(named)),
             disturbed' = (disturbed \/ named # today)
      PROVE  CsvInv'
  <2>1. named \in Nat /\ NewFile(named) \in CsvFiles
        /\ NewFile(named).day = named /\ NewFile(named).rows = <<>>
    BY <1>3 DEF Dates, NewFile, CsvFiles, CsvInv, CsvTyped
  <2>2. /\ files \in Seq(CsvFiles) /\ Len(files) \in Nat
        /\ files' \in Seq(CsvFiles) /\ Len(files') = Len(files) + 1
        /\ files'[Len(files')] = NewFile(named)
        /\ \A f \in 1..Len(files) : files'[f] = files[f]
    BY <1>3, <2>1 DEF CsvInv, CsvTyped
  <2>3. ~disturbed' => ~disturbed /\ named = today
    <3>1. CASE disturbed \/ named # today
      <4>1. disturbed' = TRUE
        BY <1>3, <3>1
      <4>2. QED
        BY <4>1
    <3>2. CASE ~(disturbed \/ named # today)
      BY <3>2
    <3>3. QED
      BY <3>1, <3>2
  <2>4. CsvTyped'
    <3>1. \/ pc = "open" /\ pc' = "detect"
          \/ pc = "reopen" /\ pc' = "write"
      BY <1>1, <1>3
    <3>2. pc = "open" => Len(files') = 1
      BY <2>2 DEF CsvInv, CsvTyped
    <3>3. files' # <<>>
      BY <2>2
    <3>4. pc = "reopen" => row \in DatedRows
      BY DEF CsvInv, CsvTyped
    <3>5. QED
      BY <1>1, <2>2, <3>1, <3>2, <3>3, <3>4 DEF CsvInv, CsvTyped
  <2>5. NothingFromTomorrow'
    BY <1>1, <1>3 DEF CsvInv, NothingFromTomorrow
  <2>6. UpToDate'
    <3>1. CASE to = "detect"
      BY <1>3, <3>1 DEF UpToDate
    <3>2. CASE to = "write" /\ from = "reopen"
      <4>1. pc = "reopen" /\ previous <= today
        BY <1>1, <3>2 DEF CsvInv, NothingFromTomorrow
      <4>2. QED
        BY <1>1, <1>3, <2>1, <2>2, <2>3, <3>2, <4>1 DEF CsvInv, UpToDate
    <3>3. QED
      BY <1>1, <3>1, <3>2
  <2>7. FileOfTheDay'
    <3>1. \A f \in 1..Len(files') : f \in 1..Len(files) \/ f = Len(files')
      BY <2>2
    <3>2. QED
      BY <2>1, <2>2, <2>3, <3>1 DEF CsvInv, FileOfTheDay
  <2>8. QED
    BY <2>4, <2>5, <2>6, <2>7 DEF CsvInv
<1>4. QED
  BY <1>2, <1>3 DEF OpenFile, Goto

\* The look at the day keeps CsvInv.
LEMMA CrossedMidnightStep ==
  ASSUME CsvInv, UNCHANGED <<today, reports, taken>>, NEW from, NEW yes, NEW no,
         <<from, yes, no>> \in {<<"detect", "pop", "pop">>, <<"midnight", "reopen", "write">>},
         CrossedMidnight(from, yes, no)
  PROVE  CsvInv'
<1>1. PICK compared \in Dates, copied \in Dates :
        /\ pc = from /\ pc' = (IF previous # compared THEN yes ELSE no)
        /\ previous' = copied
        /\ disturbed' = \/ disturbed \/ {compared, copied} # {today}
                        \/ from = "detect" /\ files[1].day # today
  BY DEF CrossedMidnight, Goto
<1>2. UNCHANGED <<today, reports, taken, outputQueue, row, files>>
  BY DEF CrossedMidnight
<1>3. copied \in Nat /\ copied <= today
  BY DEF Dates, CsvInv, CsvTyped
<1>4. \/ pc = "detect" /\ pc' = "pop"
      \/ pc = "midnight" /\ pc' = "reopen"
      \/ pc = "midnight" /\ pc' = "write"
  BY <1>1
<1>5. CsvTyped' /\ NothingFromTomorrow' /\ files # <<>>
  BY <1>1, <1>2, <1>3, <1>4 DEF CsvInv, CsvTyped, NothingFromTomorrow
<1>6. ~disturbed' => /\ ~disturbed /\ compared = today /\ copied = today
                     /\ from = "detect" => files[1].day = today
  <2>1. disturbed \/ {compared, copied} # {today} \/ (from = "detect" /\ files[1].day # today)
          => disturbed' = TRUE
    BY <1>1
  <2>2. {compared, copied} = {today} => compared = today /\ copied = today
    OBVIOUS
  <2>3. QED
    BY <2>1, <2>2
<1>7. UpToDate'
  <2> SUFFICES ASSUME ~disturbed'
               PROVE  /\ pc' \in {"pop", "midnight", "write"} => copied <= files[Len(files)].day
                      /\ pc' \in {"reopen", "write"} => row.day <= copied
    BY <1>1, <1>2 DEF UpToDate
  <2>1. compared = today /\ copied = today /\ today \in Nat
    BY <1>6 DEF CsvInv, CsvTyped
  <2>2. CASE pc = "detect"
    <3>1. Len(files) = 1 /\ files[1].day = today
      BY <1>1, <1>6, <2>2 DEF CsvInv, CsvTyped
    <3>2. QED
      BY <1>4, <2>1, <2>2, <3>1
  <2>3. CASE pc = "midnight"
    <3>1. row.day <= today /\ previous <= files[Len(files)].day
      BY <1>6, <2>3 DEF CsvInv, NothingFromTomorrow, UpToDate
    <3>2. pc' = "write" => previous = today
      BY <1>1, <2>1, <2>3
    <3>3. QED
      BY <1>4, <2>1, <2>3, <3>1, <3>2
  <2>4. QED
    BY <1>4, <2>2, <2>3
<1>8. FileOfTheDay'
  BY <1>2, <1>6 DEF CsvInv, FileOfTheDay
<1>9. QED
  BY <1>5, <1>7, <1>8 DEF CsvInv

\* A pop keeps CsvInv: a row is dated today or earlier.
LEMMA PopRowStep ==
  ASSUME CsvInv, UNCHANGED <<today, reports, taken>>, PopRow
  PROVE  CsvInv'
<1>1. /\ pc = "pop" /\ pc' = "midnight" /\ outputQueue # <<>>
      /\ row' = Head(outputQueue) /\ outputQueue' = Tail(outputQueue)
      /\ UNCHANGED <<today, reports, taken, previous, files, disturbed>>
  BY DEF PopRow, Goto
<1>2. /\ outputQueue \in Seq(DatedRows)
      /\ \A n \in 1..Len(outputQueue) : outputQueue[n].day <= today
  BY DEF CsvInv, CsvTyped, NothingFromTomorrow
<1>3. /\ row' = outputQueue[1] /\ row' \in DatedRows /\ row'.day <= today
      /\ outputQueue' \in Seq(DatedRows)
      /\ \A n \in 1..Len(outputQueue') : outputQueue'[n].day <= today
  BY <1>1, <1>2
<1>4. QED
  BY <1>1, <1>3 DEF CsvInv, CsvTyped, NothingFromTomorrow, UpToDate, FileOfTheDay

\* A write keeps CsvInv.
LEMMA WriteRowStep ==
  ASSUME CsvInv, UNCHANGED <<today, reports, taken>>, WriteRow
  PROVE  CsvInv'
<1> DEFINE last == Len(files)  file == [files[last] EXCEPT !.rows = Append(@, row)]
<1>1. /\ pc = "write" /\ pc' = "pop"
      /\ files' = [files EXCEPT ![last].rows = Append(@, row)]
      /\ UNCHANGED <<today, reports, taken, outputQueue, previous, disturbed>>
  BY DEF WriteRow, Goto
<1>2. row \in DatedRows /\ files \in Seq(CsvFiles) /\ files # <<>>
  BY <1>1 DEF CsvInv, CsvTyped
<1>3. last \in 1..Len(files) /\ files[last] \in CsvFiles
  BY <1>2
<1>4. /\ file \in CsvFiles /\ file.day = files[last].day
      /\ file.rows = Append(files[last].rows, row)
      /\ files[last].rows \in Seq(DatedRows)
  <2>1. \A g \in CsvFiles :
          /\ [g EXCEPT !.rows = Append(@, row)].day = g.day
          /\ [g EXCEPT !.rows = Append(@, row)].rows = Append(g.rows, row)
          /\ g.rows \in Seq(DatedRows)
    BY DEF CsvFiles
  <2>2. \A g \in CsvFiles : [g EXCEPT !.rows = Append(@, row)] \in CsvFiles
    <3> SUFFICES ASSUME NEW g \in CsvFiles
                 PROVE  [g EXCEPT !.rows = Append(@, row)] \in CsvFiles
      OBVIOUS
    <3>1. Append(g.rows, row) \in Seq(DatedRows)
      BY <1>2 DEF CsvFiles
    <3>2. QED
      BY <3>1 DEF CsvFiles
  <2>3. QED
    BY <1>3, <2>1, <2>2
<1>5. files' = [files EXCEPT ![last] = file]
  BY <1>1, <1>2, <1>3
<1> HIDE DEF file
<1>6. /\ files' \in Seq(CsvFiles) /\ Len(files') = last /\ files'[last] = file
      /\ \A f \in 1..Len(files) : f # last => files'[f] = files[f]
  BY <1>2, <1>3, <1>4, <1>5
<1>7. CsvTyped' /\ NothingFromTomorrow'
  <2>1. files' # <<>>
    BY <1>3, <1>6
  <2>2. QED
    BY <1>1, <1>6, <2>1 DEF CsvInv, CsvTyped, NothingFromTomorrow
<1>8. UpToDate'
  BY <1>1, <1>4, <1>6 DEF CsvInv, UpToDate
<1>9. FileOfTheDay'
  <2> SUFFICES ASSUME ~disturbed, NEW f \in 1..Len(files), NEW n \in 1..Len(files'[f].rows)
               PROVE  files'[f].rows[n].day <= files'[f].day
    BY <1>1, <1>6 DEF FileOfTheDay
  <2>1. CASE f # last
    BY <1>6, <2>1 DEF CsvInv, FileOfTheDay
  <2>2. CASE f = last
    <3>1. files'[f].rows = Append(files[last].rows, row) /\ files'[f].day = files[last].day
      BY <1>4, <1>6, <2>2
    <3>2. row.day <= files[last].day
      <4>1. row.day <= previous /\ previous <= files[last].day
        BY <1>1 DEF CsvInv, UpToDate
      <4>2. row.day \in Nat /\ previous \in Nat /\ files[last].day \in Nat
        BY <1>2, <1>3 DEF DatedRows, CsvFiles, CsvInv, CsvTyped
      <4>3. QED
        BY <4>1, <4>2
    <3>3. \A m \in 1..Len(files[last].rows) : files[last].rows[m].day <= files[last].day
      BY <1>3 DEF CsvInv, FileOfTheDay
    <3>4. Append(files[last].rows, row)[n].day <= files[last].day
      BY <1>4, <3>1, <3>2, <3>3
    <3>5. QED
      BY <3>1, <3>4
  <2>3. QED
    BY <2>1, <2>2
<1>10. QED
  BY <1>7, <1>8, <1>9 DEF CsvInv

-----------------------------------------------------------------------------
\* Every step keeps CsvInv.
LEMMA CsvKeeps == CsvInv /\ [Next]_vars => CsvInv'
<1> SUFFICES ASSUME CsvInv, [Next]_vars PROVE CsvInv'
  OBVIOUS
<1>1. CASE CsvStep
  <2>1. UNCHANGED <<today, reports, taken>>
    BY <1>1 DEF CsvStep
  <2>2. CASE OpenFile("open", "detect")
    BY <2>1, <2>2, OpenFileStep
  <2>3. CASE CrossedMidnight("detect", "pop", "pop")
    BY <2>1, <2>3, CrossedMidnightStep
  <2>4. CASE PopRow
    BY <2>1, <2>4, PopRowStep
  <2>5. CASE CrossedMidnight("midnight", "reopen", "write")
    BY <2>1, <2>5, CrossedMidnightStep
  <2>6. CASE OpenFile("reopen", "write")
    BY <2>1, <2>6, OpenFileStep
  <2>7. CASE WriteRow
    BY <2>1, <2>7, WriteRowStep
  <2>8. QED
    BY <1>1, <2>2, <2>3, <2>4, <2>5, <2>6, <2>7 DEF CsvStep
<1>2. ASSUME \/ PushObject \/ SendObject \/ UNCHANGED vars
      PROVE  CsvInv'
  <2>1. UNCHANGED <<today, reports, outputQueue, pc, row, previous, files, disturbed>>
    BY <1>2 DEF PushObject, TakeReport, SendObject, vars, csvVars
  <2>2. taken' \in [DOMAIN Takers -> Nat]
    BY <1>2 DEF PushObject, TakeReport, SendObject, vars, CsvInv, CsvTyped
  <2>3. QED
    BY <2>1, <2>2 DEF CsvInv, CsvTyped, NothingFromTomorrow, UpToDate, FileOfTheDay
<1>3. QED
  BY <1>1, <1>2, PublishStep, NewDayStep, PublishRowStep DEF Next

\* Unless localtime's buffer was overwritten, or midnight came between the
\* opening of the first file and the first look at the day, no row is ever in
\* a file that is named after a day before its own.
THEOREM FilesAreOfTheDay == Init /\ [][Next]_vars => []FileOfTheDay
<1>1. CsvInv => FileOfTheDay
  BY DEF CsvInv
<1>2. QED
  BY InitCsv, CsvKeeps, <1>1, PTL

-----------------------------------------------------------------------------
(***************************************************************************)
(* Rows are on their way through pages, those of the files, of the hand    *)
(* and of the queue.  What EachRowOnce says of any pages P:                *)
(***************************************************************************)
PlacesIn(P) == UNION {{p} \X (1..Len(P[p])) : p \in 1..Len(P)}
At(P, x) == P[x[1]][x[2]]
NumbersOf(P, k) == {At(P, x).number : x \in {y \in PlacesIn(P) : At(P, y).kind = k}}

InOrderIn(P) ==
  \A x, y \in PlacesIn(P) :
    At(P, x).kind = At(P, y).kind /\ Before(x, y) => At(P, x).number < At(P, y).number

EachOnceIn(P, tk) ==
  /\ \A t \in CsvTakers : NumbersOf(P, Takers[t]) = 1..tk[t]
  /\ InOrderIn(P)

\* EachRowOnce, with the pages as a parameter.
LEMMA OnPages == EachRowOnce <=> EachOnceIn(Pages, taken)
BY DEF EachRowOnce, EachOnceIn, NumbersOf, InOrderIn, PlacesIn, At, Places, RowAt

\* A place is a page and a position on it.
LEMMA PlaceIs ==
  ASSUME NEW P
  PROVE  /\ \A p \in 1..Len(P) : \A n \in 1..Len(P[p]) : <<p, n>> \in PlacesIn(P)
         /\ \A x \in PlacesIn(P) : /\ x = <<x[1], x[2]>>
                                   /\ x[1] \in 1..Len(P) /\ x[2] \in 1..Len(P[x[1]])
BY DEF PlacesIn

\* Rows that only move on, each before those that were before it, stay as they are.
LEMMA RowsMove ==
  ASSUME NEW P, NEW Q, NEW tk, EachOnceIn(P, tk), NEW from,
         \A x \in PlacesIn(Q) : from[x] \in PlacesIn(P) /\ At(Q, x) = At(P, from[x]),
         \A x, y \in PlacesIn(Q) : Before(x, y) => Before(from[x], from[y]),
         \A z \in PlacesIn(P) : \E x \in PlacesIn(Q) : from[x] = z
  PROVE  EachOnceIn(Q, tk)
<1>1. InOrderIn(Q)
  BY DEF EachOnceIn, InOrderIn
<1>2. ASSUME NEW k PROVE NumbersOf(Q, k) = NumbersOf(P, k)
  <2>1. ASSUME NEW m \in NumbersOf(Q, k) PROVE m \in NumbersOf(P, k)
    <3>1. PICK x \in PlacesIn(Q) : At(Q, x).kind = k /\ m = At(Q, x).number
      BY DEF NumbersOf
    <3>2. from[x] \in PlacesIn(P) /\ At(P, from[x]).kind = k /\ m = At(P, from[x]).number
      BY <3>1
    <3> QED BY <3>2 DEF NumbersOf
  <2>2. ASSUME NEW m \in NumbersOf(P, k) PROVE m \in NumbersOf(Q, k)
    <3>1. PICK z \in PlacesIn(P) : At(P, z).kind = k /\ m = At(P, z).number
      BY DEF NumbersOf
    <3>2. PICK x \in PlacesIn(Q) : from[x] = z
      OBVIOUS
    <3>3. At(Q, x).kind = k /\ m = At(Q, x).number
      BY <3>1, <3>2
    <3> QED BY <3>3 DEF NumbersOf
  <2> QED BY <2>1, <2>2
<1> QED BY <1>1, <1>2 DEF EachOnceIn

\* The pages are the files, the row in hand and the queue.
LEMMA PagesAre ==
  ASSUME NEW F, NEW n \in Nat, Len(F) = n, NEW hand, NEW queue
  PROVE  LET P == [f \in 1..Len(F) |-> F[f].rows] \o <<hand, queue>>
         IN /\ Len(P) = n + 2 /\ \A f \in 1..n : P[f] = F[f].rows
            /\ P[n + 1] = hand /\ P[n + 2] = queue
<1> DEFINE G == [f \in 1..Len(F) |-> F[f].rows]
           U == {G[f] : f \in 1..n} \cup {hand, queue}
<1>1. G \in Seq(U) /\ Len(G) = n /\ \A f \in 1..n : G[f] = F[f].rows
  <2>1. G \in [1..n -> U]
    OBVIOUS
  <2>2. \A f \in 1..n : G[f] = F[f].rows
    OBVIOUS
  <2> HIDE DEF G, U
  <2>3. G \in Seq(U) /\ Len(G) = n
    BY <2>1
  <2> QED BY <2>2, <2>3
<1>2. <<hand, queue>> \in Seq(U)
  <2>1. hand \in U /\ queue \in U
    OBVIOUS
  <2> HIDE DEF U
  <2> QED BY <2>1
<1> HIDE DEF G, U
<1> DEFINE P == G \o <<hand, queue>>
<1>3. Len(P) = n + 2 /\ \A f \in 1..n : P[f] = G[f]
  BY <1>1, <1>2
<1>4. P[n + 1] = hand /\ P[n + 2] = queue
  BY <1>1, <1>2
<1> QED BY <1>1, <1>3, <1>4 DEF G

-----------------------------------------------------------------------------
(* The object made of a weather report *)

\* The elements of a weather report are nine different kinds.
LEMMA KindsDiffer ==
  /\ Len(WeatherKinds) = 9
  /\ \A p, q \in 1..9 : WeatherKinds[p] = WeatherKinds[q] => p = q
  /\ \A p \in 1..9 : WeatherKinds[p] \in Kinds
  /\ \A k : k \in Told <=> \E p \in 1..9 : k = WeatherKinds[p]
<1>1. Len(WeatherKinds) = 9
  BY DEF WeatherKinds
<1>2. \A p, q \in 1..9 : WeatherKinds[p] = WeatherKinds[q] => p = q
  BY DEF WeatherKinds
<1>3. \A p \in 1..9 : WeatherKinds[p] \in Kinds
  BY <1>1, OutputAssumption
<1>4. ASSUME NEW k \in Told PROVE \E p \in 1..9 : k = WeatherKinds[p]
  <2>1. /\ WeatherKinds[1] = "Index" /\ WeatherKinds[2] = "Duration" /\ WeatherKinds[3] = "Humidity"
        /\ WeatherKinds[4] = "Pressure" /\ WeatherKinds[5] = "Temperature"
        /\ WeatherKinds[6] = "Wind_Direction" /\ WeatherKinds[7] = "Wind_Speed"
        /\ WeatherKinds[8] = "Rain_Fall" /\ WeatherKinds[9] = "Altitude"
    BY DEF WeatherKinds
  <2> QED BY <2>1 DEF Told
<1>5. \A p \in 1..9 : WeatherKinds[p] \in Told
  BY DEF WeatherKinds, Told
<1> QED BY <1>1, <1>2, <1>3, <1>4, <1>5

\* after[p] is the object in which the first p elements have been set.
Setting(after, n, last) ==
  after = [p \in 0..last |->
            IF p = 0 THEN NewObject ELSE WithElement(after[p - 1], WeatherKinds[p], n)]

\* The recursion of WeatherObject has a solution.
LEMMA SettingExists ==
  ASSUME NEW n
  PROVE  \A last \in Nat : \E after : Setting(after, n, last)
<1> DEFINE N == {last \in Nat : \E after : Setting(after, n, last)}
<1>1. 0 \in N
  <2> DEFINE after == [p \in 0..0 |-> NewObject]
  <2>1. Setting(after, n, 0)
    BY DEF Setting
  <2> HIDE DEF after
  <2> QED BY <2>1
<1>2. ASSUME NEW last \in Nat, last \in N PROVE last + 1 \in N
  <2>1. PICK lo : Setting(lo, n, last)
    BY <1>2
  <2> DEFINE hi == [p \in 0..(last + 1) |->
                     IF p <= last THEN lo[p] ELSE WithElement(lo[last], WeatherKinds[p], n)]
  <2>2. \A p \in 0..last : lo[p] =
          IF p = 0 THEN NewObject ELSE WithElement(lo[p - 1], WeatherKinds[p], n)
    BY <2>1 DEF Setting
  <2>3. \A p \in 0..(last + 1) : hi[p] =
          IF p = 0 THEN NewObject ELSE WithElement(hi[p - 1], WeatherKinds[p], n)
    <3> SUFFICES ASSUME NEW p \in 0..(last + 1)
                 PROVE  hi[p] = IF p = 0 THEN NewObject
                                ELSE WithElement(hi[p - 1], WeatherKinds[p], n)
      OBVIOUS
    <3>1. p # 0 => hi[p - 1] = lo[p - 1]
      OBVIOUS
    <3>2. CASE p <= last
      <4>1. p \in 0..last /\ hi[p] = lo[p]
        BY <3>2
      <4> QED BY <2>2, <3>1, <4>1
    <3>3. CASE p = last + 1
      <4>1. hi[p] = WithElement(lo[last], WeatherKinds[p], n) /\ p - 1 = last /\ p # 0
        BY <3>3
      <4> QED BY <3>1, <4>1
    <3> QED BY <3>2, <3>3
  <2>4. hi = [p \in 0..(last + 1) |-> hi[p]]
    OBVIOUS
  <2> HIDE DEF hi
  <2>5. Setting(hi, n, last + 1)
    BY <2>3, <2>4 DEF Setting
  <2> QED BY <2>5
<1>3. Nat \subseteq N
  <2> HIDE DEF N
  <2> QED BY <1>1, <1>2, NatSetInduction
<1> QED BY <1>3

\* The first p elements of the report are in the object and no others.
Filled(o, n, p) ==
  /\ Consistent(o) /\ o.nextFreeElement = p
  /\ \A q \in 1..p : o.elementArray[q] = Element(WeatherKinds[q], n)
  /\ \A k \in Kinds : o.elementTable[k] # -1 => \E q \in 1..p : k = WeatherKinds[q]

\* Setting a kind fills the next place and keeps those before it.
LEMMA FillOne ==
  ASSUME NEW o, NEW n \in Values, NEW p \in 0..8, Filled(o, n, p)
  PROVE  Filled(WithElement(o, WeatherKinds[p + 1], n), n, p + 1)
<1> DEFINE k == WeatherKinds[p + 1]
           w == WithElement(o, k, n)
           m == Numbered(o, k)
<1>1. k \in Kinds /\ o \in Objects /\ p + 1 \in 1..9
  BY KindsDiffer DEF Filled, Consistent
<1>2. o.elementTable[k] = -1
  <2>1. \A q \in 1..p : q \in 1..9 /\ q # p + 1
    OBVIOUS
  <2> QED BY <1>1, <2>1, KindsDiffer DEF Filled
<1>3. /\ o.nextFreeElement = p /\ o.elementTable \in [Kinds -> Nat \cup {-1}]
      /\ o.elementArray \in [1..ElementCount -> Elements]
  BY <1>1 DEF Filled, Objects
<1>4. m.nextFreeElement = p + 1 /\ m.elementTable = [o.elementTable EXCEPT ![k] = p]
  BY <1>1, <1>2, <1>3, NumberedResult
<1>5. m.elementTable[k] = p /\ p < ElementCount
  <2>1. 9 <= ElementCount /\ ElementCount \in Nat
    BY OutputAssumption, ConstantsAssumption, KindsDiffer
  <2> QED BY <1>1, <1>3, <1>4, <2>1
<1>6. /\ w.elementTable = m.elementTable /\ w.nextFreeElement = m.nextFreeElement
      /\ w.elementArray = [o.elementArray EXCEPT ![p + 1] = Element(k, n)]
  BY <1>1, <1>5, WithElementResult
<1>7. Consistent(w)
  BY <1>1, WithElementConsistent DEF Filled
<1> HIDE DEF w, m
<1>8. ASSUME NEW q \in 1..(p + 1) PROVE w.elementArray[q] = Element(WeatherKinds[q], n)
  <2>1. q \in 1..ElementCount
    BY <1>5, ConstantsAssumption
  <2>2. q # p + 1 => q \in 1..p
    OBVIOUS
  <2> QED BY <1>3, <1>6, <2>1, <2>2 DEF Filled
<1>9. ASSUME NEW j \in Kinds, w.elementTable[j] # -1 PROVE \E q \in 1..(p + 1) : j = WeatherKinds[q]
  <2>1. CASE j = k
    BY <2>1
  <2>2. CASE j # k
    <3>1. o.elementTable[j] # -1
      BY <1>3, <1>4, <1>6, <1>9, <2>2
    <3>2. \A q \in 1..p : q \in 1..(p + 1)
      OBVIOUS
    <3> QED BY <3>1, <3>2 DEF Filled
  <2> QED BY <2>1, <2>2
<1> QED BY <1>4, <1>6, <1>7, <1>8, <1>9 DEF Filled, w

\* WeatherObject is what its last setElement leaves.
LEMMA WeatherObjectIs ==
  ASSUME NEW n \in 1..MaxReports["weather"]
  PROVE  Filled(WeatherObject[n], n, 9)
<1> DEFINE After == CHOOSE after : Setting(after, n, 9)
<1>1. WeatherObject[n] = After[9]
  BY KindsDiffer DEF WeatherObject, Setting
<1>2. \A p \in 0..9 : After[p] =
        IF p = 0 THEN NewObject ELSE WithElement(After[p - 1], WeatherKinds[p], n)
  <2>1. Setting(After, n, 9)
    BY SettingExists, 9 \in Nat
  <2> HIDE DEF After
  <2> QED BY <2>1 DEF Setting
<1>3. n \in Values
  BY OutputAssumption
<1> HIDE DEF After
<1> DEFINE N == {p \in Nat : p <= 9 => Filled(After[p], n, p)}
<1>4. 0 \in N
  <2>1. After[0] = NewObject
    BY <1>2
  <2>2. Consistent(NewObject) /\ NewObject.nextFreeElement = 0
        /\ \A k \in Kinds : NewObject.elementTable[k] = -1
    BY NewConsistent DEF NewObject, Unnumbered
  <2> QED BY <2>1, <2>2 DEF Filled
<1>5. ASSUME NEW p \in Nat, p \in N PROVE p + 1 \in N
  <2> SUFFICES ASSUME p + 1 <= 9 PROVE Filled(After[p + 1], n, p + 1)
    OBVIOUS
  <2>1. p \in 0..8 /\ p + 1 \in 0..9 /\ p + 1 # 0 /\ (p + 1) - 1 = p
    OBVIOUS
  <2>2. Filled(After[p], n, p)
    BY <1>5, <2>1
  <2>3. After[p + 1] = WithElement(After[p], WeatherKinds[p + 1], n)
    BY <1>2, <2>1
  <2> QED BY <1>3, <2>1, <2>2, <2>3, FillOne
<1>6. 9 \in N
  <2> HIDE DEF N
  <2> QED BY <1>4, <1>5, NatSetInduction, 9 \in Nat
<1> QED BY <1>1, <1>6

\* A weather object holds the payload of its report for each kind it is told
\* of.
LEMMA WeatherObjectData ==
  ASSUME NEW n \in 1..MaxReports["weather"], NEW k \in Kinds
  PROVE  /\ Consistent(WeatherObject[n]) /\ WeatherObject[n] \in Objects
         /\ GetElement(WeatherObject[n], k).data = IF k \in Told THEN n ELSE Missing
<1> DEFINE o == WeatherObject[n]
<1>1. Filled(o, n, 9)
  BY WeatherObjectIs
<1> HIDE DEF o
<1>2. Consistent(o) /\ o \in Objects /\ o.elementTable \in [Kinds -> Nat \cup {-1}]
      /\ o.elementArray \in [1..ElementCount -> Elements]
  BY <1>1 DEF Filled, Consistent, Objects
<1>3. 9 <= ElementCount /\ ElementCount \in Nat
  BY OutputAssumption, ConstantsAssumption, KindsDiffer
<1>4. CASE k \in Told
  <2>1. PICK q \in 1..9 : k = WeatherKinds[q]
    BY <1>4, KindsDiffer
  <2>2. o.elementArray[q] = Element(k, n)
    BY <1>1, <2>1 DEF Filled
  <2>3. o.elementTable[k] = q - 1
    BY <1>1, <1>3, <2>2 DEF Filled, Consistent, Placed, Slots, Element
  <2>4. InArray(o.elementTable[k]) /\ o.elementTable[k] + 1 = q
    BY <1>3, <2>3 DEF InArray
  <2> QED BY <1>2, <1>4, <2>2, <2>4 DEF GetElement, Element, o
<1>5. CASE k \notin Told
  <2>1. o.elementTable[k] = -1
    BY <1>1, <1>5, KindsDiffer DEF Filled
  <2>2. ~InArray(o.elementTable[k])
    BY <2>1 DEF InArray
  <2> QED BY <1>2, <1>5, <2>2 DEF GetElement, NewElement, o
<1> QED BY <1>4, <1>5

-----------------------------------------------------------------------------
(* The object a listener makes of a datagram *)

\* after[p] is the object in which the first p elements have been loaded.
Reading(after, bytes, last) ==
  after = [p \in 0..last |->
            IF p = 0 THEN Unnumbered(bytes) ELSE LoadedElement(after[p - 1], p)]

\* The recursion of FromBytes has a solution.
LEMMA ReadingExists ==
  ASSUME NEW bytes
  PROVE  \A last \in Nat : \E after : Reading(after, bytes, last)
<1> DEFINE N == {last \in Nat : \E after : Reading(after, bytes, last)}
<1>1. 0 \in N
  <2> DEFINE after == [p \in 0..0 |-> Unnumbered(bytes)]
  <2>1. Reading(after, bytes, 0)
    BY DEF Reading
  <2> HIDE DEF after
  <2> QED BY <2>1
<1>2. ASSUME NEW last \in Nat, last \in N PROVE last + 1 \in N
  <2>1. PICK lo : Reading(lo, bytes, last)
    BY <1>2
  <2> DEFINE hi == [p \in 0..(last + 1) |->
                     IF p <= last THEN lo[p] ELSE LoadedElement(lo[last], p)]
  <2>2. \A p \in 0..last : lo[p] =
          IF p = 0 THEN Unnumbered(bytes) ELSE LoadedElement(lo[p - 1], p)
    BY <2>1 DEF Reading
  <2>3. \A p \in 0..(last + 1) : hi[p] =
          IF p = 0 THEN Unnumbered(bytes) ELSE LoadedElement(hi[p - 1], p)
    <3> SUFFICES ASSUME NEW p \in 0..(last + 1)
                 PROVE  hi[p] = IF p = 0 THEN Unnumbered(bytes)
                                ELSE LoadedElement(hi[p - 1], p)
      OBVIOUS
    <3>1. p # 0 => hi[p - 1] = lo[p - 1]
      OBVIOUS
    <3>2. CASE p <= last
      <4>1. p \in 0..last /\ hi[p] = lo[p]
        BY <3>2
      <4> QED BY <2>2, <3>1, <4>1
    <3>3. CASE p = last + 1
      <4>1. hi[p] = LoadedElement(lo[last], p) /\ p - 1 = last /\ p # 0
        BY <3>3
      <4> QED BY <3>1, <4>1
    <3> QED BY <3>2, <3>3
  <2>4. hi = [p \in 0..(last + 1) |-> hi[p]]
    OBVIOUS
  <2> HIDE DEF hi
  <2>5. Reading(hi, bytes, last + 1)
    BY <2>3, <2>4 DEF Reading
  <2> QED BY <2>5
<1>3. Nat \subseteq N
  <2> HIDE DEF N
  <2> QED BY <1>1, <1>2, NatSetInduction
<1> QED BY <1>3

\* It has for each kind what the sender's object has.
LEMMA FromBytesResult ==
  ASSUME NEW o, Consistent(o), NEW k \in Kinds
  PROVE  GetElement(FromBytes(Bytes(o)), k) = GetElement(o, k)
<1> DEFINE After == CHOOSE after : Reading(after, Bytes(o), ElementCount)
<1>1. FromBytes(Bytes(o)) = After[ElementCount]
  BY DEF FromBytes, Reading
<1>2. \A p \in 0..ElementCount : After[p] =
        IF p = 0 THEN Unnumbered(Bytes(o)) ELSE LoadedElement(After[p - 1], p)
  <2>1. Reading(After, Bytes(o), ElementCount)
    BY ReadingExists, ConstantsAssumption
  <2> HIDE DEF After
  <2> QED BY <2>1 DEF Reading
<1>3. o \in Objects /\ ElementCount \in Nat
  BY ConstantsAssumption DEF Consistent
<1> HIDE DEF After
<1> DEFINE N == {p \in Nat : p <= ElementCount => After[p] \in Objects /\ LoadedTo(p, After[p], o)}
<1>4. 0 \in N
  <2>1. After[0] = Unnumbered(Bytes(o))
    BY <1>2, <1>3
  <2> QED BY <1>3, <2>1, LoadNone
<1>5. ASSUME NEW p \in Nat, p \in N PROVE p + 1 \in N
  <2> SUFFICES ASSUME p + 1 <= ElementCount
               PROVE  After[p + 1] \in Objects /\ LoadedTo(p + 1, After[p + 1], o)
    OBVIOUS
  <2>1. p < ElementCount /\ p + 1 \in 0..ElementCount /\ p + 1 # 0 /\ (p + 1) - 1 = p
    BY <1>3
  <2>2. After[p] \in Objects /\ LoadedTo(p, After[p], o)
    BY <1>3, <1>5, <2>1
  <2>3. After[p + 1] = LoadedElement(After[p], p + 1)
    BY <1>2, <2>1
  <2> QED BY <2>1, <2>2, <2>3, LoadOne
<1>6. ElementCount \in N
  <2> HIDE DEF N
  <2> QED BY <1>3, <1>4, <1>5, NatSetInduction
<1>7. After[ElementCount] \in Objects /\ LoadedTo(ElementCount, After[ElementCount], o)
  BY <1>3, <1>6
<1> QED BY <1>1, <1>3, <1>7, LoadedAll

-----------------------------------------------------------------------------
(***************************************************************************)
(* The types.  That a file is open when one is needed is in CsvInv; that   *)
(* there is an object for each report that is taken needs the bound on     *)
(* the reports.                                                            *)
(***************************************************************************)
Bounded == \A k \in ReportKinds : Len(reports[k]) <= MaxReports[k]

TypeInv == TypeOK /\ Bounded

\* Each taker takes reports of one kind.
LEMMA TakerKinds == \A t \in DOMAIN Takers : Takers[t] \in ReportKinds
BY DEF Takers, ReportKinds

\* The initial state is well formed.
LEMMA InitTypes == Init => TypeInv
<1> SUFFICES ASSUME Init PROVE TypeInv
  OBVIOUS
<1>1. 0 \in Days /\ \A k \in ReportKinds : MaxReports[k] \in Nat
  BY OutputAssumption DEF Days
<1>2. \A k \in ReportKinds : reports[k] = <<>> /\ Len(reports[k]) = 0
  BY DEF Init
<1>3. /\ reports \in [ReportKinds -> Seq(Days)] /\ taken \in [DOMAIN Takers -> Nat]
      /\ outputQueue \in Seq(Rows) /\ files \in Seq([day : Days, rows : Seq(Rows)])
      /\ houseQueue \in Seq(Objects) /\ datagrams \in Seq([1..ElementCount -> Elements])
  BY DEF Init
<1>4. \A t \in DOMAIN Takers : taken[t] <= Len(reports[Takers[t]])
  <2>1. \A t \in DOMAIN Takers : taken[t] = 0
    BY DEF Init
  <2> QED BY <1>2, <2>1, TakerKinds
<1>5. Bounded
  BY <1>1, <1>2 DEF Bounded
<1> QED BY <1>1, <1>3, <1>4, <1>5 DEF Init, TypeInv, TypeOK

\* The steps by which reports come and go.
LEMMA PublishTypes ==
  ASSUME TypeInv, NEW k \in ReportKinds, Publish(k)
  PROVE  TypeInv'
<1> DEFINE more == Append(reports[k], today)
<1>1. /\ Len(reports[k]) < MaxReports[k]
      /\ reports' = [reports EXCEPT ![k] = more]
      /\ UNCHANGED <<today, taken, outputQueue, pc, row, previous, files, houseQueue, datagrams,
                     disturbed>>
  BY DEF Publish, csvVars, houseVars
<1>2. reports \in [ReportKinds -> Seq(Days)] /\ today \in Days
  BY DEF TypeInv, TypeOK
<1>3. more \in Seq(Days) /\ Len(more) = Len(reports[k]) + 1
  BY <1>2
<1> HIDE DEF more
<1>4. reports' \in [ReportKinds -> Seq(Days)]
  BY <1>1, <1>2, <1>3
<1>5. \A j \in ReportKinds : reports'[j] = IF j = k THEN more ELSE reports[j]
  BY <1>1, <1>2
<1>6. Bounded'
  <2>1. MaxReports[k] \in Nat /\ Len(reports[k]) \in Nat
    BY <1>2, OutputAssumption
  <2>2. Len(more) <= MaxReports[k]
    BY <1>1, <1>3, <2>1
  <2> QED BY <1>5, <2>2 DEF TypeInv, Bounded
<1>7. \A t \in DOMAIN Takers : taken[t] <= Len(reports'[Takers[t]])
  <2> SUFFICES ASSUME NEW t \in DOMAIN Takers PROVE taken[t] <= Len(reports'[Takers[t]])
    OBVIOUS
  <2>1. taken[t] \in Nat /\ taken[t] <= Len(reports[Takers[t]]) /\ Takers[t] \in ReportKinds
    BY TakerKinds DEF TypeInv, TypeOK
  <2>2. Len(reports[k]) \in Nat
    BY <1>2
  <2> QED BY <1>3, <1>5, <2>1, <2>2
<1> QED BY <1>1, <1>4, <1>6, <1>7 DEF TypeInv, TypeOK

\* Midnight keeps the types.
LEMMA NewDayTypes ==
  ASSUME TypeInv, NewDay
  PROVE  TypeInv'
<1>1. today' \in Days
  BY OutputAssumption DEF NewDay, TypeInv, TypeOK, Days
<1>2. UNCHANGED <<reports, taken, outputQueue, pc, row, previous, files, houseQueue, datagrams,
                  disturbed>>
  BY DEF NewDay, csvVars, houseVars
<1> QED BY <1>1, <1>2 DEF TypeInv, TypeOK, Bounded

\* A report that is taken was published.
LEMMA TakeReportTypes ==
  ASSUME TypeInv, NEW t \in DOMAIN Takers, TakeReport(t)
  PROVE  /\ taken' \in [DOMAIN Takers -> Nat]
         /\ taken'[t] = taken[t] + 1 /\ taken'[t] \in 1..Len(reports[Takers[t]])
         /\ \A s \in DOMAIN Takers : taken'[s] <= Len(reports[Takers[s]])
         /\ UNCHANGED <<today, reports, pc, row, previous, files, disturbed>>
<1>1. /\ taken[t] < Len(reports[Takers[t]])
      /\ taken' = [taken EXCEPT ![t] = @ + 1]
      /\ UNCHANGED <<today, reports, pc, row, previous, files, disturbed>>
  BY DEF TakeReport, csvVars
<1>2. taken \in [DOMAIN Takers -> Nat] /\ reports[Takers[t]] \in Seq(Days)
  BY TakerKinds DEF TypeInv, TypeOK
<1>3. Len(reports[Takers[t]]) \in Nat /\ taken[t] \in Nat
  BY <1>2
<1>4. \A s \in DOMAIN Takers : taken'[s] = IF s = t THEN taken[t] + 1 ELSE taken[s]
  BY <1>1, <1>2
<1>5. taken' \in [DOMAIN Takers -> Nat]
  BY <1>1, <1>2, <1>3
<1>6. taken[t] + 1 \in 1..Len(reports[Takers[t]])
  BY <1>1, <1>3
<1>7. ASSUME NEW s \in DOMAIN Takers PROVE taken'[s] <= Len(reports[Takers[s]])
  <2>1. CASE s = t
    BY <1>4, <1>6, <2>1
  <2>2. CASE s # t
    BY <1>4, <2>2 DEF TypeInv, TypeOK
  <2> QED BY <2>1, <2>2
<1> QED BY <1>1, <1>4, <1>5, <1>6, <1>7

\* Publishing a row keeps the types.
LEMMA PublishRowTypes ==
  ASSUME TypeInv, NEW t \in CsvTakers, PublishRow(t)
  PROVE  TypeInv'
<1> DEFINE k == Takers[t]  n == taken'[t]
           r == [kind |-> k, number |-> n, day |-> reports[k][n]]
<1>1. t \in DOMAIN Takers /\ k \in ReportKinds
  BY TakerKinds DEF CsvTakers, Takers
<1>2. /\ TakeReport(t)
      /\ outputQueue' = Append(outputQueue, r) /\ UNCHANGED <<houseQueue, datagrams>>
  BY DEF PublishRow, houseVars
<1>3. /\ taken' \in [DOMAIN Takers -> Nat] /\ n \in 1..Len(reports[k])
      /\ \A s \in DOMAIN Takers : taken'[s] <= Len(reports[Takers[s]])
      /\ UNCHANGED <<today, reports, pc, row, previous, files, disturbed>>
  BY <1>1, <1>2, TakeReportTypes
<1>4. reports[k] \in Seq(Days) /\ outputQueue \in Seq(Rows)
  BY <1>1 DEF TypeInv, TypeOK
<1>5. r \in Rows
  <2>1. reports[k][n] \in Days /\ n \in Nat
    BY <1>3, <1>4
  <2> QED BY <1>1, <2>1 DEF Rows
<1> HIDE DEF r
<1>6. outputQueue' \in Seq(Rows)
  BY <1>2, <1>4, <1>5
<1> QED BY <1>2, <1>3, <1>6 DEF TypeInv, TypeOK, Bounded

\* There is an object for the report.
LEMMA PushObjectTypes ==
  ASSUME TypeInv, PushObject
  PROVE  /\ TypeInv' /\ taken'["houseWeather"] = taken["houseWeather"] + 1
         /\ taken'["houseWeather"] \in 1..MaxReports["weather"]
<1> DEFINE n == taken'["houseWeather"]
           o == WeatherObject[n]
<1>1. "houseWeather" \in DOMAIN Takers /\ Takers["houseWeather"] = "weather"
      /\ "weather" \in ReportKinds
  BY DEF Takers, ReportKinds
<1>2. /\ TakeReport("houseWeather")
      /\ houseQueue' = Append(houseQueue, o) /\ UNCHANGED <<outputQueue, datagrams>>
  BY DEF PushObject
<1>3. /\ taken' \in [DOMAIN Takers -> Nat]
      /\ n = taken["houseWeather"] + 1 /\ n \in 1..Len(reports["weather"])
      /\ \A s \in DOMAIN Takers : taken'[s] <= Len(reports[Takers[s]])
      /\ UNCHANGED <<today, reports, pc, row, previous, files, disturbed>>
  BY <1>1, <1>2, TakeReportTypes
<1>4. n \in 1..MaxReports["weather"]
  <2>1. /\ Len(reports["weather"]) \in Nat /\ MaxReports["weather"] \in Nat
        /\ Len(reports["weather"]) <= MaxReports["weather"]
    BY <1>1, OutputAssumption DEF TypeInv, TypeOK, Bounded
  <2> QED BY <1>3, <2>1
<1>5. o \in Objects
  <2>1. Filled(o, n, 9)
    BY <1>4, WeatherObjectIs
  <2> QED BY <2>1 DEF Filled, Consistent
<1> HIDE DEF n, o
<1>6. houseQueue' \in Seq(Objects)
  BY <1>2, <1>5 DEF TypeInv, TypeOK
<1>7. TypeInv'
  BY <1>2, <1>3, <1>6 DEF TypeInv, TypeOK, Bounded, n
<1> QED BY <1>3, <1>4, <1>7 DEF n

\* Sending a datagram keeps the types.
LEMMA SendObjectTypes ==
  ASSUME TypeInv, SendObject
  PROVE  TypeInv'
<1>1. /\ houseQueue # <<>> /\ houseQueue' = Tail(houseQueue)
      /\ datagrams' = Append(datagrams, Bytes(Head(houseQueue)))
      /\ UNCHANGED <<today, reports, taken, outputQueue, pc, row, previous, files, disturbed>>
  BY DEF SendObject, csvVars
<1>2. houseQueue \in Seq(Objects) /\ datagrams \in Seq([1..ElementCount -> Elements])
  BY DEF TypeInv, TypeOK
<1>3. Head(houseQueue) \in Objects /\ houseQueue' \in Seq(Objects)
  BY <1>1, <1>2
<1>4. Bytes(Head(houseQueue)) \in [1..ElementCount -> Elements]
  BY <1>3 DEF Bytes, Objects
<1>5. datagrams' \in Seq([1..ElementCount -> Elements])
  BY <1>1, <1>2, <1>4
<1> QED BY <1>1, <1>3, <1>5 DEF TypeInv, TypeOK, Bounded

\* The steps of csvThread.
LEMMA OpenFileTypes ==
  ASSUME TypeInv, CsvInv, UNCHANGED <<today, reports, taken, houseVars>>, NEW from, NEW to,
         <<from, to>> \in {<<"open", "detect">>, <<"reopen", "write">>}, OpenFile(from, to)
  PROVE  TypeInv'
<1>1. /\ pc = from /\ pc' \in {to, "done"}
      /\ UNCHANGED <<today, reports, taken, outputQueue, row, previous, houseQueue, datagrams>>
      /\ <<from, to>> = <<"open", "detect">> \/ <<from, to>> = <<"reopen", "write">>
  BY DEF OpenFile, Goto, houseVars
<1> DEFINE Files == [day : Days, rows : Seq(Rows)]
<1>2. files \in Seq(Files)
  BY DEF TypeInv, TypeOK
<1>3. /\ files' \in Seq(Files) /\ disturbed' \in BOOLEAN
      /\ pc' = to => files' # <<>>
  <2>1. CASE UNCHANGED <<files, disturbed>> /\ pc' = "done"
    BY <1>1, <1>2, <2>1 DEF TypeInv, TypeOK
  <2>2. ASSUME NEW named \in Dates, files' = Append(files, NewFile(named)),
               disturbed' = (disturbed \/ named # today)
        PROVE  files' \in Seq(Files) /\ disturbed' \in BOOLEAN /\ files' # <<>>
    <3>1. named \in Days
      BY OutputAssumption DEF TypeInv, TypeOK, Dates, Days
    <3>2. NewFile(named) \in Files
      BY <3>1 DEF NewFile
    <3>3. disturbed' \in BOOLEAN
      BY <2>2 DEF TypeInv, TypeOK
    <3> HIDE DEF Files
    <3>4. files' \in Seq(Files) /\ files' # <<>>
      BY <1>2, <2>2, <3>2
    <3> QED BY <3>3, <3>4
  <2> QED BY <2>1, <2>2 DEF OpenFile, Goto
<1>4. pc' \in {"midnight", "reopen", "write"} => row # None /\ files' # <<>>
  BY <1>1, <1>3 DEF TypeInv, TypeOK
<1>5. pc' \in {"open", "detect", "pop", "midnight", "reopen", "write", "done"}
  BY <1>1
<1> QED BY <1>1, <1>3, <1>4, <1>5 DEF TypeInv, TypeOK, Bounded

\* The look at the day keeps the types.
LEMMA CrossedMidnightTypes ==
  ASSUME TypeInv, CsvInv, UNCHANGED <<today, reports, taken, houseVars>>,
         NEW from, NEW yes, NEW no,
         <<from, yes, no>> \in {<<"detect", "pop", "pop">>, <<"midnight", "reopen", "write">>},
         CrossedMidnight(from, yes, no)
  PROVE  TypeInv'
<1>1. PICK compared \in Dates, copied \in Dates :
        /\ pc = from /\ pc' \in {yes, no} /\ previous' = copied
        /\ disturbed' = \/ disturbed \/ {compared, copied} # {today}
                        \/ from = "detect" /\ files[1].day # today
  BY DEF CrossedMidnight, Goto
<1>2. UNCHANGED <<today, reports, taken, outputQueue, row, files, houseQueue, datagrams>>
  BY DEF CrossedMidnight, houseVars
<1>3. copied \in Days
  BY OutputAssumption DEF TypeInv, TypeOK, Dates, Days
<1>4. disturbed' \in BOOLEAN
  BY <1>1 DEF TypeInv, TypeOK
<1>5. \/ pc = "detect" /\ pc' = "pop"
      \/ pc = "midnight" /\ pc' \in {"reopen", "write"}
  BY <1>1
<1> QED BY <1>1, <1>2, <1>3, <1>4, <1>5 DEF TypeInv, TypeOK, Bounded

\* A pop keeps the types.
LEMMA PopRowTypes ==
  ASSUME TypeInv, CsvInv, UNCHANGED <<today, reports, taken, houseVars>>, PopRow
  PROVE  TypeInv'
<1>1. /\ pc = "pop" /\ pc' = "midnight" /\ outputQueue # <<>>
      /\ row' = Head(outputQueue) /\ outputQueue' = Tail(outputQueue)
      /\ UNCHANGED <<today, reports, taken, previous, files, disturbed, houseQueue, datagrams>>
  BY DEF PopRow, Goto, houseVars
<1>2. outputQueue \in Seq(Rows)
  BY DEF TypeInv, TypeOK
<1>3. row' \in Rows /\ outputQueue' \in Seq(Rows)
  BY <1>1, <1>2
<1>4. row' # None
  BY <1>3, OutputAssumption
<1>5. files # <<>>
  BY <1>1 DEF CsvInv, CsvTyped
<1> QED BY <1>1, <1>3, <1>4, <1>5 DEF TypeInv, TypeOK, Bounded

\* A write keeps the types.
LEMMA WriteRowTypes ==
  ASSUME TypeInv, CsvInv, UNCHANGED <<today, reports, taken, houseVars>>, WriteRow
  PROVE  TypeInv'
<1> DEFINE Files == [day : Days, rows : Seq(Rows)]
           last == Len(files)
           file == [files[last] EXCEPT !.rows = Append(@, row)]
<1>1. /\ pc = "write" /\ pc' = "pop" /\ row' = None
      /\ files' = [files EXCEPT ![last].rows = Append(@, row)]
      /\ UNCHANGED <<today, reports, taken, outputQueue, previous, disturbed, houseQueue, datagrams>>
  BY DEF WriteRow, Goto, houseVars
<1>2. row \in Rows /\ files \in Seq(Files) /\ files # <<>>
  BY <1>1 DEF TypeInv, TypeOK
<1>3. last \in 1..Len(files) /\ files[last] \in Files
  <2> HIDE DEF Files
  <2> QED BY <1>2
<1>4. file \in Files
  <2>1. Append(files[last].rows, row) \in Seq(Rows)
    BY <1>2, <1>3
  <2>2. file = [files[last] EXCEPT !.rows = Append(files[last].rows, row)]
    OBVIOUS
  <2> HIDE DEF file
  <2> QED BY <1>3, <2>1, <2>2
<1>5. files' = [files EXCEPT ![last] = file]
  BY <1>1, <1>2, <1>3
<1>6. files' \in Seq(Files)
  <2> HIDE DEF Files, file
  <2> QED BY <1>2, <1>3, <1>4, <1>5
<1> QED BY <1>1, <1>6 DEF TypeInv, TypeOK, Bounded

\* Every step keeps the types.
LEMMA TypesKept == CsvInv /\ TypeInv /\ [Next]_vars => TypeInv'
<1> SUFFICES ASSUME CsvInv, TypeInv, [Next]_vars PROVE TypeInv'
  OBVIOUS
<1>1. CASE CsvStep
  <2>1. UNCHANGED <<today, reports, taken, houseVars>>
    BY <1>1 DEF CsvStep
  <2>2. CASE OpenFile("open", "detect")
    BY <2>1, <2>2, OpenFileTypes
  <2>3. CASE CrossedMidnight("detect", "pop", "pop")
    BY <2>1, <2>3, CrossedMidnightTypes
  <2>4. CASE PopRow
    BY <2>1, <2>4, PopRowTypes
  <2>5. CASE CrossedMidnight("midnight", "reopen", "write")
    BY <2>1, <2>5, CrossedMidnightTypes
  <2>6. CASE OpenFile("reopen", "write")
    BY <2>1, <2>6, OpenFileTypes
  <2>7. CASE WriteRow
    BY <2>1, <2>7, WriteRowTypes
  <2> QED BY <1>1, <2>2, <2>3, <2>4, <2>5, <2>6, <2>7 DEF CsvStep
<1>2. CASE UNCHANGED vars
  BY <1>2 DEF vars, csvVars, houseVars, TypeInv, TypeOK, Bounded
<1> QED BY <1>1, <1>2, PublishTypes, NewDayTypes, PublishRowTypes, PushObjectTypes,
           SendObjectTypes DEF Next

\* Every variable keeps to its type: in particular csvThread has a file and a
\* row where it uses them, and no datagram is anything but an array of elements.
THEOREM OutputTypes == Init /\ [][Next]_vars => []TypeOK
<1>1. TypeInv => TypeOK
  BY DEF TypeInv
<1> QED BY InitCsv, CsvKeeps, InitTypes, TypesKept, <1>1, PTL

-----------------------------------------------------------------------------
(***************************************************************************)
(* The reports houseWeatherThread has taken are the datagrams and, after   *)
(* them, the objects that wait.                                            *)
(***************************************************************************)
EachSentOnce ==
  /\ taken["houseWeather"] <= MaxReports["weather"]
  /\ Len(datagrams) + Len(houseQueue) = taken["houseWeather"]
  /\ \A n \in 1..Len(datagrams) : datagrams[n] = Bytes(WeatherObject[n])
  /\ \A n \in 1..Len(houseQueue) : houseQueue[n] = WeatherObject[Len(datagrams) + n]

HouseInv == CsvInv /\ TypeInv /\ EachSentOnce

\* Nothing is sent at first.
LEMMA InitHouse == Init => EachSentOnce
<1> SUFFICES ASSUME Init PROVE EachSentOnce
  OBVIOUS
<1>1. taken["houseWeather"] = 0 /\ MaxReports["weather"] \in Nat
  BY OutputAssumption DEF Init, Takers, ReportKinds
<1> QED BY <1>1 DEF Init, EachSentOnce

\* A report pushed is the one after those pushed or sent.
LEMMA PushObjectInOrder ==
  ASSUME TypeInv, EachSentOnce, PushObject
  PROVE  EachSentOnce'
<1> DEFINE n == taken'["houseWeather"]
           o == WeatherObject[n]
<1>1. houseQueue' = Append(houseQueue, o) /\ UNCHANGED datagrams
  BY DEF PushObject
<1>2. n = taken["houseWeather"] + 1 /\ n \in 1..MaxReports["weather"]
  BY PushObjectTypes
<1>3. /\ Len(datagrams) \in Nat /\ Len(houseQueue) \in Nat /\ MaxReports["weather"] \in Nat
      /\ houseQueue \in Seq(Objects) /\ n \in Nat
  BY <1>2, OutputAssumption DEF TypeInv, TypeOK, ReportKinds
<1>4. Len(houseQueue') = Len(houseQueue) + 1 /\ n = Len(datagrams) + (Len(houseQueue) + 1)
  BY <1>1, <1>2, <1>3 DEF EachSentOnce
<1>5. ASSUME NEW m \in 1..Len(houseQueue') PROVE houseQueue'[m] = WeatherObject[Len(datagrams) + m]
  <2>1. CASE m = Len(houseQueue) + 1
    <3>1. houseQueue'[m] = o
      BY <1>1, <1>3, <2>1
    <3> QED BY <1>4, <2>1, <3>1
  <2>2. CASE m # Len(houseQueue) + 1
    <3>1. m \in 1..Len(houseQueue) /\ houseQueue'[m] = houseQueue[m]
      BY <1>1, <1>3, <1>4, <2>2
    <3> QED BY <3>1 DEF EachSentOnce
  <2> QED BY <2>1, <2>2
<1>6. n <= MaxReports["weather"] /\ Len(datagrams) + Len(houseQueue') = n
  BY <1>2, <1>3, <1>4
<1> QED BY <1>1, <1>5, <1>6 DEF EachSentOnce

\* A datagram sent has all elements of the oldest report pushed.
LEMMA SendObjectInOrder ==
  ASSUME TypeInv, EachSentOnce, SendObject
  PROVE  EachSentOnce'
<1>1. /\ houseQueue # <<>> /\ houseQueue' = Tail(houseQueue) /\ UNCHANGED taken
      /\ datagrams' = Append(datagrams, Bytes(Head(houseQueue)))
  BY DEF SendObject
<1>2. houseQueue \in Seq(Objects) /\ datagrams \in Seq([1..ElementCount -> Elements])
  BY DEF TypeInv, TypeOK
<1>3. /\ Len(houseQueue) \in Nat /\ Len(houseQueue) >= 1 /\ Len(datagrams) \in Nat
      /\ Len(houseQueue') = Len(houseQueue) - 1
      /\ \A m \in 1..(Len(houseQueue) - 1) : houseQueue'[m] = houseQueue[m + 1]
      /\ Head(houseQueue) = houseQueue[1]
  BY <1>1, <1>2
<1>4. /\ Len(datagrams') = Len(datagrams) + 1
      /\ \A m \in 1..Len(datagrams) : datagrams'[m] = datagrams[m]
      /\ datagrams'[Len(datagrams) + 1] = Bytes(houseQueue[1])
  <2> DEFINE b == Bytes(Head(houseQueue))
  <2>1. b = Bytes(houseQueue[1])
    BY <1>3
  <2> HIDE DEF b
  <2> QED BY <1>1, <1>2, <2>1 DEF b
<1>5. houseQueue[1] = WeatherObject[Len(datagrams) + 1]
  BY <1>3 DEF EachSentOnce
<1>6. ASSUME NEW m \in 1..Len(datagrams') PROVE datagrams'[m] = Bytes(WeatherObject[m])
  <2>1. CASE m = Len(datagrams) + 1
    BY <1>4, <1>5, <2>1
  <2>2. CASE m # Len(datagrams) + 1
    <3>1. m \in 1..Len(datagrams)
      BY <1>3, <1>4, <2>2
    <3> QED BY <1>4, <3>1 DEF EachSentOnce
  <2> QED BY <2>1, <2>2
<1>7. ASSUME NEW m \in 1..Len(houseQueue')
      PROVE  houseQueue'[m] = WeatherObject[Len(datagrams') + m]
  <2>1. m + 1 \in 1..Len(houseQueue) /\ houseQueue'[m] = houseQueue[m + 1]
    BY <1>3
  <2>2. Len(datagrams') + m = Len(datagrams) + (m + 1)
    BY <1>3, <1>4
  <2> QED BY <2>1, <2>2 DEF EachSentOnce
<1>8. Len(datagrams') + Len(houseQueue') = Len(datagrams) + Len(houseQueue)
  BY <1>3, <1>4
<1> QED BY <1>1, <1>6, <1>7, <1>8 DEF EachSentOnce

\* Every step keeps HouseInv.
LEMMA HouseKept == HouseInv /\ [Next]_vars => HouseInv'
<1> SUFFICES ASSUME HouseInv, [Next]_vars PROVE EachSentOnce'
  BY CsvKeeps, TypesKept DEF HouseInv
<1>1. ASSUME UNCHANGED <<houseQueue, datagrams>>, taken'["houseWeather"] = taken["houseWeather"]
      PROVE  EachSentOnce'
  BY <1>1 DEF HouseInv, EachSentOnce
<1>2. CASE UNCHANGED vars \/ NewDay \/ CsvStep \/ \E k \in ReportKinds : Publish(k)
  BY <1>1, <1>2 DEF vars, houseVars, NewDay, CsvStep, Publish
<1>3. CASE \E t \in CsvTakers : PublishRow(t)
  <2>1. PICK t \in CsvTakers : PublishRow(t)
    BY <1>3
  <2>2. taken' = [taken EXCEPT ![t] = @ + 1] /\ UNCHANGED <<houseQueue, datagrams>>
    BY <2>1 DEF PublishRow, TakeReport, houseVars
  <2>3. taken \in [DOMAIN Takers -> Nat] /\ t # "houseWeather" /\ "houseWeather" \in DOMAIN Takers
    BY DEF CsvTakers, Takers, HouseInv, TypeInv, TypeOK
  <2> QED BY <1>1, <2>2, <2>3
<1> QED BY <1>2, <1>3, PushObjectInOrder, SendObjectInOrder DEF HouseInv, Next

\* Whatever the elements an object has room for, as long as the nine of a weather
\* report fit, a listener gets all of each report and nothing else out of its
\* datagram: the report is there whole, no report is missing, none comes twice.
THEOREM EachReportSentWhole == Init /\ [][Next]_vars => []DatagramsComplete
<1>1. HouseInv => DatagramsComplete
  <2> SUFFICES ASSUME HouseInv, NEW n \in 1..Len(datagrams), NEW k \in Kinds
               PROVE  GetElement(FromBytes(datagrams[n]), k).data = IF k \in Told THEN n ELSE Missing
    BY DEF DatagramsComplete
  <2>1. n \in 1..MaxReports["weather"] /\ datagrams[n] = Bytes(WeatherObject[n])
    <3>1. /\ Len(datagrams) \in Nat /\ Len(houseQueue) \in Nat /\ MaxReports["weather"] \in Nat
          /\ Len(datagrams) + Len(houseQueue) <= MaxReports["weather"]
      BY OutputAssumption DEF HouseInv, EachSentOnce, TypeInv, TypeOK, ReportKinds
    <3> QED BY <3>1 DEF HouseInv, EachSentOnce
  <2>2. /\ Consistent(WeatherObject[n])
        /\ GetElement(WeatherObject[n], k).data = IF k \in Told THEN n ELSE Missing
    BY <2>1, WeatherObjectData
  <2>3. GetElement(FromBytes(datagrams[n]), k) = GetElement(WeatherObject[n], k)
    BY <2>1, <2>2, FromBytesResult
  <2> QED BY <2>2, <2>3
<1>2. Init => HouseInv
  BY InitCsv, InitTypes, InitHouse DEF HouseInv
<1> QED BY <1>1, <1>2, HouseKept, PTL

-----------------------------------------------------------------------------
(* The rows, step by step *)

PagesOf(F, hand, queue) == [f \in 1..Len(F) |-> F[f].rows] \o <<hand, queue>>

\* The first row of the queue comes into the hand.
LEMMA PopPages ==
  ASSUME NEW F, NEW n \in Nat, Len(F) = n, NEW q \in Seq(Rows), q # <<>>, NEW tk,
         EachOnceIn(PagesOf(F, <<>>, q), tk)
  PROVE  EachOnceIn(PagesOf(F, <<Head(q)>>, Tail(q)), tk)
<1> DEFINE P == PagesOf(F, <<>>, q)
           Q == PagesOf(F, <<Head(q)>>, Tail(q))
           from == [x \in PlacesIn(Q) |->
                      IF x[1] <= n THEN x
                      ELSE IF x[1] = n + 1 THEN <<n + 2, 1>> ELSE <<n + 2, x[2] + 1>>]
<1>1. /\ Len(P) = n + 2 /\ \A f \in 1..n : P[f] = F[f].rows
      /\ P[n + 1] = <<>> /\ P[n + 2] = q
  BY PagesAre DEF PagesOf
<1>2. /\ Len(Q) = n + 2 /\ \A f \in 1..n : Q[f] = F[f].rows
      /\ Q[n + 1] = <<Head(q)>> /\ Q[n + 2] = Tail(q)
  BY PagesAre DEF PagesOf
<1>3. /\ Len(q) \in Nat /\ Len(q) >= 1 /\ Len(Tail(q)) = Len(q) - 1 /\ Head(q) = q[1]
      /\ \A m \in 1..(Len(q) - 1) : Tail(q)[m] = q[m + 1]
  OBVIOUS
<1> HIDE DEF P, Q
<1>4. ASSUME NEW x \in PlacesIn(Q)
      PROVE  /\ x = <<x[1], x[2]>> /\ x[1] \in 1..(n + 2) /\ x[2] \in 1..Len(Q[x[1]])
             /\ x[1] = n + 1 => x[2] = 1
             /\ x[1] = n + 2 => x[2] \in 1..(Len(q) - 1)
  <2>1. x = <<x[1], x[2]>> /\ x[1] \in 1..Len(Q) /\ x[2] \in 1..Len(Q[x[1]])
    BY PlaceIs
  <2>2. Len(Q[n + 1]) = 1 /\ Len(Q[n + 2]) = Len(q) - 1
    BY <1>2, <1>3
  <2>3. x[1] = n + 1 => x[2] \in 1..1
    BY <2>1, <2>2
  <2>4. x[1] = n + 2 => x[2] \in 1..(Len(q) - 1)
    BY <2>1, <2>2
  <2> QED BY <1>2, <2>1, <2>3, <2>4
<1>5. ASSUME NEW x \in PlacesIn(Q)
      PROVE  from[x] \in PlacesIn(P) /\ At(Q, x) = At(P, from[x])
  <2> DEFINE p == x[1]  m == x[2]
  <2>1. x = <<p, m>> /\ p \in 1..(n + 2) /\ m \in 1..Len(Q[p])
    BY <1>4
  <2>2. CASE p <= n
    <3>1. from[x] = x /\ p \in 1..n /\ P[p] = Q[p]
      BY <1>1, <1>2, <2>1, <2>2
    <3>2. p \in 1..Len(P) /\ m \in 1..Len(P[p])
      BY <1>1, <2>1, <3>1
    <3>3. <<p, m>> \in PlacesIn(P)
      BY <3>2, PlaceIs
    <3> QED BY <2>1, <3>1, <3>3 DEF At
  <2>3. CASE p = n + 1
    <3>1. from[x] = <<n + 2, 1>> /\ m = 1
      BY <1>4, <2>3
    <3>2. <<n + 2, 1>> \in PlacesIn(P)
      BY <1>1, <1>3, PlaceIs
    <3>3. At(Q, x) = q[1] /\ At(P, <<n + 2, 1>>) = q[1]
      BY <1>1, <1>2, <1>3, <2>3, <3>1 DEF At
    <3> QED BY <3>1, <3>2, <3>3
  <2>4. CASE p = n + 2
    <3>1. from[x] = <<n + 2, m + 1>> /\ m \in 1..(Len(q) - 1)
      BY <1>4, <2>4
    <3>2. <<n + 2, m + 1>> \in PlacesIn(P)
      <4>1. n + 2 \in 1..Len(P) /\ m + 1 \in 1..Len(P[n + 2])
        BY <1>1, <1>3, <3>1
      <4> QED BY <4>1, PlaceIs
    <3>3. At(Q, x) = q[m + 1] /\ At(P, <<n + 2, m + 1>>) = q[m + 1]
      BY <1>1, <1>2, <1>3, <2>4, <3>1 DEF At
    <3> QED BY <3>1, <3>2, <3>3
  <2> QED BY <2>1, <2>2, <2>3, <2>4
<1>6. ASSUME NEW x \in PlacesIn(Q), NEW y \in PlacesIn(Q), Before(x, y)
      PROVE  Before(from[x], from[y])
  <2>1. /\ x[1] \in 1..(n + 2) /\ x[2] \in Nat /\ y[1] \in 1..(n + 2) /\ y[2] \in Nat
        /\ x[1] = n + 1 => x[2] = 1
        /\ y[1] = n + 1 => y[2] = 1
        /\ y[1] = n + 2 => y[2] >= 1
    <3>1. \A z \in PlacesIn(Q) : Len(Q[z[1]]) \in Nat => z[2] \in Nat
      BY <1>4
    <3>2. x[2] \in Nat /\ y[2] \in Nat
      BY <1>4
    <3> QED BY <1>3, <1>4, <3>2
  <2>2. /\ from[x][1] = IF x[1] <= n THEN x[1] ELSE n + 2
        /\ from[x][2] = IF x[1] <= n THEN x[2] ELSE IF x[1] = n + 1 THEN 1 ELSE x[2] + 1
    OBVIOUS
  <2>3. /\ from[y][1] = IF y[1] <= n THEN y[1] ELSE n + 2
        /\ from[y][2] = IF y[1] <= n THEN y[2] ELSE IF y[1] = n + 1 THEN 1 ELSE y[2] + 1
    OBVIOUS
  <2> HIDE DEF from
  <2> QED BY <1>6, <2>1, <2>2, <2>3 DEF Before
<1>7. ASSUME NEW z \in PlacesIn(P)
      PROVE  \E x \in PlacesIn(Q) : from[x] = z
  <2> DEFINE p == z[1]  m == z[2]
  <2>1. z = <<p, m>> /\ p \in 1..(n + 2) /\ m \in 1..Len(P[p])
    BY <1>1, PlaceIs
  <2>2. CASE p <= n
    <3>1. p \in 1..n /\ P[p] = Q[p]
      BY <1>1, <1>2, <2>1, <2>2
    <3>2. p \in 1..Len(Q) /\ m \in 1..Len(Q[p])
      BY <1>2, <2>1, <3>1
    <3>3. z \in PlacesIn(Q)
      BY <2>1, <3>2, PlaceIs
    <3> QED BY <2>2, <3>3
  <2>3. p # n + 1
    BY <1>1, <2>1
  <2>4. CASE p = n + 2
    <3>1. m \in 1..Len(q)
      BY <1>1, <2>1, <2>4
    <3>2. CASE m = 1
      <4>1. <<n + 1, 1>> \in PlacesIn(Q)
        <5>1. n + 1 \in 1..Len(Q) /\ 1 \in 1..Len(Q[n + 1])
          BY <1>2
        <5> QED BY <5>1, PlaceIs
      <4>2. from[<<n + 1, 1>>] = <<n + 2, 1>>
        BY <4>1
      <4> QED BY <2>1, <2>4, <3>2, <4>1, <4>2
    <3>3. CASE m # 1
      <4>1. m - 1 \in 1..Len(Tail(q)) /\ (m - 1) + 1 = m
        BY <1>3, <3>1, <3>3
      <4>2. <<n + 2, m - 1>> \in PlacesIn(Q)
        <5>1. n + 2 \in 1..Len(Q) /\ m - 1 \in 1..Len(Q[n + 2])
          BY <1>2, <4>1
        <5> QED BY <5>1, PlaceIs
      <4>3. from[<<n + 2, m - 1>>] = <<n + 2, m>>
        BY <4>1, <4>2
      <4> QED BY <2>1, <2>4, <4>2, <4>3
    <3> QED BY <3>2, <3>3
  <2> QED BY <2>1, <2>2, <2>3, <2>4
<1>8. EachOnceIn(P, tk)
  BY DEF P
<1> HIDE DEF from
<1> QED BY <1>5, <1>6, <1>7, <1>8, RowsMove DEF Q

\* The row in the hand goes to the end of the open file.
LEMMA WritePages ==
  ASSUME NEW F, NEW G, NEW n \in Nat, n # 0, Len(F) = n, Len(G) = n,
         NEW rows \in Seq(Rows), NEW r \in Rows, F[n].rows = rows, G[n].rows = Append(rows, r),
         \A f \in 1..n : f # n => G[f].rows = F[f].rows,
         NEW q, NEW tk, EachOnceIn(PagesOf(F, <<r>>, q), tk)
  PROVE  EachOnceIn(PagesOf(G, <<>>, q), tk)
<1> DEFINE P == PagesOf(F, <<r>>, q)
           Q == PagesOf(G, <<>>, q)
           l == Len(rows) + 1
           from == [x \in PlacesIn(Q) |-> IF x = <<n, l>> THEN <<n + 1, 1>> ELSE x]
<1>1. /\ Len(P) = n + 2 /\ \A f \in 1..n : P[f] = F[f].rows
      /\ P[n + 1] = <<r>> /\ P[n + 2] = q
  BY PagesAre DEF PagesOf
<1>2. /\ Len(Q) = n + 2 /\ \A f \in 1..n : Q[f] = G[f].rows
      /\ Q[n + 1] = <<>> /\ Q[n + 2] = q
  BY PagesAre DEF PagesOf
<1> HIDE DEF P, Q
<1>3. /\ P[n] = rows /\ Q[n] = Append(rows, r) /\ l \in Nat /\ Len(Q[n]) = l /\ Q[n][l] = r
      /\ Len(rows) = l - 1 /\ \A m \in 1..Len(rows) : Q[n][m] = rows[m]
      /\ \A f \in 1..(n + 2) : f # n /\ f # n + 1 => Q[f] = P[f]
  <2>1. P[n] = rows /\ Q[n] = Append(rows, r)
    BY <1>1, <1>2
  <2>2. /\ Len(Append(rows, r)) = l /\ Append(rows, r)[l] = r /\ l \in Nat /\ Len(rows) = l - 1
        /\ \A m \in 1..Len(rows) : Append(rows, r)[m] = rows[m]
    OBVIOUS
  <2>3. ASSUME NEW f \in 1..(n + 2), f # n, f # n + 1 PROVE Q[f] = P[f]
    <3>1. CASE f = n + 2
      BY <1>1, <1>2, <3>1
    <3>2. CASE f \in 1..n
      BY <1>1, <1>2, <2>3, <3>2
    <3> QED BY <2>3, <3>1, <3>2
  <2> QED BY <2>1, <2>2, <2>3
<1>4. ASSUME NEW x \in PlacesIn(Q)
      PROVE  /\ x = <<x[1], x[2]>> /\ x[1] \in 1..(n + 2) /\ x[1] # n + 1
             /\ x[2] \in 1..Len(Q[x[1]]) /\ x[2] \in Nat
             /\ x[1] = n => x[2] \in 1..l
  <2>1. x = <<x[1], x[2]>> /\ x[1] \in 1..Len(Q) /\ x[2] \in 1..Len(Q[x[1]])
    BY PlaceIs
  <2>2. x[1] # n + 1
    <3>1. Len(Q[n + 1]) = 0
      BY <1>2
    <3> QED BY <2>1, <3>1
  <2>3. x[1] = n => x[2] \in 1..l
    BY <1>3, <2>1
  <2> QED BY <1>2, <2>1, <2>2, <2>3
<1>5. ASSUME NEW x \in PlacesIn(Q)
      PROVE  from[x] \in PlacesIn(P) /\ At(Q, x) = At(P, from[x])
  <2> DEFINE p == x[1]  m == x[2]
  <2>1. x = <<p, m>> /\ p \in 1..(n + 2) /\ p # n + 1 /\ m \in 1..Len(Q[p])
    BY <1>4
  <2>2. CASE p = n /\ m = l
    <3>1. from[x] = <<n + 1, 1>>
      BY <2>1, <2>2
    <3>2. <<n + 1, 1>> \in PlacesIn(P)
      <4>1. n + 1 \in 1..Len(P) /\ 1 \in 1..Len(P[n + 1])
        BY <1>1
      <4> QED BY <4>1, PlaceIs
    <3>3. At(Q, x) = r /\ At(P, <<n + 1, 1>>) = r
      BY <1>1, <1>3, <2>2 DEF At
    <3> QED BY <3>1, <3>2, <3>3
  <2>3. CASE ~(p = n /\ m = l)
    <3>1. from[x] = x
      BY <2>1, <2>3
    <3>2. m \in 1..Len(P[p]) /\ Q[p][m] = P[p][m]
      <4>1. CASE p = n
        <5>1. m \in 1..l /\ m # l
          BY <1>4, <2>3, <4>1
        <5>2. m \in 1..Len(rows)
          BY <1>3, <5>1
        <5> QED BY <1>3, <4>1, <5>2
      <4>2. CASE p # n
        BY <1>3, <2>1, <4>2
      <4> QED BY <4>1, <4>2
    <3>3. <<p, m>> \in PlacesIn(P)
      BY <1>1, <2>1, <3>2, PlaceIs
    <3> QED BY <2>1, <3>1, <3>2, <3>3 DEF At
  <2> QED BY <2>2, <2>3
<1>6. ASSUME NEW x \in PlacesIn(Q), NEW y \in PlacesIn(Q), Before(x, y)
      PROVE  Before(from[x], from[y])
  <2>1. /\ x[1] \in 1..(n + 2) /\ x[1] # n + 1 /\ x[2] \in Nat
        /\ y[1] \in 1..(n + 2) /\ y[1] # n + 1 /\ y[2] \in Nat
    BY <1>4
  <2>2. /\ x[1] = n => x[2] \in 1..l
        /\ y[1] = n => y[2] \in 1..l
    BY <1>4
  <2>3. /\ from[x][1] = IF x[1] = n /\ x[2] = l THEN n + 1 ELSE x[1]
        /\ from[x][2] = IF x[1] = n /\ x[2] = l THEN 1 ELSE x[2]
    BY <1>4
  <2>4. /\ from[y][1] = IF y[1] = n /\ y[2] = l THEN n + 1 ELSE y[1]
        /\ from[y][2] = IF y[1] = n /\ y[2] = l THEN 1 ELSE y[2]
    BY <1>4
  <2>5. l \in Nat
    BY <1>3
  <2> HIDE DEF from, l
  <2> QED BY <1>6, <2>1, <2>2, <2>3, <2>4, <2>5 DEF Before
<1>7. ASSUME NEW z \in PlacesIn(P)
      PROVE  \E x \in PlacesIn(Q) : from[x] = z
  <2> DEFINE p == z[1]  m == z[2]
  <2>1. z = <<p, m>> /\ p \in 1..(n + 2) /\ m \in 1..Len(P[p])
    BY <1>1, PlaceIs
  <2>2. CASE p = n + 1
    <3>1. m = 1
      <4>1. Len(P[n + 1]) = 1
        BY <1>1
      <4> QED BY <2>1, <2>2, <4>1
    <3>2. <<n, l>> \in PlacesIn(Q)
      <4>1. n \in 1..Len(Q) /\ l \in 1..Len(Q[n])
        BY <1>2, <1>3
      <4> QED BY <4>1, PlaceIs
    <3>3. from[<<n, l>>] = <<n + 1, 1>>
      BY <3>2
    <3> QED BY <2>1, <2>2, <3>1, <3>2, <3>3
  <2>3. CASE p # n + 1
    <3>1. m \in 1..Len(Q[p]) /\ ~(p = n /\ m = l)
      <4>1. CASE p = n
        <5>1. m \in 1..(l - 1)
          BY <1>3, <2>1, <4>1
        <5> QED BY <1>3, <4>1, <5>1
      <4>2. CASE p # n
        BY <1>3, <2>1, <2>3, <4>2
      <4> QED BY <4>1, <4>2
    <3>2. z \in PlacesIn(Q)
      BY <1>2, <2>1, <3>1, PlaceIs
    <3>3. from[z] = z
      BY <2>1, <3>1, <3>2
    <3> QED BY <3>2, <3>3
  <2> QED BY <2>2, <2>3
<1>8. EachOnceIn(P, tk)
  BY DEF P
<1> HIDE DEF from
<1> QED BY <1>5, <1>6, <1>7, <1>8, RowsMove DEF Q

\* Another file is open; nothing is in it.
LEMMA OpenPages ==
  ASSUME NEW F, NEW G, NEW n \in Nat, Len(F) = n, Len(G) = n + 1, G[n + 1].rows = <<>>,
         \A f \in 1..n : G[f].rows = F[f].rows,
         NEW hand, NEW q, NEW tk, EachOnceIn(PagesOf(F, hand, q), tk)
  PROVE  EachOnceIn(PagesOf(G, hand, q), tk)
<1> DEFINE P == PagesOf(F, hand, q)
           Q == PagesOf(G, hand, q)
           from == [x \in PlacesIn(Q) |-> IF x[1] <= n THEN x ELSE <<x[1] - 1, x[2]>>]
<1>1. /\ Len(P) = n + 2 /\ \A f \in 1..n : P[f] = F[f].rows
      /\ P[n + 1] = hand /\ P[n + 2] = q
  BY PagesAre DEF PagesOf
<1>2. /\ Len(Q) = n + 3 /\ \A f \in 1..(n + 1) : Q[f] = G[f].rows
      /\ Q[n + 2] = hand /\ Q[n + 3] = q
  <2>1. n + 1 \in Nat /\ (n + 1) + 1 = n + 2 /\ (n + 1) + 2 = n + 3
    OBVIOUS
  <2> DEFINE g == n + 1
  <2> HIDE DEF g
  <2>2. Len(G) = g /\ g \in Nat
    BY DEF g
  <2>3. /\ Len(Q) = g + 2 /\ \A f \in 1..g : Q[f] = G[f].rows
        /\ Q[g + 1] = hand /\ Q[g + 2] = q
    BY <2>2, PagesAre DEF PagesOf
  <2> QED BY <2>1, <2>3 DEF g
<1>3. /\ \A f \in 1..n : Q[f] = P[f]
      /\ Q[n + 1] = <<>> /\ \A f \in (n + 2)..(n + 3) : Q[f] = P[f - 1]
  <2>1. Q[n + 2] = P[(n + 2) - 1] /\ Q[n + 3] = P[(n + 3) - 1]
    BY <1>1, <1>2
  <2>2. \A f \in (n + 2)..(n + 3) : f = n + 2 \/ f = n + 3
    OBVIOUS
  <2> QED BY <1>1, <1>2, <2>1, <2>2
<1> HIDE DEF P, Q
<1>4. ASSUME NEW x \in PlacesIn(Q)
      PROVE  /\ x = <<x[1], x[2]>> /\ x[1] \in 1..(n + 3) /\ x[1] # n + 1
             /\ x[2] \in 1..Len(Q[x[1]])
  <2>1. x = <<x[1], x[2]>> /\ x[1] \in 1..Len(Q) /\ x[2] \in 1..Len(Q[x[1]])
    BY PlaceIs
  <2>2. x[1] # n + 1
    <3>1. Len(Q[n + 1]) = 0
      BY <1>3
    <3> QED BY <2>1, <3>1
  <2> QED BY <1>2, <2>1, <2>2
<1>5. ASSUME NEW x \in PlacesIn(Q)
      PROVE  from[x] \in PlacesIn(P) /\ At(Q, x) = At(P, from[x])
  <2> DEFINE p == x[1]  m == x[2]
  <2>1. x = <<p, m>> /\ p \in 1..(n + 3) /\ p # n + 1 /\ m \in 1..Len(Q[p])
    BY <1>4
  <2>2. CASE p <= n
    <3>1. from[x] = x /\ p \in 1..n /\ P[p] = Q[p]
      BY <1>3, <2>1, <2>2
    <3>2. p \in 1..Len(P) /\ m \in 1..Len(P[p])
      BY <1>1, <2>1, <3>1
    <3>3. <<p, m>> \in PlacesIn(P)
      BY <3>2, PlaceIs
    <3> QED BY <2>1, <3>1, <3>3 DEF At
  <2>3. CASE ~(p <= n)
    <3>1. from[x] = <<p - 1, m>> /\ p \in (n + 2)..(n + 3) /\ Q[p] = P[p - 1]
      BY <1>3, <2>1, <2>3
    <3>2. p - 1 \in 1..Len(P) /\ m \in 1..Len(P[p - 1])
      BY <1>1, <2>1, <3>1
    <3>3. <<p - 1, m>> \in PlacesIn(P)
      BY <3>2, PlaceIs
    <3> QED BY <3>1, <3>3 DEF At
  <2> QED BY <2>2, <2>3
<1>6. ASSUME NEW x \in PlacesIn(Q), NEW y \in PlacesIn(Q), Before(x, y)
      PROVE  Before(from[x], from[y])
  <2>1. /\ x[1] \in 1..(n + 3) /\ x[1] # n + 1
        /\ y[1] \in 1..(n + 3) /\ y[1] # n + 1
    BY <1>4
  <2>2. from[x][1] = (IF x[1] <= n THEN x[1] ELSE x[1] - 1) /\ from[x][2] = x[2]
    OBVIOUS
  <2>3. from[y][1] = (IF y[1] <= n THEN y[1] ELSE y[1] - 1) /\ from[y][2] = y[2]
    OBVIOUS
  <2> HIDE DEF from
  <2> QED BY <1>6, <2>1, <2>2, <2>3 DEF Before
<1>7. ASSUME NEW z \in PlacesIn(P)
      PROVE  \E x \in PlacesIn(Q) : from[x] = z
  <2> DEFINE p == z[1]  m == z[2]
  <2>1. z = <<p, m>> /\ p \in 1..(n + 2) /\ m \in 1..Len(P[p])
    BY <1>1, PlaceIs
  <2>2. CASE p <= n
    <3>1. p \in 1..Len(Q) /\ m \in 1..Len(Q[p])
      BY <1>2, <1>3, <2>1, <2>2
    <3>2. z \in PlacesIn(Q)
      BY <2>1, <3>1, PlaceIs
    <3> QED BY <2>2, <3>2
  <2>3. CASE ~(p <= n)
    <3>1. p + 1 \in (n + 2)..(n + 3) /\ (p + 1) - 1 = p
      BY <2>1, <2>3
    <3>2. p + 1 \in 1..Len(Q) /\ m \in 1..Len(Q[p + 1])
      BY <1>2, <1>3, <2>1, <3>1
    <3>3. <<p + 1, m>> \in PlacesIn(Q)
      BY <3>2, PlaceIs
    <3>4. from[<<p + 1, m>>] = <<p, m>>
      BY <3>1, <3>3
    <3> QED BY <2>1, <3>3, <3>4
  <2> QED BY <2>2, <2>3
<1>8. EachOnceIn(P, tk)
  BY DEF P
<1> HIDE DEF from
<1> QED BY <1>5, <1>6, <1>7, <1>8, RowsMove DEF Q

\* The next report of a kind gets a row at the end of the queue.
LEMMA AppendPages ==
  ASSUME NEW F, NEW n \in Nat, Len(F) = n, NEW hand, NEW q \in Seq(Rows), NEW r \in Rows,
         NEW tk \in [DOMAIN Takers -> Nat], NEW t \in CsvTakers,
         r.kind = Takers[t], r.number = tk[t] + 1,
         EachOnceIn(PagesOf(F, hand, q), tk)
  PROVE  EachOnceIn(PagesOf(F, hand, Append(q, r)), [tk EXCEPT ![t] = @ + 1])
<1> DEFINE P == PagesOf(F, hand, q)
           Q == PagesOf(F, hand, Append(q, r))
           l == Len(q) + 1
           new == <<n + 2, l>>
           tk2 == [tk EXCEPT ![t] = @ + 1]
<1>1. /\ Len(P) = n + 2 /\ \A f \in 1..n : P[f] = F[f].rows
      /\ P[n + 1] = hand /\ P[n + 2] = q
  BY PagesAre DEF PagesOf
<1>2. /\ Len(Q) = n + 2 /\ \A f \in 1..n : Q[f] = F[f].rows
      /\ Q[n + 1] = hand /\ Q[n + 2] = Append(q, r)
  BY PagesAre DEF PagesOf
<1>3. /\ l \in Nat /\ Len(q) = l - 1 /\ Len(Append(q, r)) = l /\ Append(q, r)[l] = r
      /\ \A m \in 1..(l - 1) : Append(q, r)[m] = q[m]
  OBVIOUS
<1>4. \A f \in 1..(n + 1) : Q[f] = P[f]
  <2>1. \A f \in 1..(n + 1) : f \in 1..n \/ f = n + 1
    OBVIOUS
  <2> HIDE DEF P, Q
  <2> QED BY <1>1, <1>2, <2>1
<1>5. EachOnceIn(P, tk)
  OBVIOUS
<1> HIDE DEF P, Q, l
<1>6. ASSUME NEW x \in PlacesIn(P)
      PROVE  x \in PlacesIn(Q) /\ At(Q, x) = At(P, x) /\ ~Before(new, x)
  <2> DEFINE p == x[1]  m == x[2]
  <2>1. x = <<p, m>> /\ p \in 1..(n + 2) /\ m \in 1..Len(P[p])
    BY <1>1, PlaceIs
  <2>2. CASE p = n + 2
    <3>1. m \in 1..(l - 1)
      BY <1>1, <1>3, <2>1, <2>2
    <3>2. p \in 1..Len(Q) /\ m \in 1..Len(Q[p]) /\ Q[p][m] = P[p][m]
      BY <1>1, <1>2, <1>3, <2>2, <3>1
    <3>3. <<p, m>> \in PlacesIn(Q)
      BY <3>2, PlaceIs
    <3>4. ~Before(new, x)
      BY <1>3, <2>2, <3>1 DEF Before
    <3> QED BY <2>1, <3>2, <3>3, <3>4 DEF At
  <2>3. CASE p # n + 2
    <3>1. p \in 1..(n + 1)
      BY <2>1, <2>3
    <3>2. p \in 1..Len(Q) /\ m \in 1..Len(Q[p]) /\ Q[p] = P[p]
      BY <1>2, <1>4, <2>1, <3>1
    <3>3. <<p, m>> \in PlacesIn(Q)
      BY <3>2, PlaceIs
    <3>4. ~Before(new, x)
      BY <3>1 DEF Before
    <3> QED BY <2>1, <3>2, <3>3, <3>4 DEF At
  <2> QED BY <2>2, <2>3
<1>7. new \in PlacesIn(Q) /\ At(Q, new) = r /\ ~Before(new, new)
  <2>1. n + 2 \in 1..Len(Q) /\ l \in 1..Len(Q[n + 2])
    <3>1. l \in 1..l
      BY <1>3 DEF l
    <3> QED BY <1>2, <1>3, <3>1
  <2> QED BY <1>2, <1>3, <2>1, PlaceIs DEF At, Before
<1>8. ASSUME NEW x \in PlacesIn(Q), x # new PROVE x \in PlacesIn(P)
  <2> DEFINE p == x[1]  m == x[2]
  <2>1. x = <<p, m>> /\ p \in 1..(n + 2) /\ m \in 1..Len(Q[p])
    BY <1>2, PlaceIs
  <2>2. p \in 1..Len(P) /\ m \in 1..Len(P[p])
    <3>1. CASE p = n + 2
      <4>1. m \in 1..l /\ m # l
        BY <1>2, <1>3, <1>8, <2>1, <3>1
      <4> QED BY <1>1, <1>3, <3>1, <4>1
    <3>2. CASE p # n + 2
      <4>1. p \in 1..(n + 1)
        BY <2>1, <3>2
      <4> QED BY <1>1, <1>4, <2>1, <4>1
    <3> QED BY <3>1, <3>2
  <2> QED BY <2>1, <2>2, PlaceIs
<1> HIDE DEF new
<1>9. NumbersOf(Q, r.kind) = NumbersOf(P, r.kind) \cup {r.number}
  <2>1. ASSUME NEW i \in NumbersOf(Q, r.kind) PROVE i \in NumbersOf(P, r.kind) \cup {r.number}
    <3>1. PICK x \in PlacesIn(Q) : At(Q, x).kind = r.kind /\ i = At(Q, x).number
      BY DEF NumbersOf
    <3>2. CASE x = new
      BY <1>7, <3>1, <3>2
    <3>3. CASE x # new
      BY <1>6, <1>8, <3>1, <3>3 DEF NumbersOf
    <3> QED BY <3>2, <3>3
  <2>2. ASSUME NEW i \in NumbersOf(P, r.kind) PROVE i \in NumbersOf(Q, r.kind)
    <3>1. PICK x \in PlacesIn(P) : At(P, x).kind = r.kind /\ i = At(P, x).number
      BY DEF NumbersOf
    <3> QED BY <1>6, <3>1 DEF NumbersOf
  <2>3. r.number \in NumbersOf(Q, r.kind)
    BY <1>7 DEF NumbersOf
  <2> QED BY <2>1, <2>2, <2>3
<1>10. ASSUME NEW k, k # r.kind PROVE NumbersOf(Q, k) = NumbersOf(P, k)
  <2>1. ASSUME NEW i \in NumbersOf(Q, k) PROVE i \in NumbersOf(P, k)
    <3>1. PICK x \in PlacesIn(Q) : At(Q, x).kind = k /\ i = At(Q, x).number
      BY DEF NumbersOf
    <3>2. x # new
      BY <1>7, <1>10, <3>1
    <3> QED BY <1>6, <1>8, <3>1, <3>2 DEF NumbersOf
  <2>2. ASSUME NEW i \in NumbersOf(P, k) PROVE i \in NumbersOf(Q, k)
    <3>1. PICK x \in PlacesIn(P) : At(P, x).kind = k /\ i = At(P, x).number
      BY DEF NumbersOf
    <3> QED BY <1>6, <3>1 DEF NumbersOf
  <2> QED BY <2>1, <2>2
<1>11. t \in DOMAIN Takers /\ \A s \in CsvTakers : s \in DOMAIN Takers /\ (s # t => Takers[s] # r.kind)
  BY DEF CsvTakers, Takers
<1>12. tk[t] \in Nat /\ \A s \in CsvTakers : tk2[s] = IF s = t THEN tk[t] + 1 ELSE tk[s]
  BY <1>11
<1>13. NumbersOf(P, r.kind) = 1..tk[t]
  BY <1>5 DEF EachOnceIn
<1> HIDE DEF tk2
<1>14. ASSUME NEW s \in CsvTakers PROVE NumbersOf(Q, Takers[s]) = 1..tk2[s]
  <2>1. CASE s = t
    <3>1. 1..(tk[t] + 1) = (1..tk[t]) \cup {tk[t] + 1}
      BY <1>12
    <3> QED BY <1>9, <1>12, <1>13, <2>1, <3>1
  <2>2. CASE s # t
    BY <1>5, <1>10, <1>11, <1>12, <2>2 DEF EachOnceIn
  <2> QED BY <2>1, <2>2
<1>15. InOrderIn(Q)
  <2> SUFFICES ASSUME NEW x \in PlacesIn(Q), NEW y \in PlacesIn(Q),
                      At(Q, x).kind = At(Q, y).kind, Before(x, y)
               PROVE  At(Q, x).number < At(Q, y).number
    BY DEF InOrderIn
  <2>1. x # new /\ x \in PlacesIn(P) /\ At(Q, x) = At(P, x)
    BY <1>6, <1>7, <1>8
  <2>2. CASE y # new
    BY <1>5, <1>6, <1>8, <2>1, <2>2 DEF EachOnceIn, InOrderIn
  <2>3. CASE y = new
    <3>1. At(P, x).kind = r.kind
      BY <1>7, <2>1, <2>3
    <3>2. At(P, x).number \in NumbersOf(P, r.kind)
      BY <2>1, <3>1 DEF NumbersOf
    <3>3. At(P, x).number \in 1..tk[t]
      BY <1>13, <3>2
    <3> QED BY <1>7, <1>12, <2>1, <2>3, <3>3
  <2> QED BY <2>2, <2>3
<1> QED BY <1>14, <1>15 DEF EachOnceIn, Q, tk2

-----------------------------------------------------------------------------
(***************************************************************************)
(* EachRowOnce by itself is inductive only if the hand is empty whenever   *)
(* csvThread takes a row.                                                  *)
(***************************************************************************)
EmptyHand == pc \in {"open", "detect", "pop"} => row = None

Hand == IF row = None THEN <<>> ELSE <<row>>

RowInv == CsvInv /\ TypeInv /\ EmptyHand /\ EachOnceIn(Pages, taken)

\* The pages of this state.
LEMMA PagesNow == Pages = PagesOf(files, Hand, outputQueue)
BY DEF Pages, PagesOf, Hand

\* There are no rows at first.
LEMMA InitRows == Init => EmptyHand /\ EachOnceIn(Pages, taken)
<1> SUFFICES ASSUME Init PROVE EmptyHand /\ EachOnceIn(Pages, taken)
  OBVIOUS
<1> DEFINE P == PagesOf(<<>>, <<>>, <<>>)
<1>1. Pages = P
  BY PagesNow DEF Init, Hand
<1>2. Len(P) = 2 /\ P[1] = <<>> /\ P[2] = <<>>
  <2>1. Len(<<>>) = 0 /\ 0 \in Nat
    OBVIOUS
  <2>2. Len(P) = 0 + 2 /\ P[0 + 1] = <<>> /\ P[0 + 2] = <<>>
    BY <2>1, PagesAre DEF PagesOf
  <2> QED BY <2>2
<1> HIDE DEF P
<1>3. PlacesIn(P) = {}
  <2> SUFFICES ASSUME NEW x \in PlacesIn(P) PROVE FALSE
    OBVIOUS
  <2>1. x[1] \in 1..2 /\ x[2] \in 1..Len(P[x[1]])
    BY <1>2, PlaceIs
  <2>2. Len(P[1]) = 0 /\ Len(P[2]) = 0
    BY <1>2
  <2> QED BY <2>1, <2>2
<1>4. \A k : NumbersOf(P, k) = {}
  BY <1>3 DEF NumbersOf
<1>5. \A t \in CsvTakers : 1..taken[t] = {}
  <2>1. \A t \in CsvTakers : taken[t] = 0
    BY DEF Init, CsvTakers, Takers
  <2> QED BY <2>1
<1>6. EachOnceIn(P, taken)
  BY <1>3, <1>4, <1>5 DEF EachOnceIn, InOrderIn
<1> QED BY <1>1, <1>6 DEF Init, EmptyHand

\* A row published is the next of its kind, at the end of the last page.
LEMMA PublishRowRows ==
  ASSUME RowInv, NEW t \in CsvTakers, PublishRow(t)
  PROVE  EmptyHand' /\ EachOnceIn(Pages, taken)'
<1> DEFINE k == Takers[t]  n == taken'[t]
           r == [kind |-> k, number |-> n, day |-> reports[k][n]]
<1>1. t \in DOMAIN Takers /\ k \in ReportKinds
  BY TakerKinds DEF CsvTakers, Takers
<1>2. /\ TakeReport(t) /\ taken' = [taken EXCEPT ![t] = @ + 1]
      /\ outputQueue' = Append(outputQueue, r) /\ UNCHANGED <<pc, row, files>>
  BY DEF PublishRow, TakeReport, csvVars
<1>3. n = taken[t] + 1 /\ n \in 1..Len(reports[k])
  BY <1>1, <1>2, TakeReportTypes DEF RowInv
<1>4. /\ reports[k] \in Seq(Days) /\ outputQueue \in Seq(Rows) /\ Len(files) \in Nat
      /\ taken \in [DOMAIN Takers -> Nat]
  BY <1>1 DEF RowInv, TypeInv, TypeOK
<1>5. r \in Rows /\ r.kind = Takers[t] /\ r.number = taken[t] + 1
  <2>1. reports[k][n] \in Days /\ n \in Nat
    BY <1>3, <1>4
  <2> QED BY <1>1, <1>3, <2>1 DEF Rows
<1>6. EachOnceIn(PagesOf(files, Hand, outputQueue), taken)
  BY PagesNow DEF RowInv
<1> HIDE DEF r
<1>7. EachOnceIn(PagesOf(files, Hand, Append(outputQueue, r)), [taken EXCEPT ![t] = @ + 1])
  BY <1>4, <1>5, <1>6, AppendPages
<1>8. Pages' = PagesOf(files, Hand, Append(outputQueue, r))
  BY <1>2 DEF Pages, PagesOf, Hand
<1> QED BY <1>2, <1>7, <1>8 DEF RowInv, EmptyHand, EachOnceIn

\* A new file is an empty page in front of the row in hand.
LEMMA OpenFileRows ==
  ASSUME RowInv, UNCHANGED taken, NEW from, NEW to,
         <<from, to>> \in {<<"open", "detect">>, <<"reopen", "write">>}, OpenFile(from, to)
  PROVE  EmptyHand' /\ EachOnceIn(Pages, taken)'
<1>1. /\ pc = from /\ pc' \in {to, "done"} /\ UNCHANGED <<taken, outputQueue, row>>
      /\ \/ from = "open" /\ to = "detect"
         \/ from = "reopen" /\ to = "write"
  BY DEF OpenFile, Goto
<1>2. EmptyHand'
  BY <1>1 DEF RowInv, EmptyHand
<1>3. CASE UNCHANGED files
  <2>1. Pages' = Pages
    BY <1>1, <1>3 DEF Pages
  <2> QED BY <1>1, <1>2, <2>1 DEF RowInv, EachOnceIn
<1>4. ASSUME NEW named \in Dates, files' = Append(files, NewFile(named))
      PROVE  EachOnceIn(Pages, taken)'
  <2> DEFINE G == Append(files, NewFile(named))
  <2>1. files \in Seq(CsvFiles) /\ NewFile(named).rows = <<>>
    BY DEF RowInv, CsvInv, CsvTyped, NewFile
  <2>2. /\ Len(files) \in Nat /\ Len(G) = Len(files) + 1 /\ G[Len(files) + 1].rows = <<>>
        /\ \A f \in 1..Len(files) : G[f].rows = files[f].rows
    <3> DEFINE new == NewFile(named)
    <3> HIDE DEF new
    <3>1. /\ Len(files) \in Nat /\ Len(Append(files, new)) = Len(files) + 1
          /\ Append(files, new)[Len(files) + 1] = new
          /\ \A f \in 1..Len(files) : Append(files, new)[f] = files[f]
      BY <2>1
    <3> QED BY <2>1, <3>1 DEF new
  <2>3. EachOnceIn(PagesOf(files, Hand, outputQueue), taken)
    BY PagesNow DEF RowInv
  <2> HIDE DEF G
  <2>4. EachOnceIn(PagesOf(G, Hand, outputQueue), taken)
    BY <2>2, <2>3, OpenPages
  <2>5. Pages' = PagesOf(G, Hand, outputQueue)
    BY <1>1, <1>4 DEF Pages, PagesOf, Hand, G
  <2> QED BY <1>1, <2>4, <2>5 DEF EachOnceIn
<1> QED BY <1>2, <1>3, <1>4 DEF OpenFile

\* A row popped moves from the head of the queue into the hand.
LEMMA PopRowRows ==
  ASSUME RowInv, TypeInv', UNCHANGED taken, PopRow
  PROVE  EmptyHand' /\ EachOnceIn(Pages, taken)'
<1>1. /\ pc = "pop" /\ pc' = "midnight" /\ outputQueue # <<>> /\ row = None
      /\ row' = Head(outputQueue) /\ outputQueue' = Tail(outputQueue) /\ UNCHANGED files
  BY DEF PopRow, Goto, RowInv, EmptyHand
<1>2. outputQueue \in Seq(Rows) /\ Len(files) \in Nat /\ row' # None
  BY <1>1 DEF RowInv, TypeInv, TypeOK
<1>3. EachOnceIn(PagesOf(files, <<>>, outputQueue), taken)
  BY <1>1, PagesNow DEF RowInv, Hand
<1>4. EachOnceIn(PagesOf(files, <<Head(outputQueue)>>, Tail(outputQueue)), taken)
  BY <1>1, <1>2, <1>3, PopPages
<1>5. Pages' = PagesOf(files, <<Head(outputQueue)>>, Tail(outputQueue))
  BY <1>1, <1>2 DEF Pages, PagesOf
<1> QED BY <1>1, <1>4, <1>5 DEF EmptyHand, EachOnceIn

\* A row written moves from the hand to the end of the last file.
LEMMA WriteRowRows ==
  ASSUME RowInv, UNCHANGED taken, WriteRow
  PROVE  EmptyHand' /\ EachOnceIn(Pages, taken)'
<1> DEFINE Files == [day : Days, rows : Seq(Rows)]
           last == Len(files)
           rows == files[last].rows
<1>1. /\ pc = "write" /\ pc' = "pop" /\ row' = None /\ UNCHANGED outputQueue
      /\ files' = [files EXCEPT ![last].rows = Append(@, row)]
  BY DEF WriteRow, Goto
<1>2. row \in Rows /\ row # None /\ files \in Seq(Files) /\ files # <<>>
  BY <1>1 DEF RowInv, TypeInv, TypeOK
<1>3. last \in 1..Len(files) /\ last \in Nat /\ last # 0 /\ files[last] \in Files
  <2> HIDE DEF Files
  <2> QED BY <1>2
<1>4. rows \in Seq(Rows)
  BY <1>3
<1>5. /\ Len(files') = last /\ files'[last].rows = Append(rows, row)
      /\ \A f \in 1..last : f # last => files'[f].rows = files[f].rows
  <2> DEFINE file == [files[last] EXCEPT !.rows = Append(@, row)]
  <2>1. files' = [files EXCEPT ![last] = file]
    BY <1>1, <1>2, <1>3
  <2>2. file.rows = Append(rows, row)
    BY <1>3
  <2> HIDE DEF Files, file, rows
  <2> QED BY <1>2, <1>3, <2>1, <2>2
<1>6. EachOnceIn(PagesOf(files, <<row>>, outputQueue), taken)
  BY <1>2, PagesNow DEF RowInv, Hand
<1> DEFINE G == [files EXCEPT ![last].rows = Append(@, row)]
<1>7. /\ Len(G) = last /\ G[last].rows = Append(rows, row)
      /\ \A f \in 1..last : f # last => G[f].rows = files[f].rows
  BY <1>1, <1>5
<1> HIDE DEF G, last, rows
<1>8. Len(files) = last /\ files[last].rows = rows
  BY DEF last, rows
<1>9. EachOnceIn(PagesOf(G, <<>>, outputQueue), taken)
  BY <1>2, <1>3, <1>4, <1>6, <1>7, <1>8, WritePages
<1>10. Pages' = PagesOf(G, <<>>, outputQueue)
  BY <1>1 DEF Pages, PagesOf, G
<1> QED BY <1>1, <1>9, <1>10 DEF EmptyHand, EachOnceIn

\* Every step keeps RowInv.
LEMMA RowsKept == RowInv /\ [Next]_vars => RowInv'
<1> SUFFICES ASSUME RowInv, [Next]_vars
             PROVE  EmptyHand' /\ EachOnceIn(Pages, taken)'
  BY CsvKeeps, TypesKept DEF RowInv
<1>1. ASSUME UNCHANGED <<row, files, outputQueue>>,
             \A t \in CsvTakers : taken'[t] = taken[t],
             EmptyHand'
      PROVE  EmptyHand' /\ EachOnceIn(Pages, taken)'
  <2>1. Pages' = Pages
    BY <1>1 DEF Pages
  <2> QED BY <1>1, <2>1 DEF RowInv, EachOnceIn
<1>2. CASE CsvStep
  <2>1. UNCHANGED taken
    BY <1>2 DEF CsvStep
  <2>2. CASE OpenFile("open", "detect") \/ OpenFile("reopen", "write")
    BY <2>1, <2>2, OpenFileRows
  <2>3. CASE CrossedMidnight("detect", "pop", "pop") \/ CrossedMidnight("midnight", "reopen", "write")
    <3>1. UNCHANGED <<row, files, outputQueue>>
      BY <2>3 DEF CrossedMidnight
    <3>2. \/ pc = "detect" /\ pc' = "pop"
          \/ pc = "midnight" /\ pc' \in {"reopen", "write"}
      BY <2>3 DEF CrossedMidnight, Goto
    <3>3. EmptyHand'
      BY <3>1, <3>2 DEF RowInv, EmptyHand
    <3> QED BY <1>1, <2>1, <3>1, <3>3
  <2>4. CASE PopRow
    BY <2>1, <2>4, PopRowRows, CsvKeeps, TypesKept DEF RowInv
  <2>5. CASE WriteRow
    BY <2>1, <2>5, WriteRowRows
  <2> QED BY <1>2, <2>2, <2>3, <2>4, <2>5 DEF CsvStep
<1>3. CASE UNCHANGED vars \/ NewDay \/ SendObject \/ \E k \in ReportKinds : Publish(k)
  <2>1. UNCHANGED <<pc, row, files, outputQueue, taken>>
    BY <1>3 DEF vars, csvVars, NewDay, SendObject, Publish
  <2>2. EmptyHand'
    BY <2>1 DEF RowInv, EmptyHand
  <2> QED BY <1>1, <2>1, <2>2
<1>4. CASE PushObject
  <2>1. /\ UNCHANGED <<pc, row, files, outputQueue>>
        /\ taken' = [taken EXCEPT !["houseWeather"] = @ + 1]
    BY <1>4 DEF PushObject, TakeReport, csvVars
  <2>2. \A t \in CsvTakers : taken'[t] = taken[t]
    BY <2>1 DEF CsvTakers, Takers, RowInv, TypeInv, TypeOK
  <2>3. EmptyHand'
    BY <2>1 DEF RowInv, EmptyHand
  <2> QED BY <1>1, <2>1, <2>2, <2>3
<1> QED BY <1>2, <1>3, <1>4, PublishRowRows DEF Next

\* For any number of reports and days: no report's row is lost on its way through
\* csvQueue, past midnight and into the files, none is written twice, and those
\* of a kind stay in order.
THEOREM RowsKeptOnceInOrder == Init /\ [][Next]_vars => []EachRowOnce
<1>1. RowInv => EachRowOnce
  BY OnPages DEF RowInv
<1>2. Init => RowInv
  BY InitCsv, InitTypes, InitRows DEF RowInv
<1> QED BY <1>1, <1>2, RowsKept, PTL
=============================================================================
