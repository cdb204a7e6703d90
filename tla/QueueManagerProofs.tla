------------------------- MODULE QueueManagerProofs -------------------------
(***************************************************************************)
(* Theorems about QueueManager for any sets of publishers and queues and   *)
(* any order of their calls: an access is wild only after two connects, or *)
(* a publish and a connect that finds no room, have overlapped, and up to  *)
(* then every step is one of Broadcast.                                    *)
(***************************************************************************)
EXTENDS QueueManager, TLAPS

Live == 1..Len(storage) \ freed

\* The first n cells of a block that lives hold the queues of S, each once.
Filled(b, n, S) ==
  /\ b \in Live
  /\ n \in 0..Len(storage[b])
  /\ \A i \in 1..n : storage[b][i] \in S
  /\ \A s \in S : \E i \in 1..n : storage[b][i] = s
  /\ \A i, j \in 1..n : storage[b][i] = storage[b][j] => i = j

\* The pointers agree, and the elements are the queues of S.
Vector(S) ==
  \/ /\ S = {}
     /\ start = Null /\ finish = Null /\ limit = Null
  \/ /\ Filled(start.block, finish.at, S)
     /\ start.at = 0
     /\ finish.block = start.block
     /\ limit = [block |-> start.block, at |-> Len(storage[start.block])]

\* The thread that connects q has made a block with one element more.
Grown(q) == Filled(myFinish[q].block, myFinish[q].at, Connected \cup {q})

Typed ==
  /\ storage \in Seq(Seq(Cells)) /\ freed \in SUBSET (1..Len(storage))
  /\ start \in Pointers /\ finish \in Pointers /\ limit \in Pointers
  /\ connectPc \in [Queues -> {"idle", "write", "start", "finish", "limit", "done"}]
  /\ myFinish \in [Queues -> Pointers] /\ oldBlock \in [Queues -> Nat]
  /\ publishPc \in [Publishers -> {"idle", "test", "load"}]
  /\ index \in [Publishers -> Nat] /\ base \in [Publishers -> Pointers]
  /\ published \in [Publishers -> Nat]
  /\ inbox \in [Queues -> Seq(Publishers \X Nat)]

OneConnects == \A q, r \in Connecting : q = r

\* What holds of the vector in each step of connect.
HalfConnected ==
  \A q \in Queues :
    /\ connectPc[q] = "write" =>
         Vector(Connected) /\ myFinish[q] = finish /\ finish # limit
    /\ connectPc[q] = "start" =>
         /\ Vector(Connected) /\ oldBlock[q] = start.block
         /\ Grown(q) /\ myFinish[q].block # start.block
    /\ connectPc[q] \in {"finish", "limit"} =>
         Grown(q) /\ start = [block |-> myFinish[q].block, at |-> 0]
    /\ connectPc[q] = "limit" => finish = myFinish[q]

\* The vector does not grow while a thread is inside publish, ...
GrowsAlone == Growing # {} => Publishing = {}

\* ... which has not come to the end yet, and loads from the vector.
Loading ==
  \A p \in Publishing :
    /\ index[p] <= finish.at
    /\ publishPc[p] = "load" => base[p] = start /\ index[p] < finish.at

VectorInv ==
  /\ Typed
  /\ ~wild
  /\ Growing = {} => Vector(Connected)
  /\ OneConnects
  /\ GrowsAlone
  /\ HalfConnected
  /\ Loading

-----------------------------------------------------------------------------
\* An empty vector is a vector at rest.
LEMMA InitVector == Init => overlaps = 0 /\ VectorInv
BY ConstantsAssumption
DEF Init, VectorInv, Typed, Connecting, Growing, Publishing, Connected, Vector, OneConnects,
    GrowsAlone, HalfConnected, Loading, Null, Pointers, Cells

\* What Elements is, in the two forms a sound vector has.
LEMMA ElementsOfVector ==
  ASSUME Typed, NEW S, Vector(S)
  PROVE  /\ start = Null => Elements = <<>> /\ S = {}
         /\ start # Null =>
              /\ Elements \in Seq(Cells)
              /\ Len(Elements) = finish.at
              /\ \A i \in 1..finish.at : Elements[i] = storage[start.block][i]
<1>1. CASE S = {} /\ start = Null
  BY <1>1 DEF Elements
<1>2. CASE Filled(start.block, finish.at, S) /\ finish.block = start.block
  <2>1. /\ start.block \in 1..Len(storage) /\ storage[start.block] \in Seq(Cells)
        /\ finish.at \in 0..Len(storage[start.block])
    BY <1>2 DEF Filled, Live, Typed
  <2>2. start # Null
    BY <2>1 DEF Null
  <2>3. Elements = SubSeq(storage[start.block], 1, finish.at)
    BY <2>2, <1>2 DEF Elements
  <2>4. QED
    BY <2>1, <2>2, <2>3
<1>3. QED
  BY <1>1, <1>2 DEF Vector

\* A connect that begins without overlap meets a sound vector, ...
LEMMA BeforeConnect ==
  ASSUME overlaps = 0, overlaps' = 0, VectorInv, NEW q \in Queues, PushBack(q) \/ Grow(q)
  PROVE  /\ Vector(Connected) /\ Connecting = {} /\ Growing = {} /\ q \notin Connected
         /\ Grow(q) => Publishing = {}
<1>1. Connecting = {} /\ (Grow(q) => Publishing = {})
  BY DEF PushBack, Grow, Overlap
<1>2. connectPc[q] = "idle" /\ Growing = {}
  BY <1>1 DEF PushBack, Grow, Connecting
<1> QED BY <1>1, <1>2 DEF VectorInv, Connected

\* ... and one under way is alone, but for those who publish while it has room.
LEMMA DuringConnect ==
  ASSUME VectorInv, NEW q \in Connecting
  PROVE  /\ q \notin Connected /\ Connecting = {q} /\ q \in Queues
         /\ q \in Growing => Publishing = {}
         /\ connectPc[q] = "write" => Growing = {}
<1>1. q \notin Connected /\ Connecting = {q} /\ q \in Queues
  BY DEF VectorInv, OneConnects, Connecting, Growing, Connected, Typed
<1>2. q \in Growing => Publishing = {}
  BY DEF VectorInv, GrowsAlone
<1>3. connectPc[q] = "write" => Growing = {}
  BY <1>1 DEF Connecting, Growing
<1> QED BY <1>1, <1>2, <1>3

\* With room, push_back leaves the vector half connected, without room it
\* begins to grow.
LEMMA PushBackStep ==
  ASSUME overlaps = 0, overlaps' = 0, VectorInv, NEW q \in Queues, PushBack(q)
  PROVE  VectorInv'
<1>1. Vector(Connected) /\ Connecting = {} /\ Growing = {} /\ q \notin Connected
  BY BeforeConnect
<1>2. /\ UNCHANGED <<storage, freed, start, finish, limit, oldBlock, publishPc, index, base,
                     published, inbox, wild>>
      /\ finish # limit
      /\ myFinish' = [myFinish EXCEPT ![q] = finish]
      /\ connectPc' = [connectPc EXCEPT ![q] = "write"]
  BY DEF PushBack, Goto, vectorVars, publishVars
<1>3. Typed'
  BY <1>2 DEF VectorInv, Typed
<1>4. Connected' = Connected /\ Connecting' = {q} /\ Growing' = {}
  BY <1>1, <1>2 DEF Connected, Connecting, Growing, VectorInv, Typed
<1>5. \A S : Vector(S)' <=> Vector(S)
  BY <1>2 DEF Vector, Filled, Live
<1>6. HalfConnected'
  BY <1>1, <1>2, <1>4, <1>5 DEF HalfConnected, VectorInv, Typed, Connecting, Growing
<1>7. Loading'
  BY <1>2 DEF Loading, Publishing, VectorInv
<1>8. QED
  BY <1>1, <1>2, <1>3, <1>4, <1>5, <1>6, <1>7 DEF VectorInv, OneConnects, GrowsAlone

\* What WriteCell does: the cell written is the one beyond those in use.
LEMMA CellWritten ==
  ASSUME VectorInv, NEW q \in Queues, WriteCell(q)
  PROVE  LET b == start.block  n == finish.at
         IN /\ q \in Connecting /\ q \notin Connected /\ Connecting = {q} /\ Growing = {}
            /\ Filled(b, n, Connected) /\ start.at = 0 /\ start # Null /\ finish.block = b
            /\ limit = [block |-> b, at |-> Len(storage[b])]
            /\ b \in 1..Len(storage) /\ b \notin freed /\ n \in Nat /\ storage[b] \in Seq(Cells)
            /\ Len(storage[b]) \in Nat /\ n < Len(storage[b])
            /\ storage' \in Seq(Seq(Cells)) /\ Len(storage') = Len(storage)
            /\ Len(storage'[b]) = Len(storage[b]) /\ storage'[b][n + 1] = q
            /\ \A i \in 1..n : storage'[b][i] = storage[b][i]
            /\ finish' = [block |-> b, at |-> n + 1]
            /\ connectPc' = [connectPc EXCEPT ![q] = "done"]
            /\ UNCHANGED <<freed, start, limit, myFinish, oldBlock, publishPc, index, base,
                           published, inbox, wild>>
<1> DEFINE b == start.block  n == finish.at
<1>1. /\ Vector(Connected) /\ myFinish[q] = finish /\ finish # limit
      /\ q \in Connecting
  BY DEF WriteCell, VectorInv, HalfConnected, Connecting
<1>2. q \notin Connected /\ Connecting = {q} /\ Growing = {}
  BY <1>1, DuringConnect DEF WriteCell
<1>3. /\ Filled(b, n, Connected) /\ start.at = 0 /\ finish.block = b
      /\ limit = [block |-> b, at |-> Len(storage[b])]
  BY <1>1 DEF Vector
<1>4. /\ b \in 1..Len(storage) /\ b \notin freed /\ n \in Nat /\ storage[b] \in Seq(Cells)
      /\ Len(storage[b]) \in Nat /\ finish = [block |-> b, at |-> n]
  BY <1>3 DEF Filled, Live, VectorInv, Typed, Pointers
<1>5. n < Len(storage[b])
  BY <1>1, <1>3, <1>4 DEF Filled
<1>6. /\ storage' = [storage EXCEPT ![b][n + 1] = q]
      /\ finish' = [finish EXCEPT !.at = @ + 1]
      /\ connectPc' = [connectPc EXCEPT ![q] = "done"]
      /\ UNCHANGED <<freed, start, limit, myFinish, oldBlock, publishPc, index, base,
                     published, inbox, wild>>
  BY <1>1, <1>3, <1>4, <1>5 DEF WriteCell, Goto, myVars, publishVars
<1>7. finish' = [block |-> b, at |-> n + 1]
  BY <1>4, <1>6
<1>8. /\ Len(storage') = Len(storage) /\ Len(storage'[b]) = Len(storage[b])
      /\ storage'[b][n + 1] = q
      /\ \A i \in 1..n : storage'[b][i] = storage[b][i]
      /\ storage' \in Seq(Seq(Cells))
  <2>1. /\ storage' = [storage EXCEPT ![b] = [storage[b] EXCEPT ![n + 1] = q]]
        /\ [storage[b] EXCEPT ![n + 1] = q] \in Seq(Cells)
    BY <1>4, <1>5, <1>6 DEF Cells
  <2>2. n + 1 \in 1..Len(storage[b]) /\ storage \in Seq(Seq(Cells))
    BY <1>4, <1>5 DEF VectorInv, Typed
  <2>3. QED
    BY <2>1, <2>2, <1>4
<1>9. start # Null
  BY <1>4 DEF Null
<1>10. QED
  BY <1>1, <1>2, <1>3, <1>4, <1>5, <1>6, <1>7, <1>8, <1>9

\* The vector has one element more, and those who load from it go on.
LEMMA WriteCellStep ==
  ASSUME VectorInv, NEW q \in Queues, WriteCell(q)
  PROVE  VectorInv'
<1> DEFINE b == start.block  n == finish.at
<1>1. /\ q \notin Connected /\ Connecting = {q} /\ Growing = {}
      /\ Filled(b, n, Connected) /\ start.at = 0
      /\ limit = [block |-> b, at |-> Len(storage[b])]
  BY CellWritten
<1>2. /\ b \in 1..Len(storage) /\ b \notin freed /\ n \in Nat
      /\ Len(storage[b]) \in Nat /\ n < Len(storage[b])
  BY CellWritten
<1>3. /\ storage' \in Seq(Seq(Cells)) /\ Len(storage') = Len(storage)
      /\ Len(storage'[b]) = Len(storage[b]) /\ storage'[b][n + 1] = q
      /\ \A i \in 1..n : storage'[b][i] = storage[b][i]
  BY CellWritten
<1>4. /\ finish' = [block |-> b, at |-> n + 1]
      /\ connectPc' = [connectPc EXCEPT ![q] = "done"]
      /\ UNCHANGED <<freed, start, limit, myFinish, oldBlock, publishPc, index, base,
                     published, inbox, wild>>
  BY CellWritten
<1>5. Connected' = Connected \cup {q} /\ Connecting' = {} /\ Growing' = {}
  BY <1>1, <1>4 DEF Connected, Connecting, Growing, VectorInv, Typed
<1>6. Typed'
  <2>1. finish' \in Pointers
    BY <1>2, <1>4 DEF Pointers
  <2>2. connectPc' \in [Queues -> {"idle", "write", "start", "finish", "limit", "done"}]
    BY <1>4 DEF VectorInv, Typed
  <2>3. QED
    BY <1>3, <1>4, <2>1, <2>2 DEF VectorInv, Typed
<1>7. Filled(b, n, Connected)'
  <2>1. /\ (b \in Live)' /\ n + 1 \in 0..Len(storage'[b])
    BY <1>2, <1>3, <1>4 DEF Live
  <2>2. \A i \in 1..(n + 1) : i \in 1..n \/ i = n + 1
    BY <1>2
  <2>3. \A i \in 1..n : i \in 1..(n + 1)
    BY <1>2
  <2>4. /\ \A i \in 1..n : storage'[b][i] \in Connected
        /\ \A s \in Connected : \E i \in 1..n : storage'[b][i] = s
        /\ \A i, j \in 1..n : storage'[b][i] = storage'[b][j] => i = j
    BY <1>1, <1>3 DEF Filled
  <2>5. n + 1 \in 1..(n + 1)
    BY <1>2
  <2>6. /\ \A i \in 1..(n + 1) : storage'[b][i] \in Connected \cup {q}
        /\ \A s \in Connected \cup {q} : \E i \in 1..(n + 1) : storage'[b][i] = s
        /\ \A i, j \in 1..(n + 1) : storage'[b][i] = storage'[b][j] => i = j
    <3>1. q \notin Connected /\ storage'[b][n + 1] = q
      BY <1>1, <1>3
    <3> HIDE DEF b, n
    <3>2. QED
      BY <2>2, <2>3, <2>4, <2>5, <3>1
  <2>7. b' = b /\ n' = n + 1
    BY <1>4
  <2>8. QED
    BY <1>5, <2>1, <2>6, <2>7 DEF Filled
<1>8. Vector(Connected)'
  BY <1>1, <1>3, <1>4, <1>5, <1>7 DEF Vector
<1>9. Loading'
  <2>1. \A p \in Publishing : index[p] \in Nat /\ index[p] <= n
    BY DEF VectorInv, Typed, Loading, Publishing
  <2>2. finish'.at = n + 1 /\ Publishing' = Publishing
    BY <1>4 DEF Publishing
  <2> HIDE DEF n
  <2>3. \A p \in Publishing : index[p] <= n + 1 /\ (index[p] < n => index[p] < n + 1)
    BY <1>2, <2>1
  <2>4. QED
    BY <1>4, <2>2, <2>3 DEF VectorInv, Loading, n
<1>10. HalfConnected'
  BY <1>4, <1>5 DEF HalfConnected, Connecting, Growing
<1>11. QED
  BY <1>4, <1>5, <1>6, <1>8, <1>9, <1>10 DEF VectorInv, OneConnects, GrowsAlone

\* The block push_back fills when there is no room.
Extended(e, q) == Append(e, q) \o [i \in 1..(Len(e) - 1) |-> Junk]

\* A new block begins as a copy of the old one, with the new queue behind it.
LEMMA NewBlock ==
  ASSUME NEW e \in Seq(Cells), NEW q \in Queues
  PROVE  /\ Extended(e, q) \in Seq(Cells)
         /\ Len(e) + 1 <= Len(Extended(e, q))
         /\ \A i \in 1..Len(e) : Extended(e, q)[i] = e[i]
         /\ Extended(e, q)[Len(e) + 1] = q
<1> DEFINE a == Append(e, q)  room == [i \in 1..(Len(e) - 1) |-> Junk]
<1>1. a \in Seq(Cells) /\ Len(a) = Len(e) + 1
  BY DEF Cells
<1>2. room \in Seq(Cells)
  <2>1. CASE Len(e) = 0
    <3>1. 1..(Len(e) - 1) = 1..0
      BY <2>1
    <3>2. QED
      BY <3>1 DEF Cells
  <2>2. CASE Len(e) # 0
    <3>1. Len(e) - 1 \in Nat
      BY <2>2
    <3>2. QED
      BY <3>1 DEF Cells
  <2>3. QED
    BY <2>1, <2>2
<1>3. /\ a[Len(e) + 1] = q
      /\ \A i \in 1..Len(e) : a[i] = e[i]
  OBVIOUS
<1>4. Extended(e, q) = a \o room
  BY DEF Extended
<1> HIDE DEF a, room
<1>5. /\ a \o room \in Seq(Cells) /\ Len(room) \in Nat
      /\ Len(a \o room) = Len(a) + Len(room)
      /\ \A i \in 1..Len(a) : (a \o room)[i] = a[i]
  BY <1>1, <1>2
<1>6. Len(e) \in Nat /\ Len(e) + 1 \in 1..Len(a) /\ \A i \in 1..Len(e) : i \in 1..Len(a)
  BY <1>1
<1>7. QED
  BY <1>1, <1>3, <1>4, <1>5, <1>6

\* After the copy the old vector is gone and the new block complete.
LEMMA GrowStep ==
  ASSUME overlaps = 0, overlaps' = 0, VectorInv, NEW q \in Queues, Grow(q)
  PROVE  VectorInv'
<1> DEFINE n == Len(Elements)  new == Len(storage) + 1  c == Extended(Elements, q)
<1>1. /\ Vector(Connected) /\ Connecting = {} /\ Growing = {} /\ q \notin Connected
      /\ Publishing = {}
  BY BeforeConnect
<1>2. /\ Elements \in Seq(Cells) /\ n \in Nat
      /\ \A i \in 1..n : Elements[i] \in Connected
      /\ \A s \in Connected : \E i \in 1..n : Elements[i] = s
      /\ \A i, j \in 1..n : Elements[i] = Elements[j] => i = j
  <2>1. CASE start = Null
    <3>1. Elements = <<>> /\ Connected = {}
      BY <1>1, <2>1, ElementsOfVector DEF VectorInv
    <3>2. n = 0 /\ \A i \in 1..n : FALSE
      BY <3>1
    <3>3. QED
      BY <3>1, <3>2
  <2>2. CASE start # Null
    <3>1. /\ Elements \in Seq(Cells) /\ n = finish.at
          /\ \A i \in 1..n : Elements[i] = storage[start.block][i]
      BY <1>1, <2>2, ElementsOfVector DEF VectorInv
    <3>2. Filled(start.block, n, Connected)
      BY <1>1, <2>2, <3>1 DEF Vector
    <3>3. QED
      BY <3>1, <3>2 DEF Filled
  <2>3. QED
    BY <2>1, <2>2
<1>3. start.block = finish.block /\ start.block \notin freed
  BY <1>1 DEF Vector, Filled, Live, Null, VectorInv, Typed
<1>4. /\ storage' = Append(storage, c)
      /\ myFinish' = [myFinish EXCEPT ![q] = [block |-> new, at |-> n + 1]]
      /\ oldBlock' = [oldBlock EXCEPT ![q] = start.block]
      /\ connectPc' = [connectPc EXCEPT ![q] = "start"]
      /\ UNCHANGED <<freed, start, finish, limit, publishPc, index, base, published, inbox,
                     wild>>
  BY <1>3 DEF Grow, Goto, publishVars, Extended
<1>5. /\ c \in Seq(Cells) /\ n + 1 <= Len(c)
      /\ \A i \in 1..n : c[i] = Elements[i]
      /\ c[n + 1] = q
  BY <1>2, NewBlock
<1> HIDE DEF c, n
<1>6. /\ storage' \in Seq(Seq(Cells)) /\ Len(storage') = new /\ storage'[new] = c
      /\ \A b \in 1..Len(storage) : storage'[b] = storage[b]
      /\ Len(storage) \in Nat
  BY <1>4, <1>5 DEF VectorInv, Typed
<1>7. Connected' = Connected /\ Connecting' = {q} /\ Growing' = {q} /\ Publishing' = {}
  BY <1>1, <1>4 DEF Connected, Connecting, Growing, Publishing, VectorInv, Typed
<1>8. Typed'
  <2>1. freed' \in SUBSET (1..Len(storage'))
    BY <1>4, <1>6 DEF VectorInv, Typed
  <2>2. myFinish' \in [Queues -> Pointers] /\ oldBlock' \in [Queues -> Nat]
    BY <1>2, <1>4, <1>6 DEF VectorInv, Typed, Pointers
  <2>3. QED
    BY <1>4, <1>6, <2>1, <2>2 DEF VectorInv, Typed
<1>9. Vector(Connected)'
  <2>1. CASE start = Null /\ finish = Null /\ limit = Null /\ Connected = {}
    BY <1>4, <1>7, <2>1 DEF Vector
  <2>2. CASE start.block \in Live
    <3>1. /\ Vector(Connected) /\ start.block \in 1..Len(storage) /\ start.block \notin freed
          /\ start # Null
      BY <1>1, <2>2 DEF Live, Null
    <3>2. /\ storage'[start.block] = storage[start.block] /\ start.block \in 1..Len(storage')
          /\ UNCHANGED <<freed, start, finish, limit, Connected>>
      BY <1>4, <1>6, <1>7, <3>1
    <3>3. QED
      BY <3>1, <3>2 DEF Vector, Filled, Live
  <2>3. QED
    BY <1>1, <2>1, <2>2 DEF Vector, Filled
<1>10. start.block # new
  BY <1>1, <1>6 DEF Vector, Filled, Live, Null
<1>11. myFinish'[q] = [block |-> new, at |-> n + 1] /\ oldBlock'[q] = start.block
  BY <1>4 DEF VectorInv, Typed
<1>12. Grown(q)'
  <2>1. new \in 1..Len(storage') /\ new \notin freed' /\ n + 1 \in 0..Len(storage'[new])
    BY <1>2, <1>4, <1>5, <1>6 DEF VectorInv, Typed
  <2>2. \A i \in 1..(n + 1) : i \in 1..n \/ i = n + 1
    BY <1>2
  <2>3. n + 1 \in 1..(n + 1) /\ \A i \in 1..n : i \in 1..(n + 1)
    BY <1>2
  <2>4. /\ \A i \in 1..(n + 1) : c[i] \in Connected \cup {q}
        /\ \A s \in Connected \cup {q} : \E i \in 1..(n + 1) : c[i] = s
        /\ \A i, j \in 1..(n + 1) : c[i] = c[j] => i = j
    BY <1>1, <1>2, <1>5, <2>2, <2>3
  <2>5. myFinish'[q].block = new /\ myFinish'[q].at = n + 1
    BY <1>11
  <2> HIDE DEF new
  <2>6. QED
    BY <1>6, <1>7, <2>1, <2>4, <2>5 DEF Grown, Filled, Live
<1>13. HalfConnected'
  <2>1. ASSUME NEW r \in Queues, r # q PROVE connectPc'[r] \in {"idle", "done"}
    BY <1>1, <1>4, <2>1 DEF Connecting, Growing, VectorInv, Typed
  <2>2. connectPc'[q] = "start" /\ myFinish'[q].block # start'.block /\ start'.block = start.block
    BY <1>4, <1>10, <1>11 DEF VectorInv, Typed
  <2>3. QED
    BY <1>9, <1>11, <1>12, <2>1, <2>2 DEF HalfConnected
<1>14. QED
  BY <1>1, <1>4, <1>7, <1>8, <1>13
  DEF VectorInv, OneConnects, GrowsAlone, Loading

\* Storing the first pointer keeps the new block complete.
LEMMA SetStartStep ==
  ASSUME VectorInv, NEW q \in Queues, SetStart(q)
  PROVE  VectorInv'
<1>1. /\ Vector(Connected) /\ oldBlock[q] = start.block /\ Grown(q)
      /\ myFinish[q].block # start.block /\ q \in Connecting /\ q \in Growing
  BY DEF SetStart, VectorInv, HalfConnected, Connecting, Growing
<1>2. /\ q \notin Connected /\ Connecting = {q}
      /\ Publishing = {}
  BY <1>1, DuringConnect
<1>3. start.block \notin freed /\ start.block \in 0..Len(storage)
  BY <1>1 DEF Vector, Filled, Live, Null, VectorInv, Typed
<1>4. /\ freed' = freed \cup ({start.block} \ {0})
      /\ start' = [block |-> myFinish[q].block, at |-> 0]
      /\ connectPc' = [connectPc EXCEPT ![q] = "finish"]
      /\ UNCHANGED <<storage, finish, limit, myFinish, oldBlock, publishPc, index, base,
                     published, inbox, wild>>
  BY <1>1, <1>3 DEF SetStart, Goto, myVars, publishVars
<1>5. Typed'
  <2>1. myFinish[q] \in Pointers
    BY DEF VectorInv, Typed
  <2>2. start' \in Pointers
    BY <1>4, <2>1 DEF Pointers
  <2>3. freed \in SUBSET (1..Len(storage)) /\ Len(storage) \in Nat
    BY DEF VectorInv, Typed
  <2>4. freed' \in SUBSET (1..Len(storage))
    <3>1. start.block # 0 => start.block \in 1..Len(storage)
      BY <1>3, <2>3
    <3>2. QED
      BY <1>4, <2>3, <3>1
  <2>5. QED
    BY <1>4, <2>2, <2>4 DEF VectorInv, Typed
<1>6. Connected' = Connected /\ Connecting' = {q} /\ Growing' = {q} /\ Publishing' = {}
  BY <1>2, <1>4 DEF SetStart, Connected, Connecting, Growing, Publishing, VectorInv, Typed
<1>7. Grown(q)'
  BY <1>1, <1>4, <1>6 DEF Grown, Filled, Live
<1>8. HalfConnected'
  <2>1. ASSUME NEW r \in Queues, r # q PROVE connectPc'[r] \in {"idle", "done"}
    BY <1>2, <1>4, <2>1 DEF Connecting, Growing, VectorInv, Typed
  <2>2. connectPc'[q] = "finish" /\ start' = [block |-> myFinish'[q].block, at |-> 0]
    BY <1>4 DEF VectorInv, Typed
  <2>3. QED
    BY <1>7, <2>1, <2>2 DEF HalfConnected
<1>9. QED
  BY <1>2, <1>4, <1>5, <1>6, <1>8
  DEF VectorInv, OneConnects, GrowsAlone, Loading

\* Storing the second pointer keeps the new block complete.
LEMMA SetFinishStep ==
  ASSUME VectorInv, NEW q \in Queues, SetFinish(q)
  PROVE  VectorInv'
<1>1. /\ Grown(q) /\ start = [block |-> myFinish[q].block, at |-> 0] /\ q \in Connecting
      /\ q \in Growing
  BY DEF SetFinish, VectorInv, HalfConnected, Connecting, Growing
<1>2. /\ q \notin Connected /\ Connecting = {q}
      /\ Publishing = {}
  BY <1>1, DuringConnect
<1>3. /\ finish' = myFinish[q]
      /\ connectPc' = [connectPc EXCEPT ![q] = "limit"]
      /\ UNCHANGED <<storage, freed, start, limit, myFinish, oldBlock, publishPc, index, base,
                     published, inbox, wild>>
  BY DEF SetFinish, Goto, myVars, publishVars
<1>4. Typed'
  BY <1>3 DEF VectorInv, Typed
<1>5. Connected' = Connected /\ Connecting' = {q} /\ Growing' = {q} /\ Publishing' = {}
  BY <1>2, <1>3 DEF SetFinish, Connected, Connecting, Growing, Publishing, VectorInv, Typed
<1>6. Grown(q)'
  BY <1>1, <1>3, <1>5 DEF Grown, Filled, Live
<1>7. HalfConnected'
  <2>1. ASSUME NEW r \in Queues, r # q PROVE connectPc'[r] \in {"idle", "done"}
    BY <1>2, <1>3, <2>1 DEF Connecting, Growing, VectorInv, Typed
  <2>2. connectPc'[q] = "limit"
    BY <1>3 DEF VectorInv, Typed
  <2>3. QED
    BY <1>1, <1>3, <1>6, <2>1, <2>2 DEF HalfConnected
<1>8. QED
  BY <1>2, <1>3, <1>4, <1>5, <1>7
  DEF VectorInv, OneConnects, GrowsAlone, Loading

\* With the third pointer the vector is at rest again.
LEMMA SetLimitStep ==
  ASSUME VectorInv, NEW q \in Queues, SetLimit(q)
  PROVE  VectorInv'
<1>1. /\ Grown(q) /\ start = [block |-> myFinish[q].block, at |-> 0] /\ finish = myFinish[q]
      /\ q \in Connecting /\ q \in Growing
  BY DEF SetLimit, VectorInv, HalfConnected, Connecting, Growing
<1>2. /\ q \notin Connected /\ Connecting = {q}
      /\ Publishing = {}
  BY <1>1, DuringConnect
<1>3. /\ limit' = [myFinish[q] EXCEPT !.at = Len(storage[myFinish[q].block])]
      /\ connectPc' = [connectPc EXCEPT ![q] = "done"]
      /\ UNCHANGED <<storage, freed, start, finish, myFinish, oldBlock, publishPc, index, base,
                     published, inbox, wild>>
  BY DEF SetLimit, Goto, myVars, publishVars
<1>4. /\ limit' = [block |-> myFinish[q].block, at |-> Len(storage[myFinish[q].block])]
      /\ Len(storage[myFinish[q].block]) \in Nat /\ myFinish[q].block \in Nat
  <2>1. myFinish[q] \in [block : Nat, at : Nat]
    BY DEF VectorInv, Typed, Pointers
  <2>2. storage[myFinish[q].block] \in Seq(Cells)
    BY <1>1 DEF VectorInv, Typed, Grown, Filled, Live
  <2>3. QED
    BY <1>3, <2>1, <2>2
<1>5. Typed'
  <2>1. limit' \in Pointers
    BY <1>4 DEF Pointers
  <2>2. QED
    BY <1>3, <2>1 DEF VectorInv, Typed
<1>6. /\ Connected' = Connected \cup {q} /\ Connecting' = {} /\ Growing' = {}
      /\ Publishing' = {}
  BY <1>2, <1>3 DEF Connected, Connecting, Growing, Publishing, VectorInv, Typed
<1>7. Vector(Connected)'
  BY <1>1, <1>3, <1>4, <1>6 DEF Vector, Grown, Filled, Live
<1>8. QED
  BY <1>2, <1>3, <1>5, <1>6, <1>7
  DEF VectorInv, OneConnects, GrowsAlone, HalfConnected, Loading, Connecting, Growing

\* A publish that begins without overlap finds a vector that does not grow.
LEMMA CallPublishStep ==
  ASSUME overlaps = 0, overlaps' = 0, VectorInv, NEW p \in Publishers, CallPublish(p)
  PROVE  VectorInv'
<1>1. /\ Growing = {}
      /\ published' = [published EXCEPT ![p] = @ + 1]
      /\ index' = [index EXCEPT ![p] = 0]
      /\ publishPc' = [publishPc EXCEPT ![p] = "test"]
      /\ UNCHANGED <<storage, freed, start, finish, limit, connectPc, myFinish, oldBlock, base,
                     inbox, wild>>
  BY DEF CallPublish, Overlap, vectorVars, connectVars, myVars
<1>2. Typed'
  BY <1>1 DEF VectorInv, Typed
<1>3. Loading'
  <2>1. finish.at \in Nat /\ index'[p] = 0 /\ publishPc'[p] = "test"
    BY <1>1 DEF VectorInv, Typed, Pointers
  <2>2. \A r \in Publishers : r # p => publishPc'[r] = publishPc[r] /\ index'[r] = index[r]
    BY <1>1 DEF VectorInv, Typed
  <2>3. QED
    BY <1>1, <2>1, <2>2 DEF VectorInv, Loading, Publishing
<1>4. QED
  BY <1>1, <1>2, <1>3
  DEF VectorInv, Connecting, Growing, Connected, Vector, Filled, Live, OneConnects, GrowsAlone,
      HalfConnected, Grown

\* A thread inside publish meets a vector that does not grow.
LEMMA DuringPublish ==
  ASSUME VectorInv, NEW p \in Publishers, publishPc[p] # "idle"
  PROVE  /\ Growing = {} /\ Vector(Connected)
         /\ start.block = finish.block /\ start.at = 0 /\ finish.at \in Nat
         /\ index[p] \in Nat /\ index[p] <= finish.at
         /\ publishPc[p] = "load" => base[p] = start /\ index[p] < finish.at
<1>1. p \in Publishing
  BY DEF Publishing
<1>2. Growing = {}
  BY <1>1 DEF VectorInv, GrowsAlone
<1>3. Vector(Connected)
  BY <1>2 DEF VectorInv
<1>4. QED
  BY <1>1, <1>2, <1>3 DEF Vector, Null, VectorInv, Typed, Pointers, Loading

\* A step that leaves the vector alone leaves what is said of it alone.
LEMMA VectorKept ==
  ASSUME VectorInv, UNCHANGED <<vectorVars, connectVars, wild>>, Typed', Loading',
         Growing = {} \/ Publishing' = Publishing
  PROVE  VectorInv'
BY DEF VectorInv, vectorVars, connectVars, myVars, Connecting, Growing, Connected, Vector,
       Filled, Live, OneConnects, GrowsAlone, HalfConnected, Grown

\* The loop goes on to a cell in use or ends.
LEMMA TestSizeStep ==
  ASSUME VectorInv, NEW p \in Publishers, TestSize(p)
  PROVE  VectorInv'
<1>1. publishPc[p] = "test"
  BY DEF TestSize
<1>2. /\ start.block = finish.block /\ start.at = 0 /\ Growing = {}
      /\ finish.at \in Nat /\ index[p] \in Nat
  BY <1>1, DuringPublish
<1>3. /\ publishPc' = [publishPc EXCEPT ![p] = IF index[p] < finish.at THEN "load" ELSE "idle"]
      /\ base' = [base EXCEPT ![p] = start]
      /\ UNCHANGED <<storage, freed, start, finish, limit, connectPc, myFinish, oldBlock, index,
                     published, inbox, wild>>
  <2>1. finish.at - start.at = finish.at
    BY <1>2
  <2>2. BelowSize(index[p]) = {index[p] < finish.at}
    BY <1>2, <2>1 DEF BelowSize
  <2>3. QED
    BY <2>2 DEF TestSize, vectorVars, connectVars, myVars
<1>4. Typed'
  BY <1>3 DEF VectorInv, Typed
<1>5. Loading'
  <2>1. ASSUME NEW r \in Publishing', r # p
        PROVE  /\ index[r] <= finish.at
               /\ publishPc'[r] = "load" => base'[r] = start /\ index[r] < finish.at
    BY <1>3, <2>1 DEF VectorInv, Typed, Loading, Publishing
  <2>2. /\ index[p] <= finish.at /\ base'[p] = start
        /\ publishPc'[p] = "load" => index[p] < finish.at
    BY <1>1, <1>3, DuringPublish DEF VectorInv, Typed
  <2>3. QED
    BY <1>3, <2>1, <2>2 DEF Loading
<1>6. QED
  BY <1>2, <1>3, <1>4, <1>5, VectorKept DEF vectorVars, connectVars, myVars

\* A publisher that loads finds the queue at its index.
LEMMA CellFound ==
  ASSUME VectorInv, NEW p \in Publishers, publishPc[p] = "load"
  PROVE  /\ index[p] + 1 \in 1..finish.at
         /\ start # Null
         /\ storage[start.block][index[p] + 1] \in Queues
         /\ CellAt(base[p], index[p]) = {storage[start.block][index[p] + 1]}
<1>1. /\ Vector(Connected) /\ finish.at \in Nat /\ index[p] \in Nat
      /\ base[p] = start /\ index[p] < finish.at
  BY DuringPublish
<1>2. index[p] + 1 \in 1..finish.at /\ index[p] < finish.at
  BY <1>1
<1>3. Filled(start.block, finish.at, Connected)
  BY <1>1, <1>2 DEF Vector, Null
<1>4. /\ storage[start.block][index[p] + 1] \in Queues
      /\ storage[start.block][index[p] + 1] # Junk
  BY <1>2, <1>3, ConstantsAssumption DEF Filled, Connected
<1>5. start.block \in 1..Len(storage) \ freed /\ index[p] < Len(storage[start.block])
  BY <1>1, <1>2, <1>3 DEF Filled, Live, VectorInv, Typed
<1>6. QED
  BY <1>1, <1>2, <1>4, <1>5 DEF CellAt, Null

\* What PushElement does, since it finds a queue.
LEMMA PushFound ==
  ASSUME VectorInv, NEW p \in Publishers, PushElement(p)
  PROVE  LET q == storage[start.block][index[p] + 1]
         IN /\ q \in Queues
            /\ inbox' = [inbox EXCEPT ![q] = Append(@, <<p, published[p]>>)]
            /\ index' = [index EXCEPT ![p] = @ + 1]
            /\ publishPc' = [publishPc EXCEPT ![p] = "test"]
            /\ UNCHANGED <<vectorVars, connectVars, base, published, wild>>
<1> DEFINE q == storage[start.block][index[p] + 1]
<1>1. q \in Queues /\ CellAt(base[p], index[p]) = {q}
  BY CellFound DEF PushElement
<1> HIDE DEF q
<1>2. /\ inbox' = [inbox EXCEPT ![q] = Append(@, <<p, published[p]>>)]
      /\ index' = [index EXCEPT ![p] = @ + 1]
      /\ publishPc' = [publishPc EXCEPT ![p] = "test"]
      /\ UNCHANGED <<vectorVars, connectVars, base, published, wild>>
  BY <1>1 DEF PushElement
<1>3. QED
  BY <1>1, <1>2 DEF q

\* A push reads a cell in use.
LEMMA PushElementStep ==
  ASSUME VectorInv, NEW p \in Publishers, PushElement(p)
  PROVE  VectorInv'
<1>1. PICK q \in Queues :
        /\ inbox' = [inbox EXCEPT ![q] = Append(@, <<p, published[p]>>)]
        /\ index' = [index EXCEPT ![p] = @ + 1]
        /\ publishPc' = [publishPc EXCEPT ![p] = "test"]
        /\ UNCHANGED <<vectorVars, connectVars, base, published, wild>>
  BY PushFound
<1>2. /\ publishPc[p] = "load" /\ Growing = {}
      /\ finish.at \in Nat /\ index[p] \in Nat /\ index[p] < finish.at
  BY DuringPublish DEF PushElement
<1>3. Typed'
  <2>1. <<p, published[p]>> \in Publishers \X Nat
    BY DEF VectorInv, Typed
  <2>2. inbox' \in [Queues -> Seq(Publishers \X Nat)]
    BY <1>1, <2>1 DEF VectorInv, Typed
  <2>3. QED
    BY <1>1, <2>2 DEF VectorInv, Typed, vectorVars, connectVars, myVars
<1>4. Loading'
  <2>1. /\ index'[p] = index[p] + 1 /\ publishPc'[p] = "test"
        /\ start' = start /\ finish' = finish /\ base' = base
    BY <1>1 DEF VectorInv, Typed, vectorVars
  <2>2. \A r \in Publishers : r # p => publishPc'[r] = publishPc[r] /\ index'[r] = index[r]
    BY <1>1 DEF VectorInv, Typed
  <2>3. index[p] + 1 <= finish.at
    BY <1>2
  <2>4. QED
    BY <2>1, <2>2, <2>3 DEF VectorInv, Loading, Publishing
<1>5. QED
  BY <1>1, <1>2, <1>3, <1>4, VectorKept

\* The number of overlaps does not go down.
LEMMA OverlapsKept ==
  ASSUME overlaps \in Nat, [Next]_vars
  PROVE  overlaps' \in Nat /\ (overlaps' = 0 => overlaps = 0)
<1>1. \A others : Overlap(others) => overlaps' = overlaps \/ overlaps' = overlaps + 1
  BY DEF Overlap
<1>2. ASSUME NEW q \in Queues, Connect(q)
      PROVE  overlaps' = overlaps \/ overlaps' = overlaps + 1
  BY <1>1, <1>2 DEF Connect, PushBack, WriteCell, Grow, SetStart, SetFinish, SetLimit
<1>3. ASSUME NEW p \in Publishers, Publish(p)
      PROVE  overlaps' = overlaps \/ overlaps' = overlaps + 1
  BY <1>1, <1>3 DEF Publish, CallPublish, TestSize, PushElement
<1>4. overlaps' = overlaps \/ overlaps' = overlaps + 1
  BY <1>2, <1>3 DEF Next, vars
<1>5. QED
  BY <1>4

\* Up to the first overlap every step keeps VectorInv.
LEMMA StepKeepsVector ==
  ASSUME overlaps = 0, overlaps' = 0, VectorInv, [Next]_vars
  PROVE  VectorInv'
<1>1. ASSUME NEW q \in Queues, Connect(q) PROVE VectorInv'
  BY <1>1, PushBackStep, WriteCellStep, GrowStep, SetStartStep, SetFinishStep, SetLimitStep
  DEF Connect
<1>2. ASSUME NEW p \in Publishers, Publish(p) PROVE VectorInv'
  BY <1>2, CallPublishStep, TestSizeStep, PushElementStep DEF Publish
<1>3. CASE UNCHANGED vars
  <2>1. Typed' /\ Loading' /\ Publishing' = Publishing
    BY <1>3 DEF VectorInv, vars, vectorVars, connectVars, myVars, publishVars, Typed,
                Loading, Publishing
  <2>2. QED
    BY <1>3, <2>1, VectorKept DEF vars
<1>4. QED
  BY <1>1, <1>2, <1>3 DEF Next

-----------------------------------------------------------------------------
\* The inductive invariant: the vector is sound up to the first overlap.
SoundBefore == overlaps \in Nat /\ (overlaps = 0 => VectorInv)

LEMMA AlwaysSound == SafeSpec => []SoundBefore
<1>1. Init => SoundBefore
  BY InitVector DEF SoundBefore
<1>2. SoundBefore /\ [Next]_vars => SoundBefore'
  BY OverlapsKept, StepKeepsVector DEF SoundBefore
<1>3. QED
  BY <1>1, <1>2, PTL DEF SafeSpec

\* A thread follows a pointer that is not, or no longer, an element only after
\* two connects have overlapped, or a publish and a connect that found no room.
THEOREM WildAccessNeedsOverlap == SafeSpec => []WildOnlyByOverlap
<1>1. SoundBefore => WildOnlyByOverlap
  BY DEF SoundBefore, WildOnlyByOverlap, Overlapped, VectorInv
<1>2. QED
  BY AlwaysSound, <1>1, PTL

-----------------------------------------------------------------------------
\* The elements of a vector at rest are the queues connected, each once.
LEMMA ElementsAreConnected ==
  ASSUME VectorInv, Vector(Connected)
  PROVE  /\ Elements \in Seq(Cells)
         /\ \A i \in 1..Len(Elements) : Elements[i] \in Connected
         /\ \A s \in Connected : \E i \in 1..Len(Elements) : Elements[i] = s
         /\ \A i, j \in 1..Len(Elements) : Elements[i] = Elements[j] => i = j
         /\ Len(Elements) = finish.at
         /\ start # Null => \A i \in 1..finish.at : Elements[i] = storage[start.block][i]
<1>1. CASE start = Null
  <2>1. Elements = <<>> /\ Connected = {}
    BY <1>1, ElementsOfVector DEF VectorInv
  <2>2. \A i \in 1..Len(Elements) : FALSE
    BY <2>1
  <2>3. finish.at = 0
    BY <1>1 DEF Vector, Filled, Live, VectorInv, Typed, Null
  <2>4. QED
    BY <1>1, <2>1, <2>2, <2>3
<1>2. CASE start # Null
  <2>1. /\ Elements \in Seq(Cells) /\ Len(Elements) = finish.at
        /\ \A i \in 1..finish.at : Elements[i] = storage[start.block][i]
    BY <1>2, ElementsOfVector DEF VectorInv
  <2>2. Filled(start.block, finish.at, Connected)
    BY <1>2 DEF Vector
  <2>3. QED
    BY <1>2, <2>1, <2>2 DEF Filled
<1>3. QED
  BY <1>1, <1>2

\* A thread outside publish owes no queue anything.
LEMMA IdleOwesNothing ==
  ASSUME NEW p, publishPc[p] = "idle"
  PROVE  Owed(p) = {}
BY DEF Owed

\* Writing the cell connects the queue: those inside publish owe it the message.
LEMMA WriteIsConnect ==
  ASSUME VectorInv, NEW q \in Queues, WriteCell(q)
  PROVE  Promise!Connect(q)
<1> DEFINE b == start.block  n == finish.at
<1>1. /\ q \notin Connected /\ Growing = {} /\ start # Null /\ finish.block = b /\ n \in Nat
      /\ b \in 1..Len(storage) /\ Len(storage[b]) \in Nat /\ n < Len(storage[b])
  BY CellWritten
<1>2. /\ storage' \in Seq(Seq(Cells)) /\ Len(storage') = Len(storage)
      /\ Len(storage'[b]) = Len(storage[b]) /\ storage'[b][n + 1] = q
      /\ \A i \in 1..n : storage'[b][i] = storage[b][i]
  BY CellWritten
<1>3. /\ finish' = [block |-> b, at |-> n + 1] /\ start' = start
      /\ connectPc' = [connectPc EXCEPT ![q] = "done"]
      /\ UNCHANGED <<publishPc, index, published, inbox>>
  BY CellWritten
<1>4. Connected' = Connected \cup {q} /\ Publishing' = Publishing
  BY <1>1, <1>3 DEF Connected, Publishing, VectorInv, Typed
<1>5. Len(Elements) = n /\ \A i \in 1..n : Elements[i] = storage[b][i]
  <2>1. Vector(Connected)
    BY <1>1 DEF VectorInv
  <2>2. QED
    BY <1>1, <2>1, ElementsAreConnected
<1>6. Len(Elements') = n + 1 /\ Elements'[n + 1] = q /\ \A i \in 1..n : Elements'[i] = Elements[i]
  <2>1. Elements' = SubSeq(storage'[b], 1, n + 1)
    BY <1>1, <1>3 DEF Elements
  <2>2. storage'[b] \in Seq(Cells) /\ n + 1 <= Len(storage'[b])
    BY <1>1, <1>2
  <2> HIDE DEF n, b
  <2>3. /\ Len(Elements') = n + 1
        /\ \A i \in 1..(n + 1) : Elements'[i] = storage'[b][i]
    BY <1>1, <2>1, <2>2
  <2>4. n + 1 \in 1..(n + 1) /\ \A i \in 1..n : i \in 1..(n + 1)
    BY <1>1
  <2>5. QED
    BY <1>2, <1>5, <2>3, <2>4
<1>7. ASSUME NEW p \in Publishing PROVE Owed(p)' = Owed(p) \cup {q}
  <2>1. p \in Publishers /\ publishPc[p] # "idle" /\ publishPc'[p] # "idle" /\ index'[p] = index[p]
    BY <1>3 DEF Publishing
  <2>2. index[p] \in Nat /\ index[p] <= n
    BY <2>1, DuringPublish
  <2>3. /\ Owed(p) = {Elements[i] : i \in index[p] + 1 .. n}
        /\ Owed(p)' = {Elements'[i] : i \in index[p] + 1 .. n + 1}
    BY <1>5, <1>6, <2>1 DEF Owed
  <2> HIDE DEF n, b
  <2>4. /\ \A i \in index[p] + 1 .. n + 1 : i = n + 1 \/ i \in index[p] + 1 .. n
        /\ \A i \in index[p] + 1 .. n : i \in index[p] + 1 .. n + 1 /\ i \in 1..n
        /\ n + 1 \in index[p] + 1 .. n + 1
    BY <1>1, <2>2
  <2>5. QED
    BY <1>6, <2>3, <2>4
<1>8. \A p \in Publishers \ Publishing : Owed(p)' = Owed(p)
  BY <1>3 DEF Owed, Publishing
<1>9. [p \in Publishers |-> Owed(p)]' =
        [p \in Publishers |-> IF p \in Publishing THEN Owed(p) \cup {q} ELSE Owed(p)]
  BY <1>7, <1>8
<1>10. QED
  BY <1>3, <1>4, <1>9 DEF Promise!Connect

\* The other steps of connect connect a queue or nothing.
LEMMA ConnectIsConnect ==
  ASSUME overlaps = 0, overlaps' = 0, VectorInv, NEW q \in Queues, Connect(q)
  PROVE  [Promise!Next]_(Promise!vars)
<1>1. CASE WriteCell(q)
  BY <1>1, WriteIsConnect DEF Promise!Next
<1>2. CASE PushBack(q)
  <2>1. UNCHANGED <<storage, start, finish, publishPc, index, published, inbox>>
    BY <1>2 DEF PushBack, vectorVars, publishVars
  <2>2. Connected' = Connected
    BY <1>2 DEF PushBack, Goto, Connected, VectorInv, Typed
  <2>3. Publishing' = Publishing /\ \A p : Owed(p)' = Owed(p)
    BY <2>1 DEF Publishing, Owed, Elements
  <2>4. QED
    BY <2>1, <2>2, <2>3 DEF Promise!vars
<1>3. CASE Grow(q) \/ SetStart(q) \/ SetFinish(q) \/ SetLimit(q)
  <2>1. Publishing = {}
    <3>1. CASE Grow(q)
      BY <3>1, BeforeConnect
    <3>2. CASE ~Grow(q)
      <4>1. q \in Growing
        BY <1>3, <3>2 DEF SetStart, SetFinish, SetLimit, Growing
      <4>2. QED
        BY <4>1 DEF VectorInv, GrowsAlone
    <3>3. QED
      BY <3>1, <3>2
  <2>2. UNCHANGED <<inbox, published, publishPc>>
    BY <1>3 DEF Grow, SetStart, SetFinish, SetLimit, Wild, publishVars
  <2>3. Publishing' = {} /\ \A p \in Publishers : Owed(p) = {} /\ Owed(p)' = {}
    BY <2>1, <2>2 DEF Publishing, Owed
  <2>4. Connected' = Connected \/ Connected' = Connected \cup {q}
    BY <1>3 DEF Grow, SetStart, SetFinish, SetLimit, Wild, Goto, connectVars, Connected,
                VectorInv, Typed
  <2>5. CASE Connected' = Connected
    <3>1. UNCHANGED Promise!vars
      BY <2>1, <2>2, <2>3, <2>5 DEF Promise!vars
    <3>2. QED
      BY <3>1
  <2>6. CASE Connected' = Connected \cup {q}
    <3>1. [p \in Publishers |-> Owed(p)]' =
            [p \in Publishers |-> IF p \in {} THEN Owed(p) \cup {q} ELSE Owed(p)]
      BY <2>3
    <3>2. Promise!Connect(q)
      BY <2>1, <2>2, <2>3, <2>6, <3>1 DEF Promise!Connect
    <3>3. QED
      BY <3>2 DEF Promise!Next
  <2>7. QED
    BY <2>4, <2>5, <2>6
<1>4. QED
  BY <1>1, <1>2, <1>3 DEF Connect

\* A call of publish is a Publish: all queues connected are owed the message.
LEMMA CallIsPublish ==
  ASSUME overlaps = 0, overlaps' = 0, VectorInv, NEW p \in Publishers, CallPublish(p)
  PROVE  Promise!Publish(p)
<1>1. /\ publishPc[p] = "idle" /\ Growing = {} /\ published[p] < MaxMessages
      /\ published' = [published EXCEPT ![p] = @ + 1]
      /\ index' = [index EXCEPT ![p] = 0]
      /\ publishPc' = [publishPc EXCEPT ![p] = "test"]
      /\ UNCHANGED <<storage, start, finish, connectPc, inbox>>
  BY DEF CallPublish, Overlap, vectorVars, connectVars
<1>2. Elements' = Elements /\ Connected' = Connected
  BY <1>1 DEF Elements, Connected
<1>3. p \notin Publishing /\ Publishing' = Publishing \cup {p}
  BY <1>1 DEF Publishing, VectorInv, Typed
<1>4. Owed(p)' = Connected
  <2>1. Vector(Connected)
    BY <1>1 DEF VectorInv
  <2>2. Connected = {Elements[i] : i \in 1..Len(Elements)}
    BY <2>1, ElementsAreConnected
  <2>3. index'[p] + 1 = 1 /\ publishPc'[p] # "idle"
    BY <1>1 DEF VectorInv, Typed
  <2>4. QED
    BY <1>2, <2>2, <2>3 DEF Owed
<1>5. \A r \in Publishers : r # p => Owed(r)' = Owed(r)
  BY <1>1, <1>2 DEF Owed, VectorInv, Typed
<1>6. [r \in Publishers |-> Owed(r)]' = [[r \in Publishers |-> Owed(r)] EXCEPT ![p] = Connected]
  BY <1>4, <1>5
<1>7. QED
  BY <1>1, <1>2, <1>3, <1>6 DEF Promise!Publish

\* The test of the loop changes nothing, or ends it when nothing is owed.
LEMMA TestIsFinish ==
  ASSUME VectorInv, NEW p \in Publishers, TestSize(p)
  PROVE  Promise!Finish(p) \/ UNCHANGED Promise!vars
<1>1. publishPc[p] = "test"
  BY DEF TestSize
<1>2. /\ start.block = finish.block /\ start.at = 0 /\ finish.at \in Nat
      /\ Vector(Connected) /\ index[p] \in Nat
  BY <1>1, DuringPublish
<1>3. /\ publishPc' = [publishPc EXCEPT ![p] = IF index[p] < finish.at THEN "load" ELSE "idle"]
      /\ UNCHANGED <<storage, start, finish, connectPc, index, published, inbox>>
  <2>1. finish.at - start.at = finish.at
    BY <1>2
  <2>2. BelowSize(index[p]) = {index[p] < finish.at}
    BY <1>2, <2>1 DEF BelowSize
  <2>3. QED
    BY <2>2 DEF TestSize, vectorVars, connectVars
<1>4. Elements' = Elements /\ Connected' = Connected
  BY <1>3 DEF Elements, Connected
<1>5. \A r \in Publishers : r # p => Owed(r)' = Owed(r)
  BY <1>3, <1>4 DEF Owed, VectorInv, Typed
<1>6. CASE index[p] < finish.at
  <2>1. publishPc'[p] = "load"
    BY <1>3, <1>6 DEF VectorInv, Typed
  <2>2. Owed(p)' = Owed(p)
    BY <1>1, <1>3, <1>4, <2>1 DEF Owed
  <2>3. Publishing' = Publishing
    BY <1>1, <1>3, <2>1 DEF Publishing, VectorInv, Typed
  <2>4. [r \in Publishers |-> Owed(r)]' = [r \in Publishers |-> Owed(r)]
    BY <1>5, <2>2
  <2>5. QED
    BY <1>3, <1>4, <2>3, <2>4 DEF Promise!vars
<1>7. CASE ~(index[p] < finish.at)
  <2>1. publishPc'[p] = "idle"
    BY <1>3, <1>7 DEF VectorInv, Typed
  <2>2. \A i \in index[p] + 1 .. Len(Elements) : FALSE
    BY <1>2, <1>7, ElementsAreConnected
  <2>3. Owed(p) = {} /\ Owed(p)' = {}
    BY <2>1, <2>2 DEF Owed
  <2>4. p \in Publishing /\ Publishing' = Publishing \ {p}
    BY <1>1, <1>3, <2>1 DEF Publishing, VectorInv, Typed
  <2>5. [r \in Publishers |-> Owed(r)]' = [r \in Publishers |-> Owed(r)]
    BY <1>5, <2>3
  <2>6. QED
    BY <1>3, <1>4, <2>3, <2>4, <2>5 DEF Promise!Finish
<1>8. QED
  BY <1>6, <1>7

\* A push is a Deliver to a queue that is owed the message.
LEMMA PushIsDeliver ==
  ASSUME VectorInv, NEW p \in Publishers, PushElement(p)
  PROVE  \E q \in Queues : Promise!Deliver(p, q)
<1> DEFINE q == storage[start.block][index[p] + 1]
<1>1. publishPc[p] = "load" /\ index[p] + 1 \in 1..finish.at /\ index[p] \in Nat
  BY CellFound DEF PushElement, VectorInv, Typed
<1>2. /\ q \in Queues
      /\ inbox' = [inbox EXCEPT ![q] = Append(@, <<p, published[p]>>)]
      /\ index' = [index EXCEPT ![p] = @ + 1]
      /\ publishPc' = [publishPc EXCEPT ![p] = "test"]
      /\ UNCHANGED <<vectorVars, connectVars, published>>
  BY PushFound
<1>3. UNCHANGED <<storage, start, finish, connectPc, published>>
  BY <1>2 DEF vectorVars, connectVars
<1>4. Elements' = Elements /\ Connected' = Connected
  BY <1>3 DEF Elements, Connected
<1>5. /\ Elements \in Seq(Cells) /\ Len(Elements) = finish.at /\ Elements[index[p] + 1] = q
      /\ \A i, j \in 1..Len(Elements) : Elements[i] = Elements[j] => i = j
  <2>1. Vector(Connected) /\ start # Null
    BY <1>1, DuringPublish, CellFound
  <2>2. QED
    BY <1>1, <2>1, ElementsAreConnected
<1> HIDE DEF q
<1>6. Owed(p) = {Elements[i] : i \in index[p] + 1 .. Len(Elements)}
  BY <1>1 DEF Owed
<1>7. Owed(p)' = {Elements[i] : i \in index[p] + 2 .. Len(Elements)}
  <2>1. publishPc'[p] = "test" /\ index'[p] + 1 = index[p] + 2
    BY <1>1, <1>2 DEF VectorInv, Typed
  <2>2. QED
    BY <1>4, <2>1 DEF Owed
<1>8. q \in Owed(p) /\ Owed(p)' = Owed(p) \ {q}
  <2>1. /\ index[p] + 1 \in index[p] + 1 .. Len(Elements)
        /\ \A i \in index[p] + 1 .. Len(Elements) :
             i \in 1..Len(Elements) /\ (i = index[p] + 1 \/ i \in index[p] + 2 .. Len(Elements))
        /\ \A i \in index[p] + 2 .. Len(Elements) :
             i \in index[p] + 1 .. Len(Elements) /\ i # index[p] + 1
    BY <1>1, <1>5
  <2>2. QED
    BY <1>5, <1>6, <1>7, <2>1
<1>9. \A r \in Publishers : r # p => Owed(r)' = Owed(r)
  BY <1>2, <1>4 DEF Owed, VectorInv, Typed
<1>10. [r \in Publishers |-> Owed(r)]'
         = [[r \in Publishers |-> Owed(r)] EXCEPT ![p] = @ \ {q}]
  BY <1>8, <1>9
<1>11. q \in [r \in Publishers |-> Owed(r)][p]
  BY <1>8
<1>12. Publishing' = Publishing
  BY <1>1, <1>2 DEF Publishing, VectorInv, Typed
<1>13. Promise!Deliver(p, q)
  BY <1>2, <1>3, <1>4, <1>10, <1>11, <1>12 DEF Promise!Deliver
<1>14. QED
  BY <1>2, <1>13

\* Up to the first overlap every step is one of Broadcast or a stutter.
LEMMA StepOfBroadcast ==
  ASSUME overlaps = 0, overlaps' = 0, VectorInv, [Next]_vars
  PROVE  [Promise!Next]_(Promise!vars)
<1>1. ASSUME NEW q \in Queues, Connect(q) PROVE [Promise!Next]_(Promise!vars)
  BY <1>1, ConnectIsConnect
<1>2. ASSUME NEW p \in Publishers, Publish(p) PROVE [Promise!Next]_(Promise!vars)
  BY <1>2, CallIsPublish, TestIsFinish, PushIsDeliver DEF Publish, Promise!Next
<1>3. CASE UNCHANGED vars
  BY <1>3 DEF vars, vectorVars, connectVars, myVars, publishVars, Promise!vars, Connected,
              Publishing, Owed, Elements
<1>4. QED
  BY <1>1, <1>2, <1>3 DEF Next

\* The vector is a broadcast up to the first overlap: until then what the steps
\* of connect and publish do to the queues is what Broadcast allows.
THEOREM VectorIsBroadcast == SafeSpec => ImplementsBroadcast
<1>1. Init => Promise!Init
  BY DEF Init, Promise!Init, Connected, Publishing, Owed
<1>2. SoundBefore /\ SoundBefore' /\ [Next]_vars =>
        [Overlapped' \/ [Promise!Next]_(Promise!vars)]_vars
  <2> SUFFICES ASSUME SoundBefore, SoundBefore', [Next]_vars, ~Overlapped'
               PROVE  [Promise!Next]_(Promise!vars)
    OBVIOUS
  <2>1. overlaps' = 0 /\ overlaps = 0
    BY OverlapsKept DEF SoundBefore, Overlapped
  <2>2. QED
    BY <2>1, StepOfBroadcast DEF SoundBefore
<1>3. QED
  BY AlwaysSound, <1>1, <1>2, PTL DEF SafeSpec, ImplementsBroadcast
=============================================================================
