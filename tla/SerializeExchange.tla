------------------------- MODULE SerializeExchange -------------------------
(***************************************************************************)
(* A program puts elements into a Serialize object, in any order and any   *)
(* number of times, and sends its bytes now and then; a listener makes an  *)
(* object of the bytes, one element after the other.                       *)
(***************************************************************************)
EXTENDS Serialize

VARIABLES
  local,     \* the object of the sender
  sent,      \* local when its bytes were last sent
  received,  \* the object of the listener
  loaded     \* the elements the listener's constructor has gone through

exchangeVars == <<local, sent, received, loaded>>

ExchangeTypeOK ==
  /\ {local, sent, received} \subseteq Objects
  /\ loaded \in 0..ElementCount

InitExchange ==
  /\ local = NewObject /\ sent = NewObject
  /\ received = NewObject /\ loaded = ElementCount

SetElement(k, v) ==
  /\ local' = WithElement(local, k, v)
  /\ UNCHANGED <<sent, received, loaded>>

\* The bytes arrive and the listener's constructor begins.
SendTo ==
  /\ loaded = ElementCount
  /\ sent' = local
  /\ received' = Unnumbered(Bytes(local))
  /\ loaded' = 0
  /\ UNCHANGED local

LoadElement ==
  /\ loaded < ElementCount
  /\ received' = LoadedElement(received, loaded + 1)
  /\ loaded' = loaded + 1
  /\ UNCHANGED <<local, sent>>

NextExchange == (\E k \in Kinds, v \in Values : SetElement(k, v)) \/ SendTo \/ LoadElement

ExchangeSpec == InitExchange /\ [][NextExchange]_exchangeVars

-----------------------------------------------------------------------------
(***************************************************************************)
(* What the listener gets for each kind, the ones missing included, is     *)
(* what the sender would have got when it sent the bytes: although only    *)
(* the array is sent, and the listener numbers it from scratch.            *)
(***************************************************************************)
ReceivedAsSent ==
  loaded = ElementCount =>
    \A k \in Kinds : GetElement(received, k) = GetElement(sent, k)

(***************************************************************************)
(* A Serialize object is a map from kinds to values with room for so many  *)
(* kinds: what is put in is what comes out, until another kind does not    *)
(* fit, and that kind leaves the others as they are.                       *)
(***************************************************************************)
Map == INSTANCE ElementMap WITH
         elements <- [k \in Kinds |-> GetElement(local, k).data],
         room     <- IF local.nextFreeElement < ElementCount
                       THEN ElementCount - local.nextFreeElement ELSE 0

ImplementsElementMap == Map!Spec
=============================================================================
