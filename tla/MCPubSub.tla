----------------------------- MODULE MCPubSub ------------------------------
(***************************************************************************)
(* TLC instances of PubSub: one or two publishing threads, one or two      *)
(* topics, a buffer and an item.  MCFirst lets both through their prefix   *)
(* the first topic only, MCApart each its own topic.                       *)
(***************************************************************************)
EXTENDS PubSub, TLC

CONSTANTS c1, c2, t1, t2, b, x

MCOneClient == {c1}
MCTwoClients == {c1, c2}
MCOneTopic == {t1}
MCTwoTopics == {t1, t2}
MCBuffer == {b}
MCItem == {x}
MCNobody == {}
MCFirst == [o \in Output |-> {t1}]
MCApart == b :> {t1, t2} @@ x :> {t2}

=============================================================================
