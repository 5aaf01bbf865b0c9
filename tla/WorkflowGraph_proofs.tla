------------------------ MODULE WorkflowGraph_proofs ------------------------
(***************************************************************************)
(* Facts about the workflow graphs.                                        *)
(***************************************************************************)
EXTENDS WorkflowGraph, WellFoundedInduction, TLAPS

Below == {m \in Nat \X Nat : m[1] < m[2]}

\* Sets of edge positions have a first one, in graph order.
LEMMA LeastNumber ==
  ASSUME NEW ids \in SUBSET Nat, ids # {}
  PROVE  \E j \in ids : \A n \in ids : j <= n
<1>1. IsWellFoundedOn(Below, Nat)
  BY NatLessThanWellFounded DEF OpToRel, Below
<1>2. PICK j \in ids : \A n \in ids : <<n, j>> \notin Below
  BY <1>1, WFMin
<1>3. ASSUME NEW n \in ids
      PROVE  j <= n
  <2>1. <<n, j>> \notin Below
    BY <1>2
  <2> QED
    BY <2>1 DEF Below
<1> QED
  BY <1>3

\* The next edge followEdges visits is an edge of the graph.
LEMMA NextEdge ==
  ASSUME NEW r \in Run, NEW src, NEW kind, NEW event, NEW i,
         OutEdges(r, src, kind, event, i) # {}
  PROVE  (CHOOSE j \in OutEdges(r, src, kind, event, i) :
            \A n \in OutEdges(r, src, kind, event, i) : j <= n) \in EdgeIds(r)
<1> DEFINE ids == OutEdges(r, src, kind, event, i)
<1>1. ids \subseteq EdgeIds(r) /\ ids \in SUBSET Nat
  BY GraphAssumption DEF OutEdges
<1> QED
  BY <1>1, LeastNumber

\* The attributes of a node key.
LEMMA NodeParts ==
  ASSUME NEW r \in Run, NEW k \in Key(r)
  PROVE  /\ k \in NodeKey
         /\ Graph[r].node[k] \in NodeAttributes
         /\ TypeOf(r, k) \in NodeType
BY GraphAssumption DEF TypeOf, NodeAttributes, NodeKey

\* An edge joins nodes of its graph.
LEMMA EdgeParts ==
  ASSUME NEW r \in Run, NEW i \in EdgeIds(r)
  PROVE  /\ i \in Nat
         /\ Graph[r].edges[i].src \in Key(r) /\ Graph[r].edges[i].dst \in Key(r)
         /\ Graph[r].edges[i].kind \in EdgeKind
BY GraphAssumption
=============================================================================
