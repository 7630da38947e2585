----------------------------- MODULE AtspiTarget -----------------------------
(***************************************************************************)
(* AtspiTextBackend of host/injector.py: the accessible that receives a    *)
(* text.  A tree gives every node its parent (0 for the desktop itself)    *)
(* and what the node answers: whether it says it is focused, whether it    *)
(* says it is editable, its role, and whether queryEditableText succeeds.  *)
(* Nodes are numbered in the order findAllDescendants visits them.         *)
(***************************************************************************)
EXTENDS Integers, Sequences, FiniteSets

CONSTANTS
  Nodes,          \* numbers of the accessibles, the desktop first
  EditableRoles   \* roles (in alphabetical order) of EDITABLE_ROLE_NAMES

ASSUME NodesAssumption ==
  IsFiniteSet(Nodes) /\ Nodes = 1..Cardinality(Nodes)

\* A node is visited after its parent; the desktop itself is no editable text.
IsTree(t) ==
  /\ t \in [parent : [Nodes -> Nodes \cup {0}], role : [Nodes -> Nat],
            focused : [Nodes -> BOOLEAN], editable : [Nodes -> BOOLEAN],
            text : [Nodes -> BOOLEAN]]
  /\ \A x \in Nodes : t.parent[x] < x /\ (t.parent[x] = 0 => ~t.text[x])

\* _lineage: the node, its parent and so on up to the desktop.
Lineage(t, node) ==
  LET up[x \in Nodes] ==
        IF t.parent[x] = 0 THEN <<x>> ELSE <<x>> \o up[t.parent[x]]
  IN up[node]

Ancestors(t, node) ==
  {Lineage(t, node)[i] : i \in DOMAIN Lineage(t, node)}

Depth(t, node) == Len(Lineage(t, node)) - 1

No(flag) == IF flag THEN 0 ELSE 1

\* Python's order of tuples; a sort is stable, so the node number comes last.
Less(a, b) ==
  \E i \in DOMAIN a : a[i] < b[i] /\ \A j \in 1..i - 1 : a[j] = b[j]

\* _focus_anchor_sort_key
AnchorKey(t, x) ==
  <<No(t.editable[x]), No(t.role[x] \in EditableRoles), -Depth(t, x),
    t.role[x], x>>

\* _candidate_sort_key
CandidateKey(t, x) ==
  <<No(t.focused[x]), No(t.editable[x]), No(t.role[x] \in EditableRoles),
    t.role[x], x>>

\* _find_focused_accessible: 0 if nothing is focused.
Anchor(t) ==
  LET focused == {x \in Nodes : t.focused[x]}
  IN IF focused = {} THEN 0
     ELSE CHOOSE x \in focused :
            \A y \in focused \ {x} : Less(AnchorKey(t, x), AnchorKey(t, y))

\* The best of the candidates below a node, 0 if there is none.  Candidates
\* that are no editable text are passed over.
Below(t, node) ==
  LET texts == {x \in Nodes \ {node} : t.text[x] /\ node \in Ancestors(t, x)}
  IN IF texts = {} THEN 0
     ELSE CHOOSE x \in texts :
            \A y \in texts \ {x} : Less(CandidateKey(t, x), CandidateKey(t, y))

\* Faulty variant: the lineage is searched from the desktop down.
TargetFromTheTop(t) ==
  LET line == Lineage(t, Anchor(t))
      hits == {i \in DOMAIN line : Below(t, line[i]) # 0}
  IN IF Anchor(t) = 0 \/ hits = {} THEN 0
     ELSE Below(t, line[CHOOSE i \in hits : \A j \in hits : j <= i])

\* _focused_editable_text: first the focused node and its ancestors, then what
\* is below each of them; 0 if there is no editable text.
Target(t) ==
  LET line   == IF Anchor(t) = 0 THEN <<>> ELSE Lineage(t, Anchor(t))
      First(S) == CHOOSE i \in S : \A j \in S : i <= j
      direct == {i \in DOMAIN line : t.text[line[i]]}
      below  == {i \in DOMAIN line : Below(t, line[i]) # 0}
  IN CASE direct # {} -> line[First(direct)]
       [] direct = {} /\ below # {} -> Below(t, line[First(below)])
       [] OTHER -> 0

-----------------------------------------------------------------------------
\* The windows are the children of the desktop.
WindowOf(t, node) == {x \in Ancestors(t, node) : Depth(t, x) = 1}

\* The text goes to another window than the one that has the focus, although
\* that one has an editable text of its own.
Strays(t) ==
  /\ Target(t) # 0
  /\ WindowOf(t, Anchor(t)) # {}
  /\ WindowOf(t, Target(t)) # WindowOf(t, Anchor(t))
  /\ \E x \in Nodes : t.text[x] /\ WindowOf(t, x) = WindowOf(t, Anchor(t))
=============================================================================
