------------------------- MODULE MCGroupMembership -------------------------
(***************************************************************************)
(* Instances of GroupMembership for TLC: two nodes, a user with a device   *)
(* on each and one with a device on the second, a group named "room" and   *)
(* one whose name is the text of a conversation id that is drawn.          *)
(***************************************************************************)
EXTENDS GroupMembership, TLC

CONSTANTS n1, n2, alice, bob, c1, c2, c3, general, room, copy, id1, id2

MCUserOf == [c \in Conns |-> IF c = c3 THEN bob ELSE alice]

MCNodeOf == [c \in Conns |-> IF c = c1 THEN n1 ELSE n2]

MCParse == [g \in Groups |-> IF g = copy THEN id1 ELSE NoConv]

\* Nodes may be swapped together with their connections and users.
Swaps == {f \in Permutations(Nodes \cup Users \cup Conns) :
            \A c \in Conns : f[c] \in Conns /\ UserOf[f[c]] = f[UserOf[c]] /\ NodeOf[f[c]] = f[NodeOf[c]]}
=============================================================================
