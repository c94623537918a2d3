------------------------------ MODULE PalaceGraph ------------------------------
(***************************************************************************)
(* The graph of a palace's rooms (internal/graph/graph.go): rooms are      *)
(* neighbours when drawers of both are in one wing, and Traverse walks it  *)
(* breadth first, over a map whose order differs from walk to walk.        *)
(***************************************************************************)
EXTENDS Integers, Sequences, FiniteSets, FiniteSetsExt, SequencesExt

CONSTANTS
    Rooms, Wings,
    WingMaps,       \* palaces: functions from rooms to the wings they are in
    General,        \* the room that is no node
    StartRoom,
    HopLimits,      \* the values of max_hops
    MaxResults

ASSUME GraphAssumption ==
    /\ General \in Rooms /\ IsFiniteSet(Rooms)
    /\ WingMaps \subseteq [Rooms -> SUBSET Wings]
    /\ HopLimits \subseteq Nat /\ MaxResults \in Nat \ {0}

VARIABLES
    wingsOf,        \* the wings each room has drawers in, one drawer in each
    maxHops,        \* neither changes
    hop,            \* of the rooms visited, where the results have them
    queue,          \* of <<room, depth>>
    shown           \* the results, once they are sorted and cut
graphVars == <<wingsOf, maxHops, hop, queue, shown>>

Visited == DOMAIN hop

GraphTypeOK ==
    /\ Visited \subseteq Rooms /\ \A r \in Visited : hop[r] \in 0..maxHops
    /\ queue \in Seq(Rooms \X (0..maxHops))
    /\ Range(shown) \subseteq Visited /\ Len(shown) <= MaxResults

-----------------------------------------------------------------------------
(* BuildGraph *)

Nodes == {r \in Rooms : r # General /\ wingsOf[r] # {}}
Count(r) == Cardinality(wingsOf[r])
Share(r, s) == wingsOf[r] \cap wingsOf[s] # {}

(* Traverse *)

\* Mutant: a room is found again from each of its neighbours.
UnvisitedAgain(r) == {s \in Nodes \ {r} : Share(r, s)}

Unvisited(r) == {s \in Nodes \ Visited : Share(r, s)}

IsFar(depth) == depth >= maxHops

\* The room at the head is taken and its new neighbours are queued, in the
\* order of the map, unless they are as far as the walk goes.
Visit ==
    /\ queue # <<>>
    /\ LET room == queue[1][1]
           depth == queue[1][2]
           new == IF IsFar(depth) THEN {} ELSE Unvisited(room)
       IN  /\ hop' = [r \in Visited \cup new |-> IF r \in new THEN depth + 1 ELSE hop[r]]
           /\ \E order \in SetToSeqs(new) :
                queue' = Tail(queue) \o IF depth + 1 < maxHops
                                          THEN [i \in DOMAIN order |-> <<order[i], depth + 1>>]
                                          ELSE <<>>
    /\ UNCHANGED <<wingsOf, maxHops, shown>>

\* By hop, then by drawers; rooms that are equal in both come in any order.
ComesBefore(r, s) == hop[r] < hop[s] \/ (hop[r] = hop[s] /\ Count(r) > Count(s))

Show ==
    /\ queue = <<>> /\ Visited # {} /\ shown = <<>>
    /\ \E order \in SetToSeqs(Visited) :
         /\ \A i, j \in DOMAIN order : i < j => ~ComesBefore(order[j], order[i])
         /\ shown' = SubSeq(order, 1, Min({Len(order), MaxResults}))
    /\ UNCHANGED <<wingsOf, maxHops, hop, queue>>

\* A start that is no node is an error, and nothing is visited.
GraphInit ==
    /\ wingsOf \in WingMaps /\ maxHops \in HopLimits
    /\ hop = [r \in {StartRoom} \cap Nodes |-> 0]
    /\ queue = IF StartRoom \in Nodes THEN <<<<StartRoom, 0>>>> ELSE <<>>
    /\ shown = <<>>

GraphNext == Visit \/ Show

GraphSpec == GraphInit /\ [][GraphNext]_graphVars

-----------------------------------------------------------------------------
(* Properties. *)

\* The rooms that can be reached from the start in k hops or fewer.
Ball(k) ==
    LET ball[n \in 0..k] ==
            IF n = 0 THEN {StartRoom}
            ELSE {s \in Nodes : \E r \in ball[n - 1] : Share(r, s)}
    IN  ball[k]

\* A walk visits the rooms that are within maxHops, and hop is the fewest hops
\* there are to each, whatever the order the map gives its rooms in.
HopsAreShortest ==
    queue = <<>> /\ Visited # {} =>
        /\ Visited = Ball(maxHops)
        /\ \A r \in Visited : r \in Ball(hop[r]) /\ \A k \in 0..(hop[r] - 1) : r \notin Ball(k)

\* What is cut off is never nearer than what is shown, and the start is shown.
NearestAreShown ==
    shown # <<>> =>
        /\ shown[1] = StartRoom
        /\ \A r \in Visited \ Range(shown), i \in DOMAIN shown : hop[shown[i]] <= hop[r]

\* A walk goes by distance, and so does what is shown of it (graph.go:151-225).
WalkGoesByDistance == GraphTypeOK /\ HopsAreShortest /\ NearestAreShown
=============================================================================
