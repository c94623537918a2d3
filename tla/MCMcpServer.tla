---------------------------- MODULE MCMcpServer ----------------------------
EXTENDS McpServer, TLC

CONSTANTS ann, bob, bobx, anns, bobs, c1, c2, c3, h1, h2, a1, diary, d1

\* Two names of one id, as "O'Brien" and "OBrien" are.
MCIdOf == (ann :> anns @@ bob :> bobs @@ bobx :> bobs)
\* A drawer that says of two people that each knows the other.
Knows(s, o) == [subject |-> s, predicate |-> "knows", object |-> o]
MCFactsOf == (d1 :> <<Knows(ann, bob), Knows(bobx, ann)>>)
MCClean == (ann :> ann @@ bob :> bob @@ bobx :> ann)
\* c1 and c2 begin alike.
MCHeadOf == (c1 :> h1 @@ c2 :> h1 @@ c3 :> h2)
MCDiaryOf == (a1 :> diary)

\* The graph and the drawers share nothing but the servers' idleness: each is
\* explored with the other at rest.
Apart == (filed = {} /\ sent = {} /\ second = 1 /\ \A s \in Servers : server[s] = Idle)
         \/ (triples = <<>> /\ today = 1 /\ committed = {} /\ \A i \in Ids : entities[i] = None)

Bound == Apart /\ Cardinality(sent) <= 2

Symmetries == Permutations(Servers)
=============================================================================
