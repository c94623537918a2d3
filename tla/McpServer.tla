----------------------------- MODULE McpServer -----------------------------
(***************************************************************************)
(* The tools of mcp/tools.go that write, and the count of a palace that    *)
(* mempalace_status gives, in servers that run side by side over one       *)
(* palace and one knowledge graph, as one is started per assistant. A      *)
(* server answers one request at a time. Of a drawer the model keeps what  *)
(* its id is made of, and its content; the write-ahead log of mcp/         *)
(* protocol.go is never read by the program and is left out.               *)
(***************************************************************************)
EXTENDS KnowledgeGraph

CONSTANTS
    Servers,
    Contents,       \* texts as sanitizeContent leaves them, none empty
    Heads,
    HeadOf,         \* the start of a text, as much of it as an id is made from
    Rooms,          \* wing and room as sanitizeWingRoom leaves them
    Agents,
    DiaryOf,        \* the wing of an agent's diary, in lower case with "_"
    Clean,          \* validateName, which takes characters out of names
    PageSize,       \* drawers per page, 5000
    LastSecond      \* bounds the clock

Places == Rooms \union {DiaryOf[a] : a \in Agents}

ASSUME McpAssumption ==
    /\ HeadOf \in [Contents -> Heads] /\ Clean \in [Names -> Names]
    /\ Rooms \cap {DiaryOf[a] : a \in Agents} = {}
    /\ DOMAIN DiaryOf = Agents
    /\ PageSize \in Nat \ {0} /\ LastSecond \in Nat \ {0}

VARIABLES
    filed,          \* the drawers the tools have written
    second,         \* the clock, as diary ids show it
    server,         \* the request each server is in the middle of
    acked,          \* history: drawers reported stored and not deleted since
    sent            \* history: drawers the tools have been asked to store

mcpVars == <<filed, second, server, acked, sent>>
allVars == <<kgVars, mcpVars>>

\* A drawer's id is made of its place, the start of its content and, in a
\* diary, the second it was written in.
Key == [place : Places, second : 0..LastSecond, head : Heads]
Entry == [key : Key, content : Contents]

\* quiet: nothing was written and no page failed since the count began.
Request ==
    [step : {"idle"}] \union [step : {"adding"}, entry : Entry]
      \union [step : {"counting", "counted"}, total : Nat, offset : Nat, quiet : BOOLEAN]
Idle == [step |-> "idle"]
IsFree(r) == r.step \in {"idle", "counted"}

McpTypeOK ==
    /\ KGTypeOK
    /\ filed \subseteq Entry /\ acked \subseteq Entry /\ sent \subseteq Entry
    /\ second \in 1..LastSecond
    /\ server \in [Servers -> Request]

McpInit ==
    /\ KGInit
    /\ filed = {} /\ acked = {} /\ sent = {}
    /\ second = 1
    /\ server = [s \in Servers |-> Idle]

-----------------------------------------------------------------------------
(* Drawers. *)

Note(place, c) ==
    [key |-> [place |-> place, second |-> 0, head |-> HeadOf[c]], content |-> c]
Page(agent, c) ==
    [key |-> [place |-> DiaryOf[agent], second |-> second, head |-> HeadOf[c]],
     content |-> c]

Has(key) == \E d \in filed : d.key = key
Upserted(e) == {d \in filed : d.key # e.key} \union {e}

\* Server s is left with r; a count another server is at is disturbed.
Disturb(s, r) ==
    server' = [t \in Servers |-> IF t = s THEN r
                                 ELSE IF server[t].step = "counting"
                                 THEN [server[t] EXCEPT !.quiet = FALSE]
                                 ELSE server[t]]

Ack(e) == acked' = acked \union {e}

\* Mutant: an error of the look-up is taken for a drawer that is there.
AddLookTrusts(s, place, c) ==
    LET e == Note(place, c)
    IN  /\ IsFree(server[s])
        /\ sent' = sent \union {e}
        /\ \/ /\ Ack(e) /\ UNCHANGED server
           \/ /\ ~Has(e.key)
              /\ server' = [server EXCEPT ![s] = [step |-> "adding", entry |-> e]]
              /\ UNCHANGED acked
        /\ UNCHANGED <<filed, second>>

\* mempalace_add_drawer looks whether the room has the id and reports success
\* if it has, whatever it holds. A look-up that fails, and a room of which not
\* all drawers were listed, count as not having it.
AddLook(s, place, c) ==
    LET e == Note(place, c)
    IN  /\ IsFree(server[s])
        /\ sent' = sent \union {e}
        /\ \/ /\ Has(e.key)
              /\ Ack(e) /\ UNCHANGED server
           \/ /\ server' = [server EXCEPT ![s] = [step |-> "adding", entry |-> e]]
              /\ UNCHANGED acked
        /\ UNCHANGED <<filed, second>>

\* It then stores the drawer, replacing one that came in between, or fails.
AddStore(s) ==
    /\ server[s].step = "adding"
    /\ LET e == server[s].entry
       IN  \/ /\ filed' = Upserted(e)
              /\ Ack(e)
              /\ Disturb(s, Idle)
           \/ /\ server' = [server EXCEPT ![s] = Idle]
              /\ UNCHANGED <<filed, acked>>
    /\ UNCHANGED <<second, sent>>

\* mempalace_delete_drawer.
DeleteDrawer(s, key) ==
    /\ IsFree(server[s]) /\ Has(key)
    /\ filed' = {d \in filed : d.key # key}
    /\ acked' = {a \in acked : a.key # key}
    /\ Disturb(s, Idle)
    /\ UNCHANGED <<second, sent>>

\* mempalace_diary_write does not look: an entry of the same agent, second and
\* start is replaced.
DiaryWrite(s, agent, c) ==
    LET e == Page(agent, c)
    IN  /\ IsFree(server[s])
        /\ filed' = Upserted(e)
        /\ Ack(e)
        /\ sent' = sent \union {e}
        /\ Disturb(s, Idle)
        /\ UNCHANGED second

NextSecond ==
    /\ second < LastSecond
    /\ second' = second + 1
    /\ UNCHANGED <<filed, server, acked, sent>>

\* A server is killed in the middle of a request.
ServerCrashes(s) ==
    /\ ~IsFree(server[s])
    /\ server' = [server EXCEPT ![s] = Idle]
    /\ UNCHANGED <<filed, second, acked, sent>>

-----------------------------------------------------------------------------
(* mempalace_status: Count, and then the drawers by pages. *)

StatusCount(s) ==
    /\ IsFree(server[s])
    /\ server' = [server EXCEPT ![s] = [step |-> "counting", total |-> Cardinality(filed),
                                        offset |-> 0, quiet |-> TRUE]]
    /\ UNCHANGED <<filed, second, acked, sent>>

Lesser(a, b) == IF a < b THEN a ELSE b
PageLen(offset) ==
    IF offset >= Cardinality(filed) THEN 0 ELSE Lesser(PageSize, Cardinality(filed) - offset)

\* Mutant: a full page is taken for the last one.
PageStopsEarly(s) ==
    /\ server[s].step = "counting"
    /\ LET n == PageLen(server[s].offset)
       IN  \/ server' = [server EXCEPT ![s].offset = @ + n,
                                       ![s].step = IF n <= PageSize THEN "counted" ELSE @]
           \/ server' = [server EXCEPT ![s].step = "counted", ![s].quiet = FALSE]
    /\ UNCHANGED <<filed, second, acked, sent>>

\* A page that is not full is the last one. One that fails ends the count too,
\* and nothing is said of it.
StatusPage(s) ==
    /\ server[s].step = "counting"
    /\ LET n == PageLen(server[s].offset)
       IN  \/ server' = [server EXCEPT ![s].offset = @ + n,
                                       ![s].step = IF n < PageSize THEN "counted" ELSE @]
           \/ server' = [server EXCEPT ![s].step = "counted", ![s].quiet = FALSE]
    /\ UNCHANGED <<filed, second, acked, sent>>

-----------------------------------------------------------------------------
(* The knowledge graph. *)

\* mempalace_kg_add cleans the names it is given; mempalace_kg_invalidate and
\* mempalace_kg_query take them as they are. Both report success.
KGAdd(subject, p, object, from) ==
    /\ AddTriple(Clean[subject], p, Clean[object], from, NoDate, None)
    /\ UNCHANGED <<today, committed, extracting, lost>>

KGInvalidate(subject, p, object, ended) ==
    /\ Invalidate(subject, p, object, ended)
    /\ UNCHANGED <<today, committed, extracting, lost>>

GraphTools ==
    /\ \E s \in Servers : IsFree(server[s])
    /\ \E subject, object \in Names, p \in Predicates, date \in {NoDate, today} :
         KGAdd(subject, p, object, date) \/ KGInvalidate(subject, p, object, date)

DrawerTools(s) ==
    \/ \E place \in Rooms, c \in Contents : AddLook(s, place, c)
    \/ AddStore(s)
    \/ \E d \in filed : DeleteDrawer(s, d.key)
    \/ \E agent \in Agents, c \in Contents : DiaryWrite(s, agent, c)
    \/ StatusCount(s) \/ StatusPage(s)

McpNext ==
    \/ /\ KGNext \/ GraphTools
       /\ UNCHANGED mcpVars
    \/ /\ NextSecond \/ \E s \in Servers : DrawerTools(s) \/ ServerCrashes(s)
       /\ UNCHANGED kgVars

McpSpec == McpInit /\ [][McpNext]_allVars

-----------------------------------------------------------------------------
(* Properties. *)

\* What a tool has reported stored, and no tool has deleted, is there whatever
\* the servers do to each other, and is what was sent unless a text of the same
\* place and start was sent too (tools.go:254-299, 488-519).
AckStands ==
    \A a \in acked : \E d \in filed :
        /\ d.key = a.key
        /\ d.content # a.content => \E e \in sent : e.key = a.key /\ e.content # a.content

\* The pages of a status add up to its total if no other server wrote meanwhile
\* and no page failed (tools.go:87-104, 662-684).
StatusAddsUp ==
    \A s \in Servers :
        server[s].step = "counted" /\ server[s].quiet => server[s].offset = server[s].total

\* What add_drawer reports stored is in the palace word for word ("File verbatim
\* content into the palace.", tools.go:928).
AckIsVerbatim == \A a \in acked : a.key.second = 0 => a \in filed
=============================================================================
