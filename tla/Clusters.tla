------------------------------ MODULE Clusters ------------------------------
(***************************************************************************)
(* Clusters of related readings, for the normalisation of a section and    *)
(* for what asks which readings are colocated.                             *)
(*                                                                         *)
(* The relations of the section are projected into a graph named 'related',*)
(* and its connected components are the clusters.  Projected graphs are    *)
(* kept in a catalogue of the database process: there is one graph of that *)
(* name for all requests, every step on it is seen at once, and it belongs *)
(* to no transaction, so that it stays when one is rolled back.            *)
(***************************************************************************)
EXTENDS Naturals, FiniteSets

CONSTANTS
  Client,   \* requests that may run at the same time
  Reading,  \* identities of readings
  Section,  \* identities of sections
  Home      \* the section of each reading

ASSUME ClustersAssumption == Section # {} /\ Home \in [Reading -> Section]

VARIABLES
  related,  \* pairs of readings that some relation joins
  graph,    \* the pairs in the projected graph, none when there is no graph
  req       \* the open request of each client, or Idle

vars == <<related, graph, req>>

Idle == <<>>
Purpose == {"normalise", "colocated"}
Step == {"look", "drop", "match", "project", "stream", "tidy", "check"}

\* Relations across sections are refused.
Link == {l \in SUBSET Reading : \E x, y \in l : x # y /\ l = {x, y} /\ Home[x] = Home[y]}

\* What is wanted and of which section, the pairs that are going to be
\* projected and the clusters that have been found.
Request == [step : Step, purpose : Purpose, section : Section,
            links : SUBSET Link, got : SUBSET SUBSET Reading]

At(c, step) == req[c] # Idle /\ req[c].step = step
Go(c, step) == req' = [req EXCEPT ![c].step = step]

\* Mutant: the relations of the whole database.
InsideAny(s) == related

\* The pairs with both ends in a section.
Inside(s) == {l \in related : \A x \in l : Home[x] = s}

\* The relations asked for.  Whatever the threshold of a normalisation, all
\* types of relations are below it; the names of the types of colocations are
\* put in quotes twice, and no relation has such a type.
Wanted(purpose, s) == IF purpose = "normalise" THEN Inside(s) ELSE {}

\* Connected components.  Each has two readings or more, as a projected graph
\* has no nodes but the ends of its links.
Closed(L, S)  == \A l \in L : l \cap S # {} => l \subseteq S
Cluster(L, x) == {y \in Reading : \A S \in SUBSET Reading : x \in S /\ Closed(L, S) => y \in S}
Clusters(L)   == {Cluster(L, x) : x \in UNION L}

-----------------------------------------------------------------------------
Init ==
  /\ related = {} /\ graph = {}
  /\ req = [c \in Client |-> Idle]

Ask(c) ==
  \E purpose \in Purpose, s \in Section :
    /\ req[c] = Idle
    /\ req' = [req EXCEPT ![c] = [step |-> "look", purpose |-> purpose, section |-> s,
                                  links |-> {}, got |-> {}]]
    /\ UNCHANGED <<related, graph>>

\* Mutant: a graph that is there already goes unnoticed.
FoundNone == FALSE

\* gds.graph.exists.
Found == graph # {}

Look(c) ==
  At(c, "look") /\ Go(c, IF Found THEN "drop" ELSE "match") /\ UNCHANGED <<related, graph>>

Drop(c) ==
  At(c, "drop") /\ graph # {} /\ graph' = {} /\ Go(c, "match") /\ UNCHANGED related

Match(c) ==
  /\ At(c, "match")
  /\ req' = [req EXCEPT ![c].step = "project", ![c].links = Wanted(req[c].purpose, req[c].section)]
  /\ UNCHANGED <<related, graph>>

\* gds.graph.project makes no graph when nothing has matched.
Project(c) ==
  /\ At(c, "project")
  /\ \/ req[c].links = {} /\ Go(c, "tidy") /\ UNCHANGED graph
     \/ req[c].links # {} /\ graph = {} /\ graph' = req[c].links /\ Go(c, "stream")
  /\ UNCHANGED related

\* gds.wcc.stream, on whatever graph has the name by now.
Stream(c) ==
  /\ At(c, "stream") /\ graph # {}
  /\ req' = [req EXCEPT ![c].step = "tidy", ![c].got = Clusters(graph)]
  /\ UNCHANGED <<related, graph>>

\* The last drop does not mind when there is nothing to drop.
Tidy(c) == At(c, "tidy") /\ graph' = {} /\ Go(c, "check") /\ UNCHANGED related

\* Mutant: a normalisation takes the clusters as they come.
OwnAnyway(c) == TRUE

\* A normalisation refuses readings that are not in its section.
Own(c) == req[c].purpose = "normalise" =>
            \A k \in req[c].got : \A x \in k : Home[x] = req[c].section

Answer(c) ==
  At(c, "check") /\ Own(c) /\ req' = [req EXCEPT ![c] = Idle] /\ UNCHANGED <<related, graph>>

\* What throws: to drop or to stream a graph that is not there, to project one
\* beside another, a foreign reading.
Failing(c) ==
  \/ At(c, "drop") /\ graph = {}
  \/ At(c, "project") /\ req[c].links # {} /\ graph # {}
  \/ At(c, "stream") /\ graph = {}
  \/ At(c, "check") /\ ~Own(c)

Refuse(c) == Failing(c) /\ req' = [req EXCEPT ![c] = Idle] /\ UNCHANGED <<related, graph>>

\* Any other error, which leaves the graph as well.
Abort(c) == req[c] # Idle /\ req' = [req EXCEPT ![c] = Idle] /\ UNCHANGED <<related, graph>>

\* The server stops: the catalogue is kept in memory.
Restart == graph' = {} /\ req' = [c \in Client |-> Idle] /\ UNCHANGED related

\* Relations are made and deleted by other requests.
Relate(l)   == l \notin related /\ related' = related \cup {l} /\ UNCHANGED <<graph, req>>
Unrelate(l) == l \in related /\ related' = related \ {l} /\ UNCHANGED <<graph, req>>

Next ==
  \/ \E c \in Client :
       \/ Ask(c) \/ Look(c) \/ Drop(c) \/ Match(c) \/ Project(c) \/ Stream(c) \/ Tidy(c)
       \/ Answer(c) \/ Refuse(c) \/ Abort(c)
  \/ Restart
  \/ \E l \in Link : Relate(l) \/ Unrelate(l)

Spec == Init /\ [][Next]_vars

=============================================================================
