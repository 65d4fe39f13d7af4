--------------------------- MODULE ClustersProofs ---------------------------
(***************************************************************************)
(* A normalisation gets recent clusters of its own section, and a request  *)
(* that is alone does not fail, whatever is left in the catalogue.         *)
(***************************************************************************)
EXTENDS ClustersProps, TLAPS

\* All pairs of L are in a section.
In(L, s) == \A l \in L : \A x \in l : Home[x] = s

\* A component of pairs in a section is in that section.
LEMMA ComponentsStay ==
  ASSUME NEW L \in SUBSET Link, NEW s, In(L, s)
  PROVE  \A k \in Clusters(L) : \A x \in k : Home[x] = s
<1> SUFFICES ASSUME NEW z \in UNION L, NEW x \in Cluster(L, z) PROVE Home[x] = s
  BY DEF Clusters
<1> DEFINE S == {y \in Reading : Home[y] = s}
<1>1. L \subseteq SUBSET Reading
  BY DEF Link
<1>2. z \in S /\ Closed(L, S)
  BY <1>1 DEF In, Closed
<1>3. QED BY <1>2 DEF Cluster

\* Each pair is in a component.
LEMMA PairsCovered ==
  ASSUME NEW L \in SUBSET Link, NEW s,
         \A k \in Clusters(L) : \A x \in k : Home[x] = s
  PROVE  In(L, s)
<1> SUFFICES ASSUME NEW l \in L, NEW x \in l PROVE Home[x] = s
  BY DEF In
<1>1. x \in Reading
  BY DEF Link
<1>2. x \in Cluster(L, x)
  BY <1>1 DEF Cluster
<1>3. Cluster(L, x) \in Clusters(L)
  BY DEF Clusters
<1>4. QED BY <1>2, <1>3

-----------------------------------------------------------------------------
(* Types. *)

LEMMA TInit == Init => TypeOK
BY ClustersAssumption DEF Init, TypeOK, Idle

\* What may change about one request.
LEMMA TRequest ==
  ASSUME TypeOK, NEW c \in Client, NEW r \in Request, req' = [req EXCEPT ![c] = r],
         In(r.links, r.section)
  PROVE  /\ req' \in [Client -> Request \cup {Idle}]
         /\ \A d \in Client : req'[d] # Idle => In(req'[d].links, req'[d].section)
BY DEF TypeOK, In

LEMMA TStep ==
  ASSUME TypeOK, NEW c \in Client, NEW step \in Step, req[c] # Idle, Go(c, step)
  PROVE  /\ req' \in [Client -> Request \cup {Idle}]
         /\ \A d \in Client : req'[d] # Idle => In(req'[d].links, req'[d].section)
<1> DEFINE r == [req[c] EXCEPT !.step = step]
<1>1. r \in Request /\ r.links = req[c].links /\ r.section = req[c].section
  BY DEF TypeOK, Request
<1>2. req' = [req EXCEPT ![c] = r]
  BY DEF Go
<1>3. In(r.links, r.section)
  BY <1>1 DEF TypeOK, In
<1> HIDE DEF r
<1>4. QED BY <1>1, <1>2, <1>3, TRequest

LEMMA TClosed ==
  ASSUME TypeOK, NEW c \in Client, req' = [req EXCEPT ![c] = Idle]
  PROVE  /\ req' \in [Client -> Request \cup {Idle}]
         /\ \A d \in Client : req'[d] # Idle => In(req'[d].links, req'[d].section)
BY DEF TypeOK, In

LEMMA TNext == TypeOK /\ [Next]_vars => TypeOK'
<1> SUFFICES ASSUME TypeOK, [Next]_vars PROVE TypeOK'
  OBVIOUS
<1> DEFINE G == /\ related' \subseteq Link /\ graph' \subseteq Link
                /\ \E s \in Section : In(graph', s)
           R == /\ req' \in [Client -> Request \cup {Idle}]
                /\ \A d \in Client : req'[d] # Idle => In(req'[d].links, req'[d].section)
<1>1. SUFFICES G /\ R
  BY DEF TypeOK, In
<1>2. ASSUME UNCHANGED <<related, graph>> PROVE G
  BY <1>2 DEF TypeOK, In
<1>3. ASSUME UNCHANGED related, graph' = {} PROVE G
  BY <1>3, ClustersAssumption DEF TypeOK, In
<1>4. CASE UNCHANGED vars
  <2>1. R
    BY <1>4 DEF TypeOK, In, vars
  <2>2. QED BY <1>2, <1>4, <2>1 DEF vars
<1>5. ASSUME NEW c \in Client, Ask(c) PROVE G /\ R
  <2>1. PICK purpose \in Purpose, s \in Section :
          req' = [req EXCEPT ![c] = [step |-> "look", purpose |-> purpose, section |-> s,
                                     links |-> {}, got |-> {}]]
    BY <1>5 DEF Ask
  <2> DEFINE r == [step |-> "look", purpose |-> purpose, section |-> s, links |-> {}, got |-> {}]
  <2>2. r \in Request /\ In(r.links, r.section)
    BY DEF Request, Step, In
  <2> HIDE DEF r
  <2>3. R
    BY <2>1, <2>2, TRequest DEF r
  <2>4. QED BY <1>2, <1>5, <2>3 DEF Ask
<1>6. ASSUME NEW c \in Client, Look(c) PROVE G /\ R
  <2>1. req[c] # Idle /\ (Go(c, "drop") \/ Go(c, "match"))
    BY <1>6 DEF Look, At
  <2>2. R
    BY <2>1, TStep DEF Step
  <2>3. QED BY <1>2, <1>6, <2>2 DEF Look
<1>7. ASSUME NEW c \in Client, Drop(c) PROVE G /\ R
  <2>1. R
    BY <1>7, TStep DEF Step, Drop, At
  <2>2. QED BY <1>3, <1>7, <2>1 DEF Drop
<1>8. ASSUME NEW c \in Client, Match(c) PROVE G /\ R
  <2> DEFINE r == [req[c] EXCEPT !.step = "project", !.links = Wanted(req[c].purpose, req[c].section)]
  <2>1. req[c] \in Request /\ req' = [req EXCEPT ![c] = r]
    BY <1>8 DEF TypeOK, Match, At
  <2>2. Wanted(req[c].purpose, req[c].section) \in SUBSET Link
    BY DEF Wanted, Inside, TypeOK
  <2>3. r \in Request /\ r.links = Wanted(req[c].purpose, req[c].section) /\ r.section = req[c].section
    BY <2>1, <2>2 DEF Request, Step
  <2>4. In(r.links, r.section)
    BY <2>3 DEF Wanted, Inside, In
  <2> HIDE DEF r
  <2>5. R
    BY <2>1, <2>3, <2>4, TRequest
  <2>6. QED BY <1>2, <1>8, <2>5 DEF Match
<1>9. ASSUME NEW c \in Client, Project(c) PROVE G /\ R
  <2>1. req[c] # Idle /\ (Go(c, "tidy") \/ Go(c, "stream"))
    BY <1>9 DEF Project, At
  <2>2. R
    BY <2>1, TStep DEF Step
  <2>3. req[c] \in Request
    BY <2>1 DEF TypeOK
  <2>4. req[c].links \subseteq Link /\ req[c].section \in Section /\ In(req[c].links, req[c].section)
    BY <2>1, <2>3 DEF TypeOK, In, Request
  <2>5. CASE UNCHANGED graph
    BY <1>2, <1>9, <2>2, <2>5 DEF Project
  <2>6. CASE graph' = req[c].links
    BY <1>9, <2>2, <2>4, <2>6 DEF Project, TypeOK
  <2>7. QED BY <1>9, <2>5, <2>6 DEF Project
<1>10. ASSUME NEW c \in Client, Stream(c) PROVE G /\ R
  <2> DEFINE r == [req[c] EXCEPT !.step = "tidy", !.got = Clusters(graph)]
  <2>1. req[c] \in Request /\ req' = [req EXCEPT ![c] = r]
    BY <1>10 DEF TypeOK, Stream, At
  <2>2. Clusters(graph) \in SUBSET SUBSET Reading
    BY DEF Clusters, Cluster
  <2>3. r \in Request /\ r.links = req[c].links /\ r.section = req[c].section
    BY <2>1, <2>2 DEF Request, Step
  <2>4. In(r.links, r.section)
    BY <1>10, <2>3 DEF In, TypeOK, Stream, At
  <2> HIDE DEF r
  <2>5. R
    BY <2>1, <2>3, <2>4, TRequest
  <2>6. QED BY <1>2, <1>10, <2>5 DEF Stream
<1>11. ASSUME NEW c \in Client, Tidy(c) PROVE G /\ R
  <2>1. R
    BY <1>11, TStep DEF Step, Tidy, At
  <2>2. QED BY <1>3, <1>11, <2>1 DEF Tidy
<1>12. ASSUME NEW c \in Client, Answer(c) \/ Refuse(c) \/ Abort(c) PROVE G /\ R
  <2>1. req' = [req EXCEPT ![c] = Idle] /\ UNCHANGED <<related, graph>>
    BY <1>12 DEF Answer, Refuse, Abort
  <2>2. QED BY <1>2, <2>1, TClosed
<1>13. CASE Restart
  <2>1. R
    BY <1>13 DEF Restart
  <2>2. QED BY <1>3, <1>13, <2>1 DEF Restart
<1>14. ASSUME NEW l \in Link, Relate(l) \/ Unrelate(l) PROVE G /\ R
  <2>1. UNCHANGED <<graph, req>> /\ related' \subseteq Link
    BY <1>14 DEF Relate, Unrelate, TypeOK
  <2>2. QED BY <2>1 DEF TypeOK, In
<1>15. QED
  BY <1>4, <1>5, <1>6, <1>7, <1>8, <1>9, <1>10, <1>11, <1>12, <1>13, <1>14 DEF Next

\* However many requests run beside each other, no graph joins readings of two
\* sections, nor does what a request has matched.
THEOREM TypeCorrect == HSpec => []TypeOK
<1>1. HInit => TypeOK
  BY TInit DEF HInit
<1>2. TypeOK /\ [HNext]_<<vars, history>> => TypeOK'
  BY TNext DEF HNext, vars, history
<1>3. QED BY <1>1, <1>2, PTL DEF HSpec

-----------------------------------------------------------------------------
(* What a step does to the request of a client that stays open.            *)

Same(c) == req'[c].links = req[c].links /\ req'[c].got = req[c].got

Moves(c) ==
  /\ req[c] # Idle
  /\ req'[c].purpose = req[c].purpose /\ req'[c].section = req[c].section
  /\ \/ /\ req[c].step = "look" /\ Same(c) /\ graph' = graph
        /\ \/ req'[c].step = "drop" /\ graph # {}
           \/ req'[c].step = "match" /\ graph = {}
     \/ req[c].step = "drop" /\ Same(c) /\ graph' = {} /\ req'[c].step = "match"
     \/ /\ req[c].step = "match" /\ req'[c].step = "project" /\ UNCHANGED <<related, graph>>
        /\ req'[c].links = Wanted(req[c].purpose, req[c].section) /\ req'[c].got = req[c].got
     \/ /\ req[c].step = "project" /\ Same(c)
        /\ \/ req[c].links = {} /\ graph' = graph /\ req'[c].step = "tidy"
           \/ req[c].links # {} /\ graph' = req[c].links /\ req'[c].step = "stream"
     \/ /\ req[c].step = "stream" /\ req'[c].step = "tidy" /\ graph # {} /\ graph' = graph
        /\ req'[c].links = req[c].links /\ req'[c].got = Clusters(graph)
     \/ req[c].step = "tidy" /\ Same(c) /\ graph' = {} /\ req'[c].step = "check"

Asks(c) ==
  /\ req[c] = Idle /\ UNCHANGED <<related, graph>>
  /\ req'[c].step = "look" /\ req'[c].links = {} /\ req'[c].got = {}

LEMMA Moved ==
  ASSUME TypeOK, [Next]_vars, NEW c \in Client, req'[c] # Idle
  PROVE  req'[c] = req[c] \/ Asks(c) \/ Moves(c)
<1>1. \/ req'[c] = req[c]
      \/ Ask(c) \/ Look(c) \/ Drop(c) \/ Match(c) \/ Project(c) \/ Stream(c) \/ Tidy(c)
  <2>1. CASE UNCHANGED vars \/ Restart \/ \E l \in Link : Relate(l) \/ Unrelate(l)
    BY <2>1 DEF vars, Restart, Relate, Unrelate
  <2>2. ASSUME NEW e \in Client, e # c,
               \/ Ask(e) \/ Look(e) \/ Drop(e) \/ Match(e) \/ Project(e) \/ Stream(e) \/ Tidy(e)
               \/ Answer(e) \/ Refuse(e) \/ Abort(e)
        PROVE  req'[c] = req[c]
    BY <2>2 DEF TypeOK, Ask, Look, Drop, Match, Project, Stream, Tidy, Answer, Refuse, Abort, Go
  <2>3. CASE Answer(c) \/ Refuse(c) \/ Abort(c)
    BY <2>3 DEF Answer, Refuse, Abort, TypeOK
  <2>4. QED BY <2>1, <2>2, <2>3 DEF Next
<1>2. CASE Ask(c)
  BY <1>2 DEF Ask, Asks, TypeOK
<1>3. ASSUME req[c] # Idle PROVE req[c] \in Request
  BY <1>3 DEF TypeOK
<1>4. CASE Look(c)
  BY <1>3, <1>4 DEF Look, At, Go, Found, Moves, Same, TypeOK, Request
<1>5. CASE Drop(c)
  BY <1>3, <1>5 DEF Drop, At, Go, Moves, Same, TypeOK, Request
<1>6. CASE Match(c)
  BY <1>3, <1>6 DEF Match, At, Moves, TypeOK, Request
<1>7. CASE Project(c)
  BY <1>3, <1>7 DEF Project, At, Go, Moves, Same, TypeOK, Request
<1>8. CASE Stream(c)
  BY <1>3, <1>8 DEF Stream, At, Moves, TypeOK, Request
<1>9. CASE Tidy(c)
  BY <1>3, <1>9 DEF Tidy, At, Go, Moves, Same, TypeOK, Request
<1>10. QED BY <1>1, <1>2, <1>4, <1>5, <1>6, <1>7, <1>8, <1>9

\* The graph that a step of nobody else makes.
LEMMA Graphed ==
  ASSUME TypeOK, [Next]_vars
  PROVE  \/ graph' = graph \/ graph' = {}
         \/ \E d \in Client : At(d, "project") /\ req[d].links # {} /\ graph' = req[d].links
BY DEF Next, vars, Ask, Look, Drop, Match, Project, Stream, Tidy, Answer, Refuse, Abort,
       Restart, Relate, Unrelate

\* Only one request moves in a step.
LEMMA OneMoves ==
  ASSUME TypeOK, [Next]_vars, NEW c \in Client, NEW d \in Client, c # d,
         req'[c] # req[c], req'[c] # Idle
  PROVE  req'[d] = req[d]
BY DEF TypeOK, Next, vars, Ask, Look, Drop, Match, Project, Stream, Tidy, Answer, Refuse, Abort,
       Restart, Relate, Unrelate, Go

-----------------------------------------------------------------------------
(* What needs no history.                                                  *)

Early(c) ==
  /\ req[c].step \notin {"tidy", "check"} => req[c].got = {}
  /\ req[c].step \in {"project", "stream"} /\ req[c].links # {} => req[c].purpose = "normalise"

EInv == TypeOK /\ \A c \in Client : req[c] # Idle => Early(c)

LEMMA EStep == EInv /\ [Next]_vars => EInv'
<1> SUFFICES ASSUME EInv, [Next]_vars PROVE EInv'
  OBVIOUS
<1>1. TypeOK'
  BY TNext DEF EInv
<1>2. ASSUME NEW c \in Client, req'[c] # Idle PROVE Early(c)'
  <2>1. req'[c] = req[c] \/ Asks(c) \/ Moves(c)
    BY <1>2, Moved DEF EInv
  <2>2. CASE req'[c] = req[c]
    BY <1>2, <2>2 DEF EInv, Early
  <2>3. CASE Asks(c)
    BY <2>3 DEF Asks, Early
  <2>4. CASE Moves(c)
    BY <2>4 DEF Moves, Same, EInv, Early, Wanted
  <2>5. QED BY <2>1, <2>2, <2>3, <2>4
<1>3. QED BY <1>1, <1>2 DEF EInv

-----------------------------------------------------------------------------
(* A request that has had no other beside it.                              *)

Lone(c) ==
  /\ \A d \in Client \ {c} : req[d] = Idle
  /\ req[c].step = "drop" => graph # {}
  /\ req[c].step \in {"match", "project"} => graph = {}
  /\ req[c].step = "stream" => graph # {} /\ In(graph, req[c].section)
  /\ req[c].step \in {"tidy", "check"} => Own(c)

LInv == EInv /\ \A c \in Client : req[c] # Idle /\ c \notin beside => Lone(c)

LEMMA LStep == LInv /\ [HNext]_<<vars, history>> => LInv'
<1> SUFFICES ASSUME LInv, [HNext]_<<vars, history>> PROVE LInv'
  OBVIOUS
<1>1. [Next]_vars
  BY DEF HNext, vars, history
<1>2. EInv'
  BY <1>1, EStep DEF LInv
<1>3. ASSUME NEW c \in Client, req'[c] # Idle, c \notin beside' PROVE Lone(c)'
  <2>1. CASE UNCHANGED <<vars, history>>
    BY <1>3, <2>1 DEF vars, history, LInv, Lone, Own, In
  <2>2. CASE Record
    <3>1. c \notin beside /\ \A d \in Client \ {c} : req'[d] = Idle
      BY <1>3, <2>2 DEF Record
    <3>2. TypeOK /\ (req[c] # Idle => Lone(c) /\ Early(c))
      BY <3>1 DEF LInv, EInv
    <3>3. req'[c] = req[c] \/ Asks(c) \/ Moves(c)
      BY <1>1, <1>3, <3>2, Moved
    <3>4. CASE Asks(c)
      BY <3>1, <3>4 DEF Asks, Lone, Own
    <3>5. CASE req'[c] = req[c]
      <4>1. graph' = graph
        <5>1. SUFFICES ASSUME NEW e \in Client, Drop(e) \/ Project(e) \/ Tidy(e) PROVE FALSE
          BY <1>1, <1>3
             DEF Next, vars, Ask, Look, Match, Stream, Answer, Refuse, Abort, Restart, Relate, Unrelate
        <5>2. e = c /\ req[c] \in Request
          BY <1>3, <3>2, <3>5, <5>1 DEF Lone, Drop, Project, Tidy, At, TypeOK
        <5>3. QED BY <3>2, <3>5, <5>1, <5>2 DEF Drop, Project, Tidy, At, Go, TypeOK, Request
      <4>2. QED BY <1>3, <3>1, <3>2, <3>5, <4>1 DEF Lone, Own, In
    <3>6. CASE Moves(c)
      <4>1. req[c] \in Request /\ In(req[c].links, req[c].section)
        BY <3>2, <3>6 DEF Moves, TypeOK, In
      <4>2. CASE req[c].step = "stream"
        <5>1. \A k \in Clusters(graph) : \A x \in k : Home[x] = req[c].section
          BY <3>2, <3>6, <4>2, ComponentsStay DEF Moves, Lone, TypeOK
        <5>2. QED BY <3>1, <3>6, <4>2, <5>1 DEF Moves, Lone, Own
      <4>3. CASE req[c].step # "stream"
        BY <3>1, <3>2, <3>6, <4>1, <4>3 DEF Moves, Same, Lone, Early, Own, In
      <4>4. QED BY <4>2, <4>3
    <3>7. QED BY <3>3, <3>4, <3>5, <3>6
  <2>3. QED BY <2>1, <2>2 DEF HNext
<1>4. QED BY <1>2, <1>3 DEF LInv

\* A request that has had no other beside it does not fail, whatever requests
\* before it have left in the catalogue.
THEOREM NoneFailsAlone == HSpec => []AloneSucceeds
<1>1. HInit => LInv
  BY TInit DEF HInit, Init, LInv, EInv
<1>2. LInv => AloneSucceeds
  BY DEF LInv, Lone, AloneSucceeds, Failing, At
<1>3. QED BY <1>1, <1>2, LStep, PTL DEF HSpec

-----------------------------------------------------------------------------
(* What a normalisation gets is recent.                                    *)

\* What another has matched for the section is among what is remembered, and
\* so is a graph of the section that is there once an old one has been dropped.
Waits(c) ==
  \A d \in Client : At(d, "project") /\ req[d].purpose = "normalise" /\ req[d].section = req[c].section
                      => req[d].links \in since[c]
Finds(c) ==
  req[c].step \in {"match", "project", "stream"} /\ graph # {} /\ In(graph, req[c].section)
    => graph \in since[c]
Late(c) ==
  req[c].step \in {"tidy", "check"} /\ req[c].purpose = "normalise" /\ Own(c)
    => \E L \in since[c] : req[c].got = Clusters(L)

RInv == EInv /\ \A c \in Client : req[c] # Idle => Waits(c) /\ Finds(c) /\ Late(c)

\* What is remembered for a request that stays open.
LEMMA Remembered ==
  ASSUME EInv, [Next]_vars, Record, NEW c \in Client, req'[c] # Idle
  PROVE  /\ req[c] # Idle => since[c] \subseteq since'[c]
         /\ req[c] = Idle => Matched(req'[c].section) \subseteq since'[c]
         /\ UNCHANGED related => Inside(req'[c].section) \in since'[c]
BY DEF Record, Noted, Inside

LEMMA WaitsStep ==
  ASSUME RInv, [Next]_vars, Record, NEW c \in Client, req'[c] # Idle
  PROVE  Waits(c)'
<1> SUFFICES ASSUME NEW d \in Client, req'[d] # Idle, req'[d].step = "project",
                    req'[d].purpose = "normalise", req'[d].section = req'[c].section
             PROVE  req'[d].links \in since'[c]
  BY DEF Waits, At
<1>1. req'[d] = req[d] \/ Asks(d) \/ Moves(d)
  BY Moved DEF RInv, EInv
<1>2. CASE req'[d] = req[d] /\ req[c] = Idle
  BY <1>2, Remembered DEF Matched, At, RInv
<1>3. CASE req'[d] = req[d] /\ req[c] # Idle
  <2>1. req'[c].section = req[c].section
    BY <1>3, Moved DEF Asks, Moves, RInv, EInv
  <2>2. QED BY <1>3, <2>1, Remembered DEF RInv, Waits, At
<1>4. CASE Asks(d)
  BY <1>4 DEF Asks
<1>5. CASE Moves(d)
  <2>1. req'[d].links = Inside(req'[c].section) /\ UNCHANGED related
    BY <1>5 DEF Moves, Wanted
  <2>2. QED BY <2>1, Remembered DEF RInv
<1>6. QED BY <1>1, <1>2, <1>3, <1>4, <1>5

LEMMA FindsStep ==
  ASSUME RInv, [Next]_vars, Record, NEW c \in Client, req'[c] # Idle
  PROVE  Finds(c)'
<1> SUFFICES ASSUME req'[c].step \in {"match", "project", "stream"},
                    graph' # {}, In(graph', req'[c].section)
             PROVE  graph' \in since'[c]
  BY DEF Finds, In
<1>1. TypeOK /\ TypeOK'
  BY TNext DEF RInv, EInv
<1>2. req'[c] = req[c] \/ Moves(c)
  BY <1>1, Moved DEF Asks
<1>3. req[c] # Idle /\ req'[c].section = req[c].section
  BY <1>2 DEF Moves
<1>4. CASE graph' = graph
  <2>1. req[c].step \in {"match", "project", "stream"}
    BY <1>2, <1>4 DEF Moves
  <2>2. graph \in since[c]
    BY <1>3, <1>4, <2>1 DEF RInv, Finds
  <2>3. QED BY <1>3, <1>4, <2>2, Remembered DEF RInv
<1>5. ASSUME NEW d \in Client, At(d, "project"), req[d].links # {}, graph' = req[d].links
      PROVE  graph' \in since'[c]
  <2>1. req[d] \in Request /\ In(req[d].links, req[d].section) /\ req[d].purpose = "normalise"
    BY <1>1, <1>5 DEF At, TypeOK, In, RInv, EInv, Early
  <2>2. PICK l \in graph' : TRUE
    OBVIOUS
  <2>3. PICK x \in l : TRUE
    BY <1>1, <2>2 DEF TypeOK, Link
  <2>4. req[d].section = req[c].section
    BY <1>3, <1>5, <2>1, <2>2, <2>3 DEF In
  <2>5. QED BY <1>3, <1>5, <2>1, <2>4, Remembered DEF RInv, Waits
<1>6. QED BY <1>1, <1>4, <1>5, Graphed

LEMMA LateStep ==
  ASSUME RInv, [Next]_vars, Record, NEW c \in Client, req'[c] # Idle
  PROVE  Late(c)'
<1> SUFFICES ASSUME req'[c].step \in {"tidy", "check"}, req'[c].purpose = "normalise", Own(c)'
             PROVE  \E L \in since'[c] : req'[c].got = Clusters(L)
  BY DEF Late
<1>1. TypeOK
  BY DEF RInv, EInv
<1>2. req'[c] = req[c] \/ Moves(c)
  BY <1>1, Moved DEF Asks
<1>3. req[c] # Idle /\ since[c] \subseteq since'[c] /\ req[c].purpose = "normalise"
  BY <1>2, Remembered DEF Moves, RInv
<1>4. CASE req[c].step \in {"tidy", "check"}
  <2>1. req'[c].got = req[c].got /\ req'[c].section = req[c].section
    BY <1>2, <1>4 DEF Moves, Same
  <2>2. Own(c)
    BY <1>3, <2>1 DEF Own
  <2>3. QED BY <1>3, <1>4, <2>1, <2>2 DEF RInv, Late
<1>5. CASE req[c].step = "project"
  <2>1. req[c].links = {} /\ req'[c].got = {}
    BY <1>2, <1>3, <1>5 DEF Moves, Same, RInv, EInv, Early
  <2>2. {} \in since[c]
    BY <1>3, <1>5, <2>1 DEF RInv, Waits, At
  <2>3. Clusters({}) = {}
    BY DEF Clusters
  <2>4. QED BY <1>3, <2>1, <2>2, <2>3
<1>6. CASE req[c].step = "stream"
  <2>1. req'[c].got = Clusters(graph) /\ graph # {} /\ req'[c].section = req[c].section
    BY <1>2, <1>6 DEF Moves
  <2>2. In(graph, req[c].section)
    BY <1>1, <2>1, PairsCovered DEF Own, TypeOK
  <2>3. graph \in since[c]
    BY <1>3, <1>6, <2>1, <2>2 DEF RInv, Finds
  <2>4. QED BY <1>3, <2>1, <2>3
<1>7. QED BY <1>2, <1>4, <1>5, <1>6 DEF Moves

LEMMA RStep == RInv /\ [HNext]_<<vars, history>> => RInv'
<1> SUFFICES ASSUME RInv, [HNext]_<<vars, history>> PROVE RInv'
  OBVIOUS
<1>1. [Next]_vars
  BY DEF HNext, vars, history
<1>2. EInv'
  BY <1>1, EStep DEF RInv
<1>3. CASE UNCHANGED <<vars, history>>
  BY <1>2, <1>3 DEF vars, history, RInv, Waits, Finds, Late, Own, At, In
<1>4. CASE Record
  BY <1>1, <1>2, <1>4, WaitsStep, FindsStep, LateStep DEF RInv
<1>5. QED BY <1>3, <1>4 DEF HNext

\* A normalisation that is answered has clusters of relations that its section
\* had since it was sent, or that a request beside it had matched by then.
THEOREM AnsweredRecently == HSpec => AnswerIsRecent
<1>1. HInit => RInv
  BY TInit DEF HInit, Init, RInv, EInv
<1>2. RInv => [\A c \in Client : Answer(c) /\ req[c].purpose = "normalise" =>
                 \E L \in since[c] : req[c].got = Clusters(L)]_<<vars, history>>
  BY DEF RInv, Late, Answer, At
<1>3. QED BY <1>1, <1>2, RStep, PTL DEF HSpec, AnswerIsRecent

=============================================================================
