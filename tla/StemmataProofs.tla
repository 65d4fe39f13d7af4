--------------------------- MODULE StemmataProofs ---------------------------
(***************************************************************************)
(* Transmissions belong to their stemma, whatever requests run beside      *)
(* each other, no stemma takes those of another along, and the archetype   *)
(* of a tree is its top.                                                   *)
(***************************************************************************)
EXTENDS StemmataProps, FiniteSetTheorems, WellFoundedInduction, TLAPS

\* What a request has saved joins witnesses of its own stemma ...
Coherent(v) ==
  /\ v.edges \subseteq v.wits \X v.wits
  /\ v.supposed \subseteq v.wits
  /\ v.archetype \in v.wits \cup {None}

Saving(c) == req[c] # Idle /\ req[c].save # None

\* ... under an identity that is nobody else's.
SavesSound ==
  \A c \in Client : Saving(c) =>
    /\ Coherent(req[c].save) /\ req[c].graph \in Graph
    /\ req[c].save.id \notin DOMAIN stemma
    /\ \A d \in Client \ {c} : Saving(d) => req[d].save.id # req[c].save.id

IInv == TypeOK /\ LinksOwned /\ SavesSound

LEMMA InitInv == Init => IInv
BY StemmataAssumption DEF Init, IInv, TypeOK, LinksOwned, SavesSound, Saving, Idle, Node

\* The deletion of a stemma, whatever becomes of the requests that do not save.
LEMMA RemoveInv ==
  ASSUME IInv, NEW i \in DOMAIN stemma, RemoveStemma(i),
         req' \in [Client -> Request \cup {Idle}],
         \A c \in Client : Saving(c)' => req'[c] = req[c]
  PROVE  IInv'
<1>1. TypeOK'
  BY DEF IInv, TypeOK, RemoveStemma
<1>2. LinksOwned'
  <2> SUFFICES ASSUME NEW l \in sent'
               PROVE  /\ l.by \in DOMAIN stemma'
                      /\ l.name = stemma'[l.by].name
                      /\ {l.from, l.to} \subseteq stemma'[l.by].wits
    BY DEF LinksOwned
  <2>1. l \in sent /\ l \notin Passed(i)
    BY DEF RemoveStemma
  <2>2. l.by \in DOMAIN stemma /\ l.name = stemma[l.by].name
        /\ {l.from, l.to} \subseteq stemma[l.by].wits
    BY <2>1 DEF IInv, LinksOwned
  <2>3. l.by # i
    BY <2>1, <2>2 DEF Passed
  <2>4. QED BY <2>2, <2>3 DEF RemoveStemma
<1>3. SavesSound'
  <2>1. (DOMAIN stemma') \subseteq DOMAIN stemma
    BY DEF RemoveStemma
  <2>2. \A c \in Client : Saving(c)' => Saving(c) /\ req'[c] = req[c]
    BY DEF Saving
  <2>3. QED BY <2>1, <2>2 DEF IInv, SavesSound
<1>4. QED BY <1>1, <1>2, <1>3 DEF IInv

\* A request that opens has its types and has not saved.
LEMMA OpenSound ==
  ASSUME IInv, NEW c \in Client, NEW n \in Name, NEW g \in Graph \cup {Unsaved},
         NEW old \in Name \cup {None}, Open(c, n, g, old)
  PROVE  /\ req' \in [Client -> Request \cup {Idle}]
         /\ \A d \in Client : Saving(d)' => req'[d] = req[d]
<1> DEFINE r == [name |-> n, graph |-> g, replaces |-> old, save |-> None]
<1>1. r \in Request /\ r.save = None
  BY DEF Request
<1>2. req' = [req EXCEPT ![c] = r]
  BY DEF Open
<1>3. req \in [Client -> Request \cup {Idle}]
  BY DEF IInv, TypeOK
<1> HIDE DEF r
<1>4. QED BY <1>1, <1>2, <1>3 DEF Saving

\* A step that changes requests only, and saves nothing.
LEMMA UnsavedInv ==
  ASSUME IInv, UNCHANGED <<witness, hypothetical, stemma, sent>>,
         req' \in [Client -> Request \cup {Idle}],
         \A c \in Client : Saving(c)' => req'[c] = req[c]
  PROVE  IInv'
<1>1. TypeOK' /\ LinksOwned'
  BY DEF IInv, TypeOK, LinksOwned
<1>2. \A c \in Client : Saving(c)' => Saving(c) /\ req'[c] = req[c]
  BY DEF Saving
<1>3. SavesSound'
  BY <1>2 DEF IInv, SavesSound
<1>4. QED BY <1>1, <1>3 DEF IInv

LEMMA SendInv ==
  ASSUME IInv, NEW c \in Client, Send(c)
  PROVE  IInv'
<1>1. PICK n \in Name, g \in Graph \cup {Unsaved} :
        NewStemma(c, n, g) \/ \E old \in Name : ReplaceStemma(c, old, n, g)
  BY DEF Send
<1>2. CASE NewStemma(c, n, g)
  BY <1>2, OpenSound, UnsavedInv DEF NewStemma
<1>3. ASSUME NEW old \in Name, ReplaceStemma(c, old, n, g) PROVE IInv'
  <2>1. PICK i \in DOMAIN stemma : RemoveStemma(i)
    BY <1>3 DEF ReplaceStemma, Named
  <2>2. Open(c, n, g, old)
    BY <1>3 DEF ReplaceStemma
  <2>3. QED BY <2>1, <2>2, OpenSound, RemoveInv
<1>4. QED BY <1>1, <1>2, <1>3

LEMMA ImportInv ==
  ASSUME IInv, NEW c \in Client, Import(c)
  PROVE  IInv'
<1> DEFINE r == req[c]
           g == r.graph
<1>1. r \in Request /\ r # Idle /\ g \in Graph
  BY DEF Import, IInv, TypeOK, Request
<1>0. PICK i \in Id \ DOMAIN stemma, root \in Roots(g) :
        /\ \A d \in Client : Saving(d) => req[d].save.id # i
        /\ \E k \in Nodes(g, i) : req' = [req EXCEPT ![c].save = Writes(g, i, root, k)]
  BY DEF Import, Saving
<1>2. PICK k \in Nodes(g, i) : req' = [req EXCEPT ![c].save = Writes(g, i, root, k)]
  BY <1>0
<1> DEFINE wits  == {k[s] : s \in DOMAIN g.class}
           edges == {<<k[e[1]], k[e[2]]>> : e \in g.edges}
           supp  == {k[s] : s \in Marked(g, "hypothetical")}
           arch  == IF root = None THEN None ELSE k[root]
           v     == [id |-> i, wits |-> wits, supposed |-> supp, edges |-> edges,
                     archetype |-> arch]
<1>3. g.edges \subseteq (DOMAIN g.class) \X (DOMAIN g.class)
  BY <1>1, StemmataAssumption DEF IsGraph
<1>4. k \in [DOMAIN g.class -> Node]
  BY <1>2 DEF Nodes
<1>5. edges \subseteq wits \X wits
  BY <1>3
<1>6. supp \subseteq wits
  BY DEF Marked
<1>7. root \in DOMAIN g.class \cup {None}
  BY <1>0 DEF Roots, Archetypes
<1>8. arch \in wits \cup {None}
  BY <1>7
<1>9. wits \subseteq Node
  BY <1>4
<1> HIDE DEF wits, edges, supp, arch
<1>10. v \in Saved /\ Coherent(v)
  BY <1>5, <1>6, <1>8, <1>9 DEF Saved, Coherent
<1> DEFINE s == [r EXCEPT !.save = v]
<1>11. req' = [req EXCEPT ![c] = s]
  BY <1>2 DEF Writes, wits, edges, supp, arch
<1>12. v.id = i
  OBVIOUS
<1> HIDE DEF v
<1>13. s \in Request /\ s.save = v /\ s.graph = g
  BY <1>1, <1>10 DEF Request
<1> HIDE DEF s
<1>14. UNCHANGED <<witness, hypothetical, stemma, sent>>
  BY DEF Import
<1>15. TypeOK' /\ LinksOwned'
  BY <1>11, <1>13, <1>14 DEF IInv, TypeOK, LinksOwned
<1>16. req'[c] = s /\ \A d \in Client \ {c} : req'[d] = req[d]
  BY <1>11 DEF IInv, TypeOK
<1>17. \A d \in Client \ {c} : Saving(d)' <=> Saving(d)
  BY <1>16 DEF Saving
<1>18. SavesSound'
  <2> SUFFICES ASSUME NEW d \in Client, Saving(d)'
               PROVE  /\ Coherent(req'[d].save) /\ req'[d].graph \in Graph
                      /\ req'[d].save.id \notin DOMAIN stemma
                      /\ \A e \in Client \ {d} : Saving(e)' => req'[e].save.id # req'[d].save.id
    BY <1>14 DEF SavesSound, Coherent
  <2>1. CASE d = c
    BY <2>1, <1>0, <1>1, <1>10, <1>12, <1>13, <1>16, <1>17
  <2>2. CASE d # c
    <3>1. Saving(d) /\ req'[d] = req[d]
      BY <2>2, <1>16, <1>17
    <3>2. req'[c].save.id # req[d].save.id
      BY <3>1, <1>0, <1>12, <1>13, <1>16
    <3>3. \A e \in Client \ {c, d} : Saving(e)' => Saving(e) /\ req'[e] = req[e]
      BY <1>16, <1>17
    <3>4. QED BY <3>1, <3>2, <3>3 DEF IInv, SavesSound
  <2>3. QED BY <2>1, <2>2
<1>19. QED BY <1>15, <1>18 DEF IInv

LEMMA CommitInv ==
  ASSUME IInv, NEW c \in Client, Commit(c)
  PROVE  IInv'
<1> DEFINE r == req[c]
           v == r.save
           new == [name |-> r.name, wits |-> v.wits, archetype |-> v.archetype,
                   directed |-> r.graph.directed]
           links == {[name |-> r.name, by |-> v.id, from |-> e[1], to |-> e[2]] : e \in v.edges}
<1>1. r \in Request /\ v \in Saved /\ Saving(c)
  BY DEF Commit, IInv, TypeOK, Request, Saving
<1>2. Coherent(v) /\ v.id \notin DOMAIN stemma /\ r.graph \in Graph
  BY <1>1 DEF IInv, SavesSound
<1>3. v.id \in Id /\ v.wits \subseteq Node /\ v.edges \subseteq Node \X Node /\ r.name \in Name
  BY <1>1 DEF Saved, Request
<1>4. /\ witness' = witness \cup v.wits
      /\ hypothetical' = hypothetical \cup v.supposed
      /\ stemma' = [i \in DOMAIN stemma \cup {v.id} |-> IF i # v.id THEN stemma[i] ELSE new]
      /\ sent' = sent \cup links
      /\ req' = [req EXCEPT ![c] = Idle]
  BY DEF Commit
<1>5. new \in Stemma
  <2>1. r.graph.directed \in BOOLEAN
    BY <1>2, StemmataAssumption DEF IsGraph
  <2>2. QED BY <1>1, <1>2, <1>3, <2>1 DEF Coherent, Stemma
<1>6. \A l \in links : /\ l.by = v.id /\ l.name = r.name /\ {l.from, l.to} \subseteq v.wits
                       /\ l \in [name : Name, by : Id, from : Node, to : Node]
  BY <1>2, <1>3 DEF Coherent
<1>7. \A d \in Client : Saving(d)' => d # c /\ Saving(d) /\ req'[d] = req[d]
  BY <1>4 DEF Saving, IInv, TypeOK
<1>8. new.wits = v.wits /\ new.name = r.name /\ new.archetype = v.archetype
  OBVIOUS
<1> HIDE DEF new, links
<1>9. /\ (DOMAIN stemma') = DOMAIN stemma \cup {v.id}
      /\ stemma'[v.id] = new
      /\ \A i \in DOMAIN stemma : stemma'[i] = stemma[i]
  BY <1>2, <1>4
<1>10. TypeOK'
  <2>1. witness' \subseteq Node /\ hypothetical' \subseteq witness'
    BY <1>2, <1>3, <1>4 DEF IInv, TypeOK, Coherent
  <2>2. stemma' \in [DOMAIN stemma' -> Stemma] /\ (DOMAIN stemma') \subseteq Id
    BY <1>3, <1>4, <1>5 DEF IInv, TypeOK
  <2>3. \A i \in DOMAIN stemma' : /\ stemma'[i].wits \subseteq witness'
                                  /\ stemma'[i].archetype \in stemma'[i].wits \cup {None}
    BY <1>2, <1>4, <1>8, <1>9 DEF IInv, TypeOK, Coherent
  <2>4. sent' \subseteq [name : Name, by : Id, from : Node, to : Node]
    BY <1>4, <1>6 DEF IInv, TypeOK
  <2>5. req' \in [Client -> Request \cup {Idle}]
    BY <1>4 DEF IInv, TypeOK
  <2>6. QED BY <2>1, <2>2, <2>3, <2>4, <2>5 DEF TypeOK
<1>11. LinksOwned'
  BY <1>4, <1>6, <1>8, <1>9 DEF IInv, LinksOwned
<1>12. SavesSound'
  BY <1>1, <1>7, <1>9 DEF IInv, SavesSound
<1>13. QED BY <1>10, <1>11, <1>12 DEF IInv

LEMMA AbortInv ==
  ASSUME IInv, NEW c \in Client, Abort(c)
  PROVE  IInv'
<1>1. req' = [req EXCEPT ![c] = Idle] /\ UNCHANGED <<witness, hypothetical, stemma, sent>>
  BY DEF Abort
<1>2. req' \in [Client -> Request \cup {Idle}]
  BY <1>1 DEF IInv, TypeOK
<1>3. \A d \in Client : Saving(d)' => req'[d] = req[d]
  BY <1>1 DEF Saving, IInv, TypeOK
<1>4. QED BY <1>1, <1>2, <1>3, UnsavedInv

LEMMA ReorientInv ==
  ASSUME IInv, NEW n \in Name, NEW s \in Sigil, Reorient(n, s)
  PROVE  IInv'
<1>0. PICK i \in DOMAIN stemma : \E w \in stemma[i].wits :
        stemma' = [stemma EXCEPT ![i].archetype = w, ![i].directed = TRUE]
  BY DEF Reorient, Named
<1>1. PICK w \in stemma[i].wits :
        stemma' = [stemma EXCEPT ![i].archetype = w, ![i].directed = TRUE]
  BY <1>0
<1>2. UNCHANGED <<witness, hypothetical, sent, req>>
  BY DEF Reorient
<1>3. stemma[i] \in Stemma /\ w \in Node
  BY DEF IInv, TypeOK, Stemma
<1> DEFINE m == [stemma[i] EXCEPT !.archetype = w, !.directed = TRUE]
<1>4. m \in Stemma /\ m.name = stemma[i].name /\ m.wits = stemma[i].wits /\ m.archetype = w
  BY <1>3 DEF Stemma
<1>5. stemma' = [stemma EXCEPT ![i] = m]
  BY <1>1
<1> HIDE DEF m
<1>6. DOMAIN stemma' = DOMAIN stemma
  BY <1>5
<1>7. \A j \in DOMAIN stemma : stemma'[j].name = stemma[j].name /\ stemma'[j].wits = stemma[j].wits
  BY <1>4, <1>5
<1>8. TypeOK'
  BY <1>1, <1>2, <1>4, <1>5, <1>6, <1>7 DEF IInv, TypeOK
<1>9. LinksOwned'
  BY <1>2, <1>6, <1>7 DEF IInv, LinksOwned
<1>10. SavesSound'
  BY <1>2, <1>6 DEF IInv, SavesSound, Saving
<1>11. QED BY <1>8, <1>9, <1>10 DEF IInv

LEMMA StepInv == IInv /\ [Next]_vars => IInv'
<1> SUFFICES ASSUME IInv, [Next]_vars PROVE IInv'
  OBVIOUS
<1>1. ASSUME NEW c \in Client, Send(c) PROVE IInv'
  BY <1>1, SendInv
<1>2. ASSUME NEW c \in Client, Import(c) PROVE IInv'
  BY <1>2, ImportInv
<1>3. ASSUME NEW c \in Client, Commit(c) PROVE IInv'
  BY <1>3, CommitInv
<1>4. ASSUME NEW c \in Client, Abort(c) PROVE IInv'
  BY <1>4, AbortInv
<1>5. ASSUME NEW n \in Name, DeleteStemma(n) PROVE IInv'
  <2>1. PICK i \in DOMAIN stemma : RemoveStemma(i)
    BY <1>5 DEF DeleteStemma, Named
  <2>2. req' = req
    BY <1>5 DEF DeleteStemma
  <2>3. QED BY <2>1, <2>2, RemoveInv DEF IInv, TypeOK
<1>6. ASSUME NEW n \in Name, NEW s \in Sigil, Reorient(n, s) PROVE IInv'
  BY <1>6, ReorientInv
<1>7. CASE UNCHANGED vars
  BY <1>7 DEF vars, IInv, TypeOK, LinksOwned, SavesSound, Saving
<1>8. QED BY <1>1, <1>2, <1>3, <1>4, <1>5, <1>6, <1>7 DEF Next

THEOREM Invariance == Spec => []IInv
BY InitInv, StepInv, PTL DEF Spec

\* Stemmata, links and requests have their types, and an archetype is one of
\* the witnesses of its stemma.
THEOREM TypeCorrect == Spec => []TypeOK
<1>1. IInv => TypeOK
  BY DEF IInv
<1>2. QED BY <1>1, Invariance, PTL

\* A transmission joins two witnesses of the stemma that it came with, whatever
\* requests run beside each other: none outlives its stemma.
THEOREM TransmissionsOwned == Spec => []LinksOwned
<1>1. IInv => LinksOwned
  BY DEF IInv
<1>2. QED BY <1>1, Invariance, PTL

\* A deletion takes along what it finds by name, and that is of no other stemma.
LEMMA RemoveKeeps ==
  ASSUME IInv, NamesUnique, NEW i \in DOMAIN stemma, RemoveStemma(i),
         NEW j \in (DOMAIN stemma) \cap DOMAIN stemma'
  PROVE  /\ {l \in sent' : l.by = j} = {l \in sent : l.by = j}
         /\ stemma'[j].wits = stemma[j].wits
<1>1. j # i /\ stemma'[j] = stemma[j]
  BY DEF RemoveStemma
<1>2. stemma[j].name # stemma[i].name
  BY <1>1 DEF NamesUnique
<1>3. \A l \in sent : l.by = j => l \notin Passed(i)
  BY <1>2 DEF IInv, LinksOwned, Passed
<1>4. QED BY <1>1, <1>3 DEF RemoveStemma

\* As long as names are unique, what a stemma says changes only with the stemma.
THEOREM StemmaStays == Spec => StemmaKept
<1> DEFINE Same(j) == /\ {l \in sent' : l.by = j} = {l \in sent : l.by = j}
                      /\ stemma'[j].wits = stemma[j].wits
<1>1. IInv /\ [Next]_vars
        => [NamesUnique => \A i \in (DOMAIN stemma) \cap DOMAIN stemma' :
              /\ {l \in sent' : l.by = i} = {l \in sent : l.by = i}
              /\ stemma'[i].wits = stemma[i].wits]_vars
  <2> SUFFICES ASSUME IInv, Next, NamesUnique,
                      NEW j \in (DOMAIN stemma) \cap DOMAIN stemma'
               PROVE  Same(j)
    OBVIOUS
  <2>1. ASSUME NEW c \in Client, Send(c) PROVE Same(j)
    <3>1. PICK n \in Name, g \in Graph \cup {Unsaved} :
            NewStemma(c, n, g) \/ \E old \in Name : ReplaceStemma(c, old, n, g)
      BY <2>1 DEF Send
    <3>2. CASE NewStemma(c, n, g)
      BY <3>2 DEF NewStemma
    <3>3. ASSUME NEW old \in Name, ReplaceStemma(c, old, n, g) PROVE Same(j)
      <4>1. PICK i \in DOMAIN stemma : RemoveStemma(i)
        BY <3>3 DEF ReplaceStemma, Named
      <4>2. QED BY <4>1, RemoveKeeps
    <3>4. QED BY <3>1, <3>2, <3>3
  <2>2. ASSUME NEW c \in Client, Import(c) \/ Abort(c) PROVE Same(j)
    <3>1. UNCHANGED <<sent, stemma>>
      BY <2>2 DEF Import, Abort
    <3>2. QED BY <3>1
  <2>3. ASSUME NEW c \in Client, Commit(c) PROVE Same(j)
    <3> DEFINE v     == req[c].save
               links == {[name |-> req[c].name, by |-> v.id, from |-> e[1], to |-> e[2]] :
                           e \in v.edges}
    <3>1. v.id \notin DOMAIN stemma
      BY <2>3 DEF Commit, IInv, SavesSound, Saving
    <3>2. sent' = sent \cup links /\ stemma'[j] = stemma[j]
      BY <2>3, <3>1 DEF Commit
    <3>3. \A l \in links : l.by # j
      BY <3>1
    <3> HIDE DEF links
    <3>4. QED BY <3>2, <3>3
  <2>4. ASSUME NEW n \in Name, DeleteStemma(n) PROVE Same(j)
    <3>1. PICK i \in DOMAIN stemma : RemoveStemma(i)
      BY <2>4 DEF DeleteStemma, Named
    <3>2. QED BY <3>1, RemoveKeeps
  <2>5. ASSUME NEW n \in Name, NEW s \in Sigil, Reorient(n, s) PROVE Same(j)
    <3>1. sent' = sent
      BY <2>5 DEF Reorient
    <3>2. PICK i \in DOMAIN stemma : \E w \in stemma[i].wits :
            stemma' = [stemma EXCEPT ![i].archetype = w, ![i].directed = TRUE]
      BY <2>5 DEF Reorient, Named
    <3>3. stemma[i] \in Stemma /\ stemma[j] \in Stemma
      BY DEF IInv, TypeOK
    <3>4. stemma'[j].wits = stemma[j].wits
      BY <3>2, <3>3 DEF Stemma
    <3>5. QED BY <3>1, <3>4
  <2>6. QED BY <2>1, <2>2, <2>3, <2>4, <2>5 DEF Next
<1>2. QED BY <1>1, Invariance, PTL DEF Spec, StemmaKept

-----------------------------------------------------------------------------
(* Requests that keep apart.                                               *)

\* What has been saved, and is not yet committed, has a name that is still free.
NInv ==
  /\ NamesUnique
  /\ \A c, d \in Client : c # d /\ req[c] # Idle /\ req[d] # Idle => req[c].name # req[d].name
  /\ \A c \in Client : Saving(c) => Free(req[c].name)

\* Stemmata go or keep their names, requests end or keep theirs.
LEMMA NamesStay ==
  ASSUME IInv, NInv, (DOMAIN stemma') \subseteq DOMAIN stemma,
         \A i \in DOMAIN stemma' : stemma'[i].name = stemma[i].name,
         \A c \in Client : req'[c] # Idle =>
           /\ req[c] # Idle /\ req'[c].name = req[c].name
           /\ Saving(c)' => Saving(c) \/ Free(req[c].name)
  PROVE  NInv'
<1>1. NamesUnique'
  BY DEF NInv, NamesUnique
<1>2. \A c, d \in Client :
        c # d /\ req'[c] # Idle /\ req'[d] # Idle => req'[c].name # req'[d].name
  BY DEF NInv
<1>3. ASSUME NEW c \in Client, Saving(c)' PROVE Free(req[c].name)'
  <2>1. req'[c] # Idle /\ req'[c].name = req[c].name
    BY <1>3 DEF Saving, Idle
  <2>2. Free(req[c].name)
    BY <1>3, <2>1 DEF NInv
  <2> DEFINE n == req[c].name
  <2>3. ~ \E i \in DOMAIN stemma : stemma[i].name = n
    BY <2>2 DEF Free, Named
  <2>4. ~ \E i \in DOMAIN stemma' : stemma'[i].name = n
    BY <2>3
  <2>5. QED BY <2>1, <2>4 DEF Free, Named
<1>4. QED BY <1>1, <1>2, <1>3 DEF NInv, Idle

LEMMA NStep == IInv /\ NInv /\ [NextApart]_vars => NInv'
<1> SUFFICES ASSUME IInv, NInv, [NextApart]_vars PROVE NInv'
  OBVIOUS
<1>1. ASSUME NEW i \in DOMAIN stemma, RemoveStemma(i)
      PROVE  /\ (DOMAIN stemma') \subseteq DOMAIN stemma
             /\ \A j \in DOMAIN stemma' : stemma'[j].name = stemma[j].name
  BY <1>1 DEF RemoveStemma
<1>2. ASSUME NEW c \in Client, SendApart(c) PROVE NInv'
  <2>1. PICK n \in Name, g \in Graph \cup {Unsaved} :
          /\ \A d \in Client : req[d] # Idle => req[d].name # n
          /\ NewStemma(c, n, g) \/ \E old \in Name : ReplaceStemma(c, old, n, g)
    BY <1>2 DEF SendApart
  <2>2. PICK old : Open(c, n, g, old)
    BY <2>1 DEF NewStemma, ReplaceStemma
  <2>3. /\ req'[c].name = n /\ ~Saving(c)'
        /\ \A d \in Client \ {c} : req'[d] = req[d]
    BY <2>2 DEF Open, Saving, IInv, TypeOK
  <2>4. /\ (DOMAIN stemma') \subseteq DOMAIN stemma
        /\ \A j \in DOMAIN stemma' : stemma'[j].name = stemma[j].name
    BY <1>1, <2>1 DEF NewStemma, ReplaceStemma, Named
  <2>5. NamesUnique'
    BY <2>4 DEF NInv, NamesUnique
  <2>6. \A d, e \in Client : d # e /\ req'[d] # Idle /\ req'[e] # Idle => req'[d].name # req'[e].name
    BY <2>1, <2>3 DEF NInv
  <2>7. \A d \in Client : Saving(d)' => Free(req[d].name)'
    BY <2>3, <2>4 DEF NInv, Free, Named, Saving
  <2>8. QED BY <2>5, <2>6, <2>7 DEF NInv
<1>3. ASSUME NEW c \in Client, Import(c) PROVE NInv'
  <2>1. PICK v : req' = [req EXCEPT ![c].save = v]
    BY <1>3 DEF Import
  <2>2. req[c] \in Request /\ req[c] # Idle /\ Free(req[c].name) /\ stemma' = stemma
    BY <1>3 DEF Import, IInv, TypeOK
  <2>3. req'[c].name = req[c].name /\ \A d \in Client \ {c} : req'[d] = req[d]
    BY <2>1, <2>2 DEF IInv, TypeOK, Request
  <2>4. QED BY <2>2, <2>3, NamesStay DEF Saving
<1>4. ASSUME NEW c \in Client, Commit(c) PROVE NInv'
  <2> DEFINE i == req[c].save.id
             n == req[c].name
  <2>1. Saving(c) /\ i \notin DOMAIN stemma /\ Free(n)
    BY <1>4 DEF Commit, Saving, IInv, SavesSound, NInv
  <2>2. /\ DOMAIN stemma' = DOMAIN stemma \cup {i} /\ stemma'[i].name = n
        /\ \A j \in DOMAIN stemma : stemma'[j].name = stemma[j].name
    BY <1>4, <2>1 DEF Commit
  <2>3. req'[c] = Idle /\ \A d \in Client \ {c} : req'[d] = req[d]
    BY <1>4 DEF Commit, IInv, TypeOK
  <2>4. Saving(c) => req[c] # Idle
    BY DEF Saving
  <2> HIDE DEF i, n
  <2>5. NamesUnique'
    BY <2>1, <2>2 DEF NInv, NamesUnique, Free, Named
  <2>6. ASSUME NEW d \in Client, Saving(d)' PROVE Free(req[d].name)'
    <3>1. d # c /\ req'[d] = req[d] /\ Saving(d) /\ req[d] # Idle
      BY <2>3, <2>6 DEF Saving
    <3>2. Free(req[d].name) /\ req[d].name # n
      BY <2>1, <2>4, <3>1 DEF NInv, n
    <3>3. QED BY <2>2, <3>1, <3>2 DEF Free, Named
  <2>7. \A d, e \in Client : d # e /\ req'[d] # Idle /\ req'[e] # Idle => req'[d].name # req'[e].name
    BY <2>3 DEF NInv
  <2>8. QED BY <2>5, <2>6, <2>7 DEF NInv
<1>5. ASSUME NEW c \in Client, Abort(c) PROVE NInv'
  <2>1. req' = [req EXCEPT ![c] = Idle] /\ stemma' = stemma
    BY <1>5 DEF Abort
  <2>2. \A d \in Client : req'[d] # Idle => req'[d] = req[d]
    BY <2>1 DEF IInv, TypeOK
  <2>3. QED BY <2>1, <2>2, NamesStay DEF Saving
<1>6. ASSUME NEW n \in Name, DeleteStemma(n) PROVE NInv'
  <2>1. PICK i \in DOMAIN stemma : RemoveStemma(i) /\ req' = req
    BY <1>6 DEF DeleteStemma, Named
  <2>2. QED BY <1>1, <2>1, NamesStay DEF Saving
<1>7. ASSUME NEW n \in Name, NEW s \in Sigil, Reorient(n, s) PROVE NInv'
  <2>1. PICK i \in DOMAIN stemma : \E w \in stemma[i].wits :
          stemma' = [stemma EXCEPT ![i].archetype = w, ![i].directed = TRUE]
    BY <1>7 DEF Reorient, Named
  <2>2. req' = req /\ \A j \in DOMAIN stemma : stemma[j] \in Stemma
    BY <1>7 DEF Reorient, IInv, TypeOK
  <2>3. DOMAIN stemma' = DOMAIN stemma /\ \A j \in DOMAIN stemma : stemma'[j].name = stemma[j].name
    BY <2>1, <2>2 DEF Stemma
  <2>4. QED BY <2>2, <2>3, NamesStay DEF Saving
<1>8. CASE UNCHANGED vars
  BY <1>8, NamesStay DEF vars, Saving
<1>9. QED BY <1>2, <1>3, <1>4, <1>5, <1>6, <1>7, <1>8 DEF NextApart

\* No two stemmata have one name when no two requests on one name are open at a
\* time, whatever else runs beside them: what saveToNeo has found free stays so.
THEOREM NamesStayUnique == SpecApart => []NamesUnique
<1>1. Init => NInv
  BY DEF Init, NInv, NamesUnique, Saving, Idle
<1>2. [NextApart]_vars => [Next]_vars
  BY DEF NextApart, Next, SendApart, Send
<1>3. NInv => NamesUnique
  BY DEF NInv
<1>4. QED BY <1>1, <1>2, <1>3, InitInv, StepInv, NStep, PTL DEF SpecApart

-----------------------------------------------------------------------------
(* The search for the archetype.                                           *)

\* A set of numbers has a least one.
LEMMA Least ==
  ASSUME NEW S \in SUBSET Nat, S # {}
  PROVE  \E m \in S : \A n \in S : m <= n
<1>1. PICK m \in S : \A n \in S : <<n, m>> \notin OpToRel(<, Nat)
  BY NatLessThanWellFounded, WFMin
<1>2. \A n \in S : ~ (n < m)
  BY <1>1 DEF OpToRel
<1>3. QED BY <1>2

\* f begins with a, and g makes every further value of the one before it.
Unrolls(f, K, S, a, g) ==
  f \in [0 .. K -> S] /\ f[0] = a /\ \A k \in 1 .. K : f[k] = g[k][f[k - 1]]

\* Functions on numbers can be defined by recursion.
LEMMA Recursion ==
  ASSUME NEW S, NEW a \in S, NEW C \in Nat, NEW g \in [Nat -> [S -> S]]
  PROVE  \E f : Unrolls(f, C, S, a, g)
<1> DEFINE B == {K \in Nat : ~ \E f : Unrolls(f, K, S, a, g)}
<1>1. SUFFICES ASSUME B # {} PROVE FALSE
  OBVIOUS
<1>2. PICK K \in B : \A j \in B : K <= j
  BY <1>1, Least
<1>3. K # 0
  <2>1. Unrolls([k \in 0 .. 0 |-> a], 0, S, a, g)
    BY DEF Unrolls
  <2>2. QED BY <1>2, <2>1
<1>4. K - 1 \in Nat /\ K - 1 \notin B
  BY <1>2, <1>3
<1>5. PICK f : Unrolls(f, K - 1, S, a, g)
  BY <1>4
<1> DEFINE h == [k \in 0 .. K |-> IF k = K THEN g[K][f[K - 1]] ELSE f[k]]
<1>6. /\ f \in [0 .. K - 1 -> S] /\ f[0] = a
      /\ \A k \in 1 .. K - 1 : f[k] = g[k][f[k - 1]]
  BY <1>5 DEF Unrolls
<1>7. f[K - 1] \in S /\ g[K] \in [S -> S] /\ K \in Nat
  BY <1>2, <1>4, <1>6
<1>8. h \in [0 .. K -> S] /\ h[0] = a
  BY <1>3, <1>6, <1>7
<1>9. ASSUME NEW k \in 1 .. K PROVE h[k] = g[k][h[k - 1]]
  <2>1. h[k - 1] = f[k - 1]
    BY <1>7
  <2>2. CASE k = K
    BY <1>7, <2>1, <2>2
  <2>3. CASE k # K
    BY <1>6, <1>7, <2>1, <2>3
  <2>4. QED BY <2>2, <2>3
<1> HIDE DEF h
<1>10. Unrolls(h, K, S, a, g)
  BY <1>8, <1>9 DEF Unrolls
<1>11. QED BY <1>2, <1>10

\* A tree: every witness but the top has one exemplar, and none is out of its reach.
Tree(V, E, top) ==
  /\ Above(E, top) = {}
  /\ \A w \in V \ {top} : \A a, b \in Above(E, w) : a = b
  /\ \A W \in SUBSET (V \ {top}) : W # {} => \E e \in E : e[1] \notin W /\ e[2] \in W

\* A depth-first walk upwards in a tree meets the top last: what comes after a
\* witness has been found from an earlier one, which then has two exemplars.
LEMMA WalkEnds ==
  ASSUME NEW V, IsFiniteSet(V), NEW E, NEW top \in V, Tree(V, E, top),
         NEW s \in V, NEW q \in Walks(V, E, s)
  PROVE  ToSet(q) \subseteq V /\ Last(q) = top
<1>1. Cardinality(V) \in Nat
  BY FS_CardinalityType
<1>2. PICK n \in 1 .. Cardinality(V) : q \in [1 .. n -> V]
  BY DEF Walks
<1>3. n \in Nat \ {0} /\ DOMAIN q = 1 .. n /\ Len(q) = n
  BY <1>1, <1>2
<1>4. \A a, b \in 1 .. n : q[a] = q[b] => a = b
  BY <1>3 DEF Walks, IsInjective
<1>5. \A i \in 1 .. n : Above(E, q[i]) \subseteq ToSet(q)
  BY <1>3 DEF Walks
<1>6. \A i \in 2 .. n : \E k \in 1 .. i - 1 :
        /\ q[i] \in Above(E, q[k])
        /\ \A j \in k + 1 .. i - 1 : Above(E, q[j]) \subseteq {q[m] : m \in 1 .. i - 1}
  BY <1>3 DEF Walks
<1>7. ToSet(q) \subseteq V /\ \A w : w \in ToSet(q) <=> \E i \in 1 .. n : q[i] = w
  BY <1>2, <1>3 DEF ToSet
<1>8. top \in ToSet(q)
  <2>1. SUFFICES ASSUME top \notin ToSet(q) PROVE FALSE
    OBVIOUS
  <2>2. ToSet(q) \in SUBSET (V \ {top}) /\ ToSet(q) # {}
    BY <1>3, <1>7, <2>1
  <2>3. PICK e \in E : e[1] \notin ToSet(q) /\ e[2] \in ToSet(q)
    BY <2>2 DEF Tree
  <2>4. PICK i \in 1 .. n : q[i] = e[2]
    BY <1>7, <2>3
  <2>5. e[1] \in Above(E, q[i])
    BY <2>4 DEF Above
  <2>6. QED BY <1>5, <2>3, <2>5
<1>9. PICK t \in 1 .. n : q[t] = top
  BY <1>7, <1>8
<1>10. t = n
  <2>1. SUFFICES ASSUME t # n PROVE FALSE
    OBVIOUS
  <2>2. t + 1 \in 2 .. n /\ (t + 1) - 1 = t
    BY <1>3, <2>1
  <2>3. PICK k \in 1 .. t : /\ q[t + 1] \in Above(E, q[k])
                            /\ \A j \in k + 1 .. t : Above(E, q[j]) \subseteq {q[m] : m \in 1 .. t}
    BY <1>6, <2>2
  <2>4. k # t
    BY <1>9, <2>3 DEF Tree
  <2>5. k \in 1 .. n /\ k + 1 \in 2 .. n /\ (k + 1) - 1 = k /\ q[k] \in V \ {top}
    BY <1>2, <1>3, <1>4, <1>9, <2>2, <2>3, <2>4
  <2>6. PICK h \in 1 .. k : /\ q[k + 1] \in Above(E, q[h])
                            /\ \A j \in h + 1 .. k : Above(E, q[j]) \subseteq {q[m] : m \in 1 .. k}
    BY <1>6, <2>5
  <2>7. CASE h = k
    <3>1. q[k + 1] = q[t + 1]
      BY <2>3, <2>5, <2>6, <2>7 DEF Tree
    <3>2. k + 1 \in 1 .. n /\ t + 1 \in 1 .. n /\ k + 1 # t + 1
      BY <2>2, <2>4, <2>5
    <3>3. QED BY <1>4, <3>1, <3>2
  <2>8. CASE h # k
    <3>1. k \in h + 1 .. k
      BY <2>5, <2>8
    <3>2. q[t + 1] \in {q[m] : m \in 1 .. k}
      BY <2>3, <2>6, <3>1
    <3>3. PICK m \in 1 .. k : q[t + 1] = q[m]
      BY <3>2
    <3>4. m \in 1 .. n /\ t + 1 \in 1 .. n /\ m # t + 1
      BY <2>2, <2>3, <2>5, <3>3
    <3>5. QED BY <1>4, <3>3, <3>4
  <2>9. QED BY <2>7, <2>8
<1>11. QED BY <1>3, <1>7, <1>9, <1>10 DEF Last

\* What the search has found in a tree, if anything, is the top.
Finds(V, top) == [seen : SUBSET V, root : {None, top}, done : BOOLEAN]

LEMMA TurnFinds ==
  ASSUME NEW V, IsFiniteSet(V), NEW E, NEW top \in V, Tree(V, E, top),
         NEW s \in V, NEW F \in SUBSET Finds(V, top)
  PROVE  Turn(V, E, F, s) \in SUBSET Finds(V, top)
<1>1. ASSUME NEW f \in F, NEW q \in Walks(V, E, s) PROVE Walked(f, q) \in Finds(V, top)
  <2>1. ToSet(q) \subseteq V /\ Last(q) = top
    BY WalkEnds
  <2>2. f \in Finds(V, top)
    OBVIOUS
  <2>3. /\ [f EXCEPT !.done = TRUE] \in Finds(V, top)
        /\ [f EXCEPT !.root = None, !.done = TRUE] \in Finds(V, top)
        /\ [f EXCEPT !.seen = @ \cup ToSet(q), !.root = Last(q)] \in Finds(V, top)
    BY <2>1, <2>2 DEF Finds
  <2>4. QED BY <2>3 DEF Walked
<1>2. QED BY <1>1 DEF Turn

LEMMA SearchFinds ==
  ASSUME NEW V, IsFiniteSet(V), NEW E, NEW top \in V, Tree(V, E, top), NEW o \in SetToSeqs(V)
  PROVE  Found(V, E, o) \in SUBSET Finds(V, top)
<1> DEFINE C == Len(o)
           S == SUBSET Finds(V, top)
           none == [seen |-> {}, root |-> None, done |-> FALSE]
           after[k \in 0 .. C] == IF k = 0 THEN {none} ELSE Turn(V, E, after[k - 1], o[k])
           g == [k \in Nat |-> [F \in S |-> IF k \in 1 .. C THEN Turn(V, E, F, o[k]) ELSE F]]
<1>1. Found(V, E, o) = after[C]
  BY DEF Found
<1>2. after = CHOOSE f : f = [k \in 0 .. C |-> IF k = 0 THEN {none} ELSE Turn(V, E, f[k - 1], o[k])]
  OBVIOUS
<1> HIDE DEF after
<1>3. C \in Nat /\ \A k \in 1 .. C : o[k] \in V
  BY FS_CardinalityType DEF SetToSeqs
<1>4. {none} \in S
  BY DEF Finds
<1> HIDE DEF none
<1>5. \A k \in 1 .. C, F \in S : Turn(V, E, F, o[k]) \in S
  BY <1>3, TurnFinds
<1> HIDE DEF C, S
<1>6. g \in [Nat -> [S -> S]]
  BY <1>5
<1>7. \A k \in 1 .. C, F \in S : g[k][F] = Turn(V, E, F, o[k])
  BY <1>3
<1> HIDE DEF g
<1>8. PICK f : Unrolls(f, C, S, {none}, g)
  BY <1>3, <1>4, <1>6, Recursion
<1>9. \A k \in 0 .. C : k = 0 \/ (k \in 1 .. C /\ k - 1 \in 0 .. C)
  BY <1>3
<1>10. f = [k \in 0 .. C |-> IF k = 0 THEN {none} ELSE Turn(V, E, f[k - 1], o[k])]
  <2>1. \A k \in 0 .. C : f[k] = IF k = 0 THEN {none} ELSE Turn(V, E, f[k - 1], o[k])
    BY <1>7, <1>8, <1>9 DEF Unrolls
  <2>2. QED BY <1>8, <2>1 DEF Unrolls
<1>11. after = [k \in 0 .. C |-> IF k = 0 THEN {none} ELSE Turn(V, E, after[k - 1], o[k])]
  BY <1>2, <1>10
<1> DEFINE B == {k \in 0 .. C : after[k] \notin S}
<1>12. B = {}
  <2>1. SUFFICES ASSUME B # {} PROVE FALSE
    OBVIOUS
  <2>2. B \in SUBSET Nat
    BY <1>3
  <2>3. PICK k \in B : \A j \in B : k <= j
    BY <2>1, <2>2, Least
  <2>4. k # 0
    BY <1>3, <1>4, <1>11, <2>3
  <2>5. k \in 1 .. C /\ k - 1 \in 0 .. C /\ k - 1 < k
    BY <1>3, <2>3, <2>4
  <2>6. after[k - 1] \in S
    BY <1>3, <2>3, <2>5
  <2>7. after[k] = Turn(V, E, after[k - 1], o[k])
    BY <1>11, <2>4, <2>5, <1>3
  <2>8. QED BY <1>5, <2>3, <2>5, <2>6, <2>7
<1>13. C \in 0 .. C
  BY <1>3
<1>14. QED BY <1>1, <1>12, <1>13 DEF S

\* In a tree, the only archetype to be found is the top.
LEMMA TopFound ==
  ASSUME NEW V, IsFiniteSet(V), NEW E, NEW top \in V, Tree(V, E, top),
         NEW root \in Archetypes(V, E)
  PROVE  root \in {None, top}
<1>1. PICK o \in SetToSeqs(V) : \E f \in Found(V, E, o) : f.root = root
  BY DEF Archetypes
<1>2. PICK f \in Found(V, E, o) : f.root = root
  BY <1>1
<1>3. f \in Finds(V, top)
  BY SearchFinds
<1>4. QED BY <1>2, <1>3 DEF Finds

\* What a graph says of names, its image says of witness nodes: where the image is
\* a tree, the graph is one.
LEMMA TreeBack ==
  ASSUME NEW V, IsFiniteSet(V), NEW E \in SUBSET (V \X V), NEW k,
         \A a, b \in V : k[a] = k[b] => a = b, NEW t \in V,
         IsTree({k[s] : s \in V}, {<<k[e[1]], k[e[2]]>> : e \in E}, k[t])
  PROVE  Tree(V, E, t)
<1> DEFINE U == {k[s] : s \in V}
           D == {<<k[e[1]], k[e[2]]>> : e \in E}
           To(w) == {d \in D : d[2] = w}
<1>1. /\ \A w \in U : Cardinality(To(w)) = IF w = k[t] THEN 0 ELSE 1
      /\ \A W \in SUBSET (U \ {k[t]}) : W # {} => \E d \in D : d[1] \notin W /\ d[2] \in W
  BY DEF IsTree
<1>2. \A w : IsFiniteSet(To(w))
  <2>1. IsFiniteSet(E)
    BY FS_Product, FS_Subset
  <2>2. [e \in E |-> <<k[e[1]], k[e[2]]>>] \in Surjection(E, D)
    BY DEF Surjection
  <2>3. IsFiniteSet(D)
    BY <2>1, <2>2, FS_Surjection
  <2>4. \A w : To(w) \in SUBSET D
    OBVIOUS
  <2> HIDE DEF D, To
  <2>5. QED BY <2>3, <2>4, FS_Subset
<1>3. \A a, b : a \in Above(E, b) => a \in V /\ b \in V /\ <<k[a], k[b]>> \in To(k[b])
  <2> SUFFICES ASSUME NEW a, NEW b, a \in Above(E, b)
               PROVE  a \in V /\ b \in V /\ <<k[a], k[b]>> \in To(k[b])
    OBVIOUS
  <2>1. PICK e \in E : e[1] = a /\ e[2] = b
    BY DEF Above
  <2>2. <<k[e[1]], k[e[2]]>> \in D
    OBVIOUS
  <2>3. QED BY <2>1, <2>2
<1>4. \A d \in D : \E e \in E : e[1] \in V /\ e[2] \in V /\ d[1] = k[e[1]] /\ d[2] = k[e[2]]
  OBVIOUS
<1>5. \A a \in V : k[a] \in U
  OBVIOUS
<1>6. \A u \in U : \E a \in V : u = k[a]
  OBVIOUS
<1> HIDE DEF U, D, To
<1>7. Above(E, t) = {}
  <2>1. Cardinality(To(k[t])) = 0
    BY <1>1, <1>5
  <2>2. To(k[t]) = {}
    BY <1>2, <2>1, FS_EmptySet
  <2>3. QED BY <1>3, <2>2
<1>8. ASSUME NEW w \in V \ {t}, NEW a \in Above(E, w), NEW b \in Above(E, w) PROVE a = b
  <2>1. Cardinality(To(k[w])) = 1
    BY <1>1, <1>5
  <2>2. PICK x : To(k[w]) = {x}
    BY <1>2, <2>1, FS_Singleton
  <2>3. <<k[a], k[w]>> = <<k[b], k[w]>>
    BY <1>3, <2>2
  <2>4. QED BY <1>3, <2>3
<1>9. ASSUME NEW W \in SUBSET (V \ {t}), W # {}
      PROVE  \E e \in E : e[1] \notin W /\ e[2] \in W
  <2> DEFINE Z == {k[s] : s \in W}
  <2>1. Z \in SUBSET (U \ {k[t]}) /\ Z # {}
    BY <1>5, <1>9
  <2>2. PICK d \in D : d[1] \notin Z /\ d[2] \in Z
    BY <1>1, <2>1
  <2>3. PICK e \in E : e[1] \in V /\ e[2] \in V /\ d[1] = k[e[1]] /\ d[2] = k[e[2]]
    BY <1>4
  <2>4. e[1] \notin W
    BY <2>2, <2>3
  <2>5. PICK s \in W : d[2] = k[s]
    BY <2>2
  <2>6. e[2] = s
    BY <2>3, <2>5
  <2>7. QED BY <2>4, <2>6
<1>10. QED BY <1>7, <1>8, <1>9 DEF Tree

\* What has been saved names the top of its tree, if it is one.
Rooted(v) == \A top \in v.wits : IsTree(v.wits, v.edges, top) => v.archetype = top

SavedRooted == \A c \in Client : Saving(c) /\ req[c].graph.directed => Rooted(req[c].save)

LEMMA WritesRooted ==
  ASSUME NEW g \in Graph, g.directed, NEW i, NEW root \in Roots(g), root # None,
         NEW k \in Nodes(g, i)
  PROVE  Rooted(Writes(g, i, root, k))
<1> DEFINE V == DOMAIN g.class
           E == g.edges
           v == Writes(g, i, root, k)
<1>1. IsFiniteSet(V) /\ E \in SUBSET (V \X V)
  BY StemmataAssumption DEF IsGraph
<1>2. \A s \in V : k[s][1] = s
  <2> SUFFICES ASSUME NEW s \in V PROVE k[s][1] = s
    OBVIOUS
  <2> DEFINE known == {w \in witness : w[1] = s}
  <2>1. k[s] \in IF known = {} THEN {<<s, i>>} ELSE known
    BY DEF Nodes
  <2>2. QED BY <2>1
<1>3. \A a, b \in V : k[a] = k[b] => a = b
  BY <1>2
<1>4. root \in Archetypes(V, E)
  BY DEF Roots
<1>5. /\ v.wits = {k[s] : s \in V} /\ v.edges = {<<k[e[1]], k[e[2]]>> : e \in E}
      /\ v.archetype = k[root]
  BY DEF Writes
<1> HIDE DEF V, E, v
<1>6. ASSUME NEW top \in v.wits, IsTree(v.wits, v.edges, top) PROVE v.archetype = top
  <2>1. PICK t \in V : top = k[t]
    BY <1>5
  <2>2. IsTree({k[s] : s \in V}, {<<k[e[1]], k[e[2]]>> : e \in E}, k[t])
    BY <1>5, <1>6, <2>1
  <2>3. Tree(V, E, t)
    BY <1>1, <1>3, <2>2, TreeBack
  <2>4. root \in {None, t}
    BY <1>1, <1>4, <2>3, TopFound
  <2>5. QED BY <1>5, <2>1, <2>4
<1>7. QED BY <1>6 DEF Rooted, v

\* Requests save by importing and never afterwards.
LEMMA RootedStep == IInv /\ SavedRooted /\ [Next]_vars => SavedRooted'
<1> SUFFICES ASSUME IInv, SavedRooted, [Next]_vars PROVE SavedRooted'
  OBVIOUS
<1>0. req \in [Client -> Request \cup {Idle}]
  BY DEF IInv, TypeOK
<1>1. ASSUME \A c \in Client : Saving(c)' => req'[c] = req[c] PROVE SavedRooted'
  <2>1. ASSUME NEW c \in Client, Saving(c)', req'[c].graph.directed PROVE Rooted(req'[c].save)
    BY <1>1, <2>1 DEF SavedRooted, Saving
  <2>2. QED BY <2>1 DEF SavedRooted, Rooted, IsTree
<1>2. ASSUME NEW c \in Client, Send(c) PROVE SavedRooted'
  <2>1. PICK n \in Name, g \in Graph \cup {Unsaved}, old \in Name \cup {None} : Open(c, n, g, old)
    BY <1>2 DEF Send, NewStemma, ReplaceStemma
  <2>2. ~Saving(c)' /\ \A d \in Client \ {c} : req'[d] = req[d]
    BY <1>0, <2>1 DEF Open, Saving
  <2>3. QED BY <1>1, <2>2
<1>3. ASSUME NEW c \in Client, Import(c) PROVE SavedRooted'
  <2> DEFINE g == req[c].graph
  <2>1. req[c] \in Request /\ g \in Graph
    BY <1>0, <1>3 DEF Import, Request
  <2>2. PICK i \in Id, root \in Roots(g) :
          /\ g.directed => root # None
          /\ \E k \in Nodes(g, i) : req' = [req EXCEPT ![c].save = Writes(g, i, root, k)]
    BY <1>3 DEF Import
  <2>3. PICK k \in Nodes(g, i) : req' = [req EXCEPT ![c].save = Writes(g, i, root, k)]
    BY <2>2
  <2> DEFINE v == Writes(g, i, root, k)
  <2>4. g.directed => Rooted(v)
    BY <2>1, <2>2, WritesRooted
  <2> HIDE DEF v
  <2>5. req'[c].graph = g /\ req'[c].save = v /\ \A d \in Client \ {c} : req'[d] = req[d]
    BY <1>0, <2>1, <2>3 DEF Request, v
  <2>6. ASSUME NEW d \in Client, Saving(d)', req'[d].graph.directed PROVE Rooted(req'[d].save)
    <3>1. CASE d = c
      BY <2>4, <2>5, <2>6, <3>1
    <3>2. CASE d # c
      BY <2>5, <2>6, <3>2 DEF SavedRooted, Saving
    <3>3. QED BY <3>1, <3>2
  <2>7. QED BY <2>6 DEF SavedRooted, Rooted, IsTree
<1>4. ASSUME NEW c \in Client, Commit(c) \/ Abort(c) PROVE SavedRooted'
  <2>1. req' = [req EXCEPT ![c] = Idle]
    BY <1>4 DEF Commit, Abort
  <2>2. ~Saving(c)' /\ \A d \in Client \ {c} : req'[d] = req[d]
    BY <1>0, <2>1 DEF Saving
  <2>3. QED BY <1>1, <2>2
<1>5. ASSUME req' = req PROVE SavedRooted'
  BY <1>1, <1>5
<1>6. QED BY <1>2, <1>3, <1>4, <1>5 DEF Next, DeleteStemma, Reorient, vars

\* Where the transmissions of a new stemma are a tree, its archetype is the top, in
\* whatever order the search comes by the witnesses and whatever runs beside it.
THEOREM TreesRooted == Spec => TreeRooted
<1> DEFINE Top(i) == stemma'[i].directed =>
              \A top \in stemma'[i].wits :
                IsTree(stemma'[i].wits, {<<l.from, l.to>> : l \in {k \in sent' : k.by = i}}, top)
                  => stemma'[i].archetype = top
<1>1. Init => SavedRooted
  BY DEF Init, SavedRooted, Saving, Idle
<1>2. IInv /\ SavedRooted /\ [Next]_vars
        => [\A i \in (DOMAIN stemma') \ DOMAIN stemma :
              stemma'[i].directed =>
                \A top \in stemma'[i].wits :
                  IsTree(stemma'[i].wits, {<<l.from, l.to>> : l \in {k \in sent' : k.by = i}}, top)
                    => stemma'[i].archetype = top]_vars
  <2> SUFFICES ASSUME IInv, SavedRooted, Next, NEW i \in (DOMAIN stemma') \ DOMAIN stemma
               PROVE  Top(i)
    OBVIOUS
  <2> HIDE DEF Top
  <2>1. ASSUME NEW j \in DOMAIN stemma, RemoveStemma(j) PROVE FALSE
    BY <2>1 DEF RemoveStemma
  <2>2. ASSUME NEW c \in Client, Send(c) PROVE FALSE
    BY <2>1, <2>2 DEF Send, NewStemma, ReplaceStemma, Named
  <2>3. ASSUME NEW c \in Client, Import(c) \/ Abort(c) PROVE FALSE
    BY <2>3 DEF Import, Abort
  <2>4. ASSUME NEW n \in Name, DeleteStemma(n) PROVE FALSE
    BY <2>1, <2>4 DEF DeleteStemma, Named
  <2>5. ASSUME NEW n \in Name, NEW s \in Sigil, Reorient(n, s) PROVE FALSE
    BY <2>5 DEF Reorient
  <2>6. ASSUME NEW c \in Client, Commit(c) PROVE Top(i)
    <3> DEFINE r     == req[c]
               v     == r.save
               links == {[name |-> r.name, by |-> v.id, from |-> e[1], to |-> e[2]] : e \in v.edges}
               own   == {<<l.from, l.to>> : l \in {k \in sent' : k.by = i}}
    <3>1. Saving(c) /\ r \in Request /\ v \in Saved
      BY <2>6 DEF Commit, Saving, IInv, TypeOK, Request
    <3>2. v.edges \subseteq Node \X Node
      BY <3>1 DEF Saved
    <3>3. i = v.id
      BY <2>6 DEF Commit
    <3>4. /\ stemma'[i].wits = v.wits /\ stemma'[i].archetype = v.archetype
          /\ stemma'[i].directed = r.graph.directed /\ sent' = sent \cup links
      BY <2>6, <3>3 DEF Commit
    <3>5. \A l \in sent : l.by # i
      BY DEF IInv, LinksOwned
    <3>6. \A e \in v.edges : e = <<e[1], e[2]>>
      BY <3>2
    <3>7. {k \in sent' : k.by = i} = links
      BY <3>3, <3>4, <3>5
    <3>8. own = {<<l.from, l.to>> : l \in links}
      BY <3>7
    <3>9. {<<l.from, l.to>> : l \in links} = v.edges
      <4>1. ASSUME NEW e \in v.edges PROVE \E l \in links : e = <<l.from, l.to>>
        <5> DEFINE l == [name |-> r.name, by |-> v.id, from |-> e[1], to |-> e[2]]
        <5>1. l \in links
          OBVIOUS
        <5>2. e = <<l.from, l.to>>
          BY <3>6
        <5> HIDE DEF l, links
        <5>3. QED BY <5>1, <5>2
      <4>2. \A l \in links : <<l.from, l.to>> \in v.edges
        BY <3>6
      <4> HIDE DEF links, v
      <4>3. QED BY <4>1, <4>2
    <3>10. r.graph.directed => Rooted(v)
      BY <3>1 DEF SavedRooted
    <3> HIDE DEF r, v, links
    <3>11. QED BY <3>4, <3>8, <3>9, <3>10 DEF Rooted, Top
  <2>7. QED BY <2>2, <2>3, <2>4, <2>5, <2>6 DEF Next
<1>3. QED BY <1>1, <1>2, InitInv, StepInv, RootedStep, PTL DEF Spec, TreeRooted

=============================================================================
