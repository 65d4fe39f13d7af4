------------------------------ MODULE Stemmata ------------------------------
(***************************************************************************)
(* The stemmata of a tradition: hypotheses on which witness was copied     *)
(* from which.                                                             *)
(*                                                                         *)
(* A stemma is a node with links to its witnesses and to its archetype.    *)
(* The transmissions between witnesses carry the name of the stemma, and   *)
(* nothing but the name tells the transmissions of two stemmata apart.     *)
(* Witnesses that a stemma brings in stay when the stemma goes.  A         *)
(* replacement is two transactions: the first deletes the old stemma, the  *)
(* second reads, checks and saves the new one.                             *)
(***************************************************************************)
EXTENDS Naturals, FiniteSets, SequencesExt

CONSTANTS
  Sigil,    \* names of witnesses
  Extant,   \* those that the texts have brought in
  Name,     \* names of stemmata
  Id,       \* identities of stemma nodes
  Client,   \* requests that may run at the same time
  Graph,    \* the DOT graphs that clients send
  Unsaved,  \* DOT that cannot be parsed, or a Newick tree
  None      \* no node

VARIABLES
  witness,       \* witness nodes: a sigil, and the stemma that brought it in
  hypothetical,  \* those that are marked hypothetical
  stemma,        \* the stemma nodes
  sent,          \* TRANSMITTED links
  req            \* the open request of each client, or Idle

vars == <<witness, hypothetical, stemma, sent, req>>

Idle  == <<>>
Node  == Sigil \X (Id \cup {None})
Class == {"extant", "hypothetical", "unmarked"}

\* A DOT graph: its nodes with their classes, its edges.
IsGraph(g) ==
  /\ g = [class |-> g.class, edges |-> g.edges, directed |-> g.directed]
  /\ g.class \in UNION {[S -> Class] : S \in SUBSET Sigil}
  /\ IsFiniteSet(DOMAIN g.class)
  /\ g.edges \subseteq (DOMAIN g.class) \X (DOMAIN g.class)
  /\ g.directed \in BOOLEAN

ASSUME StemmataAssumption ==
  /\ Extant \subseteq Sigil
  /\ None \notin Id \cup Name \cup Node
  /\ \A g \in Graph : IsGraph(g)
  /\ Unsaved \notin Graph

Named(n)    == {i \in DOMAIN stemma : stemma[i].name = n}
Marked(g, class) == {s \in DOMAIN g.class : g.class[s] = class}

-----------------------------------------------------------------------------
(* The archetype of a directed graph.                                      *)

\* Mutant: the walk goes from a witness to its copies.
Below(E, s) == {e[2] : e \in {d \in E : d[1] = s}}

\* The witnesses from which s was copied.
Above(E, s) == {e[1] : e \in {d \in E : d[2] = s}}

\* What a depth-first walk upwards from s may visit, in that order.
Walks(V, E, s) ==
  {q \in UNION {[1 .. k -> V] : k \in 1 .. Cardinality(V)} :
     /\ q[1] = s /\ IsInjective(q)
     /\ \A i \in 2 .. Len(q) : \E k \in 1 .. i - 1 :
          /\ q[i] \in Above(E, q[k])
          /\ \A j \in k + 1 .. i - 1 : Above(E, q[j]) \subseteq {q[m] : m \in 1 .. i - 1}
     /\ \A i \in 1 .. Len(q) : Above(E, q[i]) \subseteq ToSet(q)}

\* One walk, from a witness not seen so far.  Meeting one seen before ends the
\* search; otherwise the walk has to end where the others did.
Walked(f, q) ==
  CASE ToSet(q) \cap f.seen # {} -> [f EXCEPT !.done = TRUE]
    [] f.root \notin {None, Last(q)} -> [f EXCEPT !.root = None, !.done = TRUE]
    [] OTHER -> [f EXCEPT !.seen = @ \cup ToSet(q), !.root = Last(q)]

\* The search goes on with the witness s, unless it has ended or has come by s.
Turn(V, E, F, s) ==
  UNION {IF f.done \/ s \in f.seen THEN {f} ELSE {Walked(f, q) : q \in Walks(V, E, s)} : f \in F}

\* What it may have found by the end, with the witnesses in the order o.
Found(V, E, o) ==
  LET none == [seen |-> {}, root |-> None, done |-> FALSE]
      after[k \in 0 .. Len(o)] ==
        IF k = 0 THEN {none} ELSE Turn(V, E, after[k - 1], o[k])
  IN  after[Len(o)]

\* The archetypes it may come to, as the witnesses come in any order; None where
\* it finds two archetypes or has nowhere to start.
Archetypes(V, E) ==
  {root \in V \cup {None} : \E o \in SetToSeqs(V) : \E f \in Found(V, E, o) : f.root = root}

-----------------------------------------------------------------------------
Init ==
  /\ witness = Extant \X {None} /\ hypothetical = {}
  /\ stemma = <<>> /\ sent = {}
  /\ req = [c \in Client |-> Idle]

Open(c, n, g, replaces) ==
  /\ req[c] = Idle
  /\ req' = [req EXCEPT ![c] = [name |-> n, graph |-> g, replaces |-> replaces, save |-> None]]

\* Mutant: the name is not looked at.
PassedByAny(i) == {l \in sent : {l.from, l.to} \cap stemma[i].wits # {}}

\* Mutant: looked for before the witnesses of the stemma have been collected.
PassedEarly(i) == {l \in sent : l.name = stemma[i].name /\ {l.from, l.to} \cap {i} # {}}

\* The transmissions that go with a stemma: those of its name at its witnesses.
Passed(i) ==
  {l \in sent : l.name = stemma[i].name /\ {l.from, l.to} \cap stemma[i].wits # {}}

\* Mutant: the witnesses go too.
RemoveWhole(i) ==
  /\ stemma' = [j \in DOMAIN stemma \ {i} |-> stemma[j]]
  /\ sent' = sent \ Passed(i)
  /\ witness' = witness \ stemma[i].wits
  /\ UNCHANGED hypothetical

\* deleteStemma.  The witnesses are linked to the tradition, so they stay.
RemoveStemma(i) ==
  /\ stemma' = [j \in DOMAIN stemma \ {i} |-> stemma[j]]
  /\ sent' = sent \ Passed(i)
  /\ UNCHANGED <<witness, hypothetical>>

\* DELETE /tradition/{id}/stemma/{name}.
DeleteStemma(n) ==
  /\ \E i \in Named(n) : RemoveStemma(i)
  /\ UNCHANGED req

\* POST /tradition/{id}/stemma.
NewStemma(c, n, g) ==
  /\ Open(c, n, g, None)
  /\ UNCHANGED <<witness, hypothetical, stemma, sent>>

\* PUT /tradition/{id}/stemma/{old}: the deletion commits on its own.  The name
\* of the new stemma is that of the graph, which need not be the old one.
ReplaceStemma(c, old, n, g) ==
  /\ Open(c, n, g, old)
  /\ \E i \in Named(old) : RemoveStemma(i)

\* The witness nodes of a graph for the stemma i: one of that sigil if there is
\* any, and otherwise a new one.
Nodes(g, i) ==
  {k \in [DOMAIN g.class -> Node] : \A s \in DOMAIN g.class :
     LET known == {w \in witness : w[1] = s}
     IN  k[s] \in (IF known = {} THEN {<<s, i>>} ELSE known)}

\* Every witness is marked, and none that is extant is to be hypothetical.
Agree(g, k) ==
  /\ Marked(g, "unmarked") = {}
  /\ \A s \in Marked(g, "hypothetical") : k[s] \notin witness \ hypothetical

Roots(g) == IF g.directed THEN Archetypes(DOMAIN g.class, g.edges) ELSE {None}

\* Mutant: nobody looks whether there is a stemma of that name.
AnyName(n) == TRUE

Free(n) == Named(n) = {}

\* What the stemma i will be, with the nodes k.
Writes(g, i, root, k) ==
  [id        |-> i,
   wits      |-> {k[s] : s \in DOMAIN g.class},
   supposed  |-> {k[s] : s \in Marked(g, "hypothetical")},
   edges     |-> {<<k[e[1]], k[e[2]]>> : e \in g.edges},
   archetype |-> IF root = None THEN None ELSE k[root]]

\* saveToNeo, on what is committed by now: all checks, and the writes.
Import(c) ==
  LET r == req[c]
      g == r.graph
  IN  /\ r # Idle /\ r.save = None /\ g # Unsaved
      /\ Free(r.name)
      /\ \E i \in Id \ DOMAIN stemma, root \in Roots(g) :
           /\ \A d \in Client : req[d] # Idle /\ req[d].save # None => req[d].save.id # i
           /\ g.directed => root # None
           /\ \E k \in Nodes(g, i) :
                /\ Agree(g, k)
                /\ req' = [req EXCEPT ![c].save = Writes(g, i, root, k)]
      /\ UNCHANGED <<witness, hypothetical, stemma, sent>>

Commit(c) ==
  LET r == req[c]
      v == r.save
  IN  /\ r # Idle /\ v # None
      /\ witness' = witness \cup v.wits
      /\ hypothetical' = hypothetical \cup v.supposed
      /\ stemma' = [i \in DOMAIN stemma \cup {v.id} |->
                      IF i # v.id THEN stemma[i]
                      ELSE [name |-> r.name, wits |-> v.wits, archetype |-> v.archetype,
                            directed |-> r.graph.directed]]
      /\ sent' = sent \cup {[name |-> r.name, by |-> v.id, from |-> e[1], to |-> e[2]] :
                              e \in v.edges}
      /\ req' = [req EXCEPT ![c] = Idle]

\* Why an import may be refused.
Refused(n, g) ==
  \/ ~Free(n)
  \/ \E i \in Id : \E k \in Nodes(g, i) : ~Agree(g, k)
  \/ g.directed /\ None \in Roots(g)

\* The import fails.  A Newick tree is saved in a transaction that is never
\* committed, and a transaction that has saved may still lose a deadlock.
Abort(c) ==
  LET r == req[c]
  IN  /\ r # Idle
      /\ \/ r.save # None
         \/ r.graph = Unsaved
         \/ r.graph # Unsaved /\ Refused(r.name, r.graph)
      /\ req' = [req EXCEPT ![c] = Idle]
      /\ UNCHANGED <<witness, hypothetical, stemma, sent>>

\* POST /tradition/{id}/stemma/{name}/reorient/{sigil}.  The transmissions stay
\* as they are, readers follow them both ways.  No stemma is ever marked as
\* contaminated: the walk that looks for a circle stops where it starts.
Reorient(n, s) ==
  /\ \E i \in Named(n) : \E w \in stemma[i].wits :
       /\ w[1] = s
       /\ stemma' = [stemma EXCEPT ![i].archetype = w, ![i].directed = TRUE]
  /\ UNCHANGED <<witness, hypothetical, sent, req>>

Send(c) ==
  \E n \in Name, g \in Graph \cup {Unsaved} :
    NewStemma(c, n, g) \/ \E old \in Name : ReplaceStemma(c, old, n, g)

Next ==
  \/ \E c \in Client : Send(c) \/ Import(c) \/ Commit(c) \/ Abort(c)
  \/ \E n \in Name : DeleteStemma(n) \/ \E s \in Sigil : Reorient(n, s)

Spec == Init /\ [][Next]_vars

=============================================================================
