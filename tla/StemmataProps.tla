---------------------------- MODULE StemmataProps ----------------------------
(***************************************************************************)
(* What has to hold of the stemmata of a tradition.                        *)
(***************************************************************************)
EXTENDS Stemmata

Saved == [id : Id, wits : SUBSET Node, supposed : SUBSET Node,
          edges : SUBSET (Node \X Node), archetype : Node \cup {None}]
Request == [name : Name, graph : Graph \cup {Unsaved}, replaces : Name \cup {None},
            save : Saved \cup {None}]
Stemma  == [name : Name, wits : SUBSET Node, archetype : Node \cup {None}, directed : BOOLEAN]

\* Types.  A stemma joins witness nodes that are there and that the text or a
\* stemma brought in, and an archetype is one of its witnesses.
TypeOK ==
  /\ witness \subseteq Node /\ hypothetical \subseteq witness
  /\ stemma \in [DOMAIN stemma -> Stemma] /\ DOMAIN stemma \subseteq Id
  /\ \A i \in DOMAIN stemma : stemma[i].wits \subseteq witness
  /\ \A i \in DOMAIN stemma : stemma[i].archetype \in stemma[i].wits \cup {None}
  /\ sent \subseteq [name : Name, by : Id, from : Node, to : Node]
  /\ req \in [Client -> Request \cup {Idle}]

\* However requests run beside each other, a transmission is one between two
\* witnesses of the stemma that it came with, which is still there
\* (deleteStemma finds the transmissions by their name, from the witnesses).
LinksOwned ==
  \A l \in sent : /\ l.by \in DOMAIN stemma
                  /\ l.name = stemma[l.by].name
                  /\ {l.from, l.to} \subseteq stemma[l.by].wits

-----------------------------------------------------------------------------
(* Requests that keep apart: two open ones are on two names.               *)

SendApart(c) ==
  \E n \in {m \in Name : \A d \in Client : req[d] # Idle => req[d].name # m},
     g \in Graph \cup {Unsaved} :
       NewStemma(c, n, g) \/ \E old \in Name : ReplaceStemma(c, old, n, g)

NextApart ==
  \/ \E c \in Client : SendApart(c) \/ Import(c) \/ Commit(c) \/ Abort(c)
  \/ \E n \in Name : DeleteStemma(n) \/ \E s \in Sigil : Reorient(n, s)

SpecApart == Init /\ [][NextApart]_vars

\* No two stemmata of a tradition have the same name, as long as no two requests
\* on one name run at the same time (the deletion of a replacement commits before
\* saveToNeo looks for the name, and nothing locks a name that is free).
NamesUnique ==
  \A i, j \in DOMAIN stemma : stemma[i].name = stemma[j].name => i = j

\* As long as names are unique, a stemma keeps its transmissions and witnesses
\* until it is deleted or replaced itself, whatever becomes of other stemmata of
\* the same witnesses (their transmissions differ in nothing but the name).
StemmaKept ==
  [][NamesUnique => \A i \in DOMAIN stemma \cap DOMAIN stemma' :
       /\ {l \in sent' : l.by = i} = {l \in sent : l.by = i}
       /\ stemma'[i].wits = stemma[i].wits]_vars

\* Where the transmissions of a new stemma are a tree, its archetype is the top
\* (the search of saveToNeo goes by walks and their ends, from the witnesses in
\* any order).
IsTree(V, E, top) ==
  /\ \A w \in V : Cardinality({e \in E : e[2] = w}) = IF w = top THEN 0 ELSE 1
  /\ \A W \in SUBSET (V \ {top}) : W # {} => \E e \in E : e[1] \notin W /\ e[2] \in W

TreeRooted ==
  [][\A i \in (DOMAIN stemma') \ DOMAIN stemma :
       stemma'[i].directed =>
         \A top \in stemma'[i].wits :
           IsTree(stemma'[i].wits, {<<l.from, l.to>> : l \in {k \in sent' : k.by = i}}, top)
             => stemma'[i].archetype = top]_vars

\* "so that we can roll back the deletion if the replacement import fails"
\* (replaceStemma): a replacement that fails leaves a stemma of that name.
ReplaceKeeps ==
  [][\A c \in Client : req[c] # Idle /\ req[c].replaces # None /\ Abort(c)
                          => Named(req[c].replaces) # {}]_vars

=============================================================================
