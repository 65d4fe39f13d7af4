---------------------------- MODULE Annotations ----------------------------
(***************************************************************************)
(* The annotations of a tradition, their labels and their links.           *)
(*                                                                         *)
(* An annotation is linked to readings, and to other annotations.  Which   *)
(* links it may have is said by the specification of its label.  When an   *)
(* annotation is deleted, those go with it that are left without a link,   *)
(* unless they are primary.                                                *)
(*                                                                         *)
(* A request is one transaction: it reads what is committed and decides,   *)
(* and it commits later.  What it deletes and what it links to is locked   *)
(* in the end, what it has only read is not.                               *)
(***************************************************************************)
EXTENDS Naturals, FiniteSets

CONSTANTS
  Name,      \* names of labels
  Anno,      \* identities of annotation nodes
  Read,      \* identities of readings that may be annotated
  Client,    \* requests that may run at the same time
  Linkset,   \* the sets of kinds of nodes that clients allow links to
  MaxLinks,  \* bound: links that are there when more are asked for, those included
  Reading,   \* the kind of node that readings are
  None       \* nothing

ASSUME AnnotationsAssumption ==
  /\ Anno \cap Read = {} /\ None \notin Anno \cup Read \cup Name
  /\ Reading \notin Name
  /\ Linkset \subseteq SUBSET (Name \cup {Reading})
  /\ MaxLinks \in Nat

VARIABLES
  allowed,  \* the labels, and the kinds of nodes that each may be linked to
  anno,     \* annotation nodes, and the label of each
  primary,  \* those marked as primary
  reading,  \* readings that are there
  link,     \* how many links lead from an annotation to a node
  req       \* the open request of each client, or Idle

vars == <<allowed, anno, primary, reading, link, req>>
graph == <<allowed, anno, primary, reading, link>>

Idle == <<>>
Place == Anno \X (Anno \cup Read)
Step == {"post", "put", "delete", "link", "unlink", "unlabel"}

\* What a request is going to write: the annotation it is about, the node at
\* the other end of a link, the label, the mark, the links of a new annotation
\* and the annotations that are going to be deleted.
Request == [step : Step, anno : Anno \cup {None}, target : Anno \cup Read \cup {None},
            name : Name \cup {None}, mark : BOOLEAN, links : SUBSET (Anno \cup Read),
            gone : SUBSET Anno]
Ask(step) == [step |-> step, anno |-> None, target |-> None, name |-> None, mark |-> FALSE,
              links |-> {}, gone |-> {}]

Node    == DOMAIN anno \cup reading
Kind(t) == IF t \in Read THEN Reading ELSE anno[t]
Out(a)  == {t \in Anno \cup Read : link[<<a, t>>] > 0}
Room(n) == Cardinality({p \in Place : link[p] > 0}) + n <= MaxLinks

At(c, step) == req[c] # Idle /\ req[c].step = step

\* A request reads and is going to write.
Begin(c, r) == req[c] = Idle /\ req' = [req EXCEPT ![c] = r] /\ UNCHANGED graph

\* Mutant: also what is primary goes.
ClosedForAll(S) == \A p \in DOMAIN anno : Out(p) # {} /\ Out(p) \subseteq S => p \in S

\* Nothing but S and what is primary would be left without a link by the
\* deletion of S.
Closed(S) == \A p \in DOMAIN anno \ primary : Out(p) # {} /\ Out(p) \subseteq S => p \in S

\* Mutant: only what is linked to the annotation itself.
DoomedDirectly(a) ==
  {x \in DOMAIN anno : x = a \/ (x \notin primary /\ Out(x) = {a})}

\* deleteIfDangling: the annotation, and whatever that leaves dangling.
Doomed(a) == {x \in DOMAIN anno : \A S \in SUBSET DOMAIN anno : a \in S /\ Closed(S) => x \in S}

-----------------------------------------------------------------------------
Init ==
  /\ allowed = <<>> /\ anno = <<>> /\ primary = {} /\ reading = Read
  /\ link = [p \in Place |-> 0]
  /\ req = [c \in Client |-> Idle]

\* POST annotation: links that are not allowed are passed over, and a primary
\* annotation gets no more than its first one.
AddAnnotation(c) ==
  \E n \in DOMAIN allowed, mark \in BOOLEAN, links \in SUBSET Node :
    /\ \A t \in links : Kind(t) \in allowed[n]
    /\ mark => Cardinality(links) <= 1
    /\ Room(Cardinality(links))
    /\ Begin(c, [Ask("post") EXCEPT !.name = n, !.mark = mark, !.links = links])

\* PUT annotation, as far as its first transaction.
UpdateAnnotation(c, a) ==
  \E n \in DOMAIN allowed, mark \in BOOLEAN :
    a \in DOMAIN anno /\ Begin(c, [Ask("put") EXCEPT !.anno = a, !.name = n, !.mark = mark])

DeleteAnnotation(c, a) ==
  a \in DOMAIN anno /\ Begin(c, [Ask("delete") EXCEPT !.anno = a, !.gone = Doomed(a)])

\* Mutant: a link is added to those that are there.
UnlinkedAnyway(a, t) == TRUE

\* findExistingLink, whatever the type of the link.
Unlinked(a, t) == link[<<a, t>>] = 0

\* POST annotation/link.
AddAnnotationLink(c, a, t) ==
  /\ a \in DOMAIN anno /\ t \in Node /\ Unlinked(a, t) /\ Room(1)
  /\ anno[a] \in DOMAIN allowed /\ Kind(t) \in allowed[anno[a]]
  /\ Begin(c, [Ask("link") EXCEPT !.anno = a, !.target = t])

\* DELETE annotation/link.  What is left without a link stays.
DeleteAnnotationLink(c, a, t) ==
  /\ a \in DOMAIN anno /\ ~Unlinked(a, t)
  /\ Begin(c, [Ask("unlink") EXCEPT !.anno = a, !.target = t])

\* Mutant: nobody looks for annotations of the label.
UnusedAnyway(n) == TRUE

Unused(n) == \A a \in DOMAIN anno : anno[a] # n

\* DELETE annotationlabel.
DeleteAnnotationLabel(c, n) ==
  n \in DOMAIN allowed /\ Unused(n) /\ Begin(c, [Ask("unlabel") EXCEPT !.name = n])

-----------------------------------------------------------------------------
\* Mutant: what is gone or linked anew goes unnoticed.
HoldsNothing(r, pairs, nodes) == FALSE

\* Mutant: a link is added to an annotation that is being deleted.
HoldsNodes(r, pairs, nodes) ==
  /\ r # Idle
  /\ \/ r.anno \in nodes \/ r.target \in nodes \/ r.links \cap nodes # {}
     \/ r.gone \cap nodes # {}

\* A transaction fails that links to what is gone, deletes what is gone, or
\* deletes a node that has other links by now than those it has deleted.
Holds(r, pairs, nodes) ==
  /\ r # Idle
  /\ \/ r.anno \in nodes \/ r.target \in nodes \/ r.links \cap nodes # {}
     \/ r.gone \cap nodes # {}
     \/ \E p \in pairs : p[1] \in r.gone \/ p[2] \in r.gone

\* The links of the pairs have changed, or the nodes are gone.
Finish(c, pairs, nodes) ==
  req' = [d \in Client |-> IF d = c \/ Holds(req[d], pairs, nodes) THEN Idle ELSE req[d]]

Posted(c) ==
  LET r == req[c]
  IN  /\ At(c, "post")
      /\ \E a \in Anno \ DOMAIN anno :
           LET made == {a} \X r.links
           IN  /\ anno' = [x \in DOMAIN anno \cup {a} |-> IF x = a THEN r.name ELSE anno[x]]
               /\ primary' = IF r.mark THEN primary \cup {a} ELSE primary
               /\ link' = [p \in Place |-> IF p \in made THEN link[p] + 1 ELSE link[p]]
               /\ Finish(c, made, {})
      /\ UNCHANGED <<allowed, reading>>

\* The old properties are gone with this commit, the mark among them.  The
\* transaction that sets the new ones is not committed; links that come along
\* are added one by one, as by requests of their own.
Put(c) ==
  LET r == req[c]
  IN  /\ At(c, "put")
      /\ anno' = [anno EXCEPT ![r.anno] = r.name]
      /\ primary' = primary \ {r.anno}
      /\ Finish(c, {}, {})
      /\ UNCHANGED <<allowed, reading, link>>

Deleted(c) ==
  LET gone == req[c].gone
      cut  == {p \in Place : link[p] > 0 /\ (p[1] \in gone \/ p[2] \in gone)}
  IN  /\ At(c, "delete")
      /\ anno' = [x \in DOMAIN anno \ gone |-> anno[x]]
      /\ primary' = primary \ gone
      /\ link' = [p \in Place |-> IF p \in cut THEN 0 ELSE link[p]]
      /\ Finish(c, cut, gone)
      /\ UNCHANGED <<allowed, reading>>

Linked(c) ==
  LET p == <<req[c].anno, req[c].target>>
  IN  /\ At(c, "link")
      /\ link' = [link EXCEPT ![p] = @ + 1]
      /\ Finish(c, {p}, {})
      /\ UNCHANGED <<allowed, anno, primary, reading>>

\* Of two such requests the second fails, unless there is another link.
Cut(c) ==
  LET p == <<req[c].anno, req[c].target>>
  IN  /\ At(c, "unlink")
      /\ link' = [link EXCEPT ![p] = @ - 1]
      /\ req' = [d \in Client |->
                   IF \/ d = c \/ Holds(req[d], {p}, {})
                      \/ At(d, "unlink") /\ <<req[d].anno, req[d].target>> = p /\ link[p] = 1
                   THEN Idle ELSE req[d]]
      /\ UNCHANGED <<allowed, anno, primary, reading>>

Unlabelled(c) ==
  LET n == req[c].name
  IN  /\ At(c, "unlabel")
      /\ allowed' = [m \in DOMAIN allowed \ {n} |-> allowed[m]]
      /\ req' = [d \in Client |-> IF d = c \/ (At(d, "unlabel") /\ req[d].name = n) THEN Idle ELSE req[d]]
      /\ UNCHANGED <<anno, primary, reading, link>>

\* PUT annotationlabel.  The kinds have to be known; another name than that in
\* the request is checked and forgotten.
PutLabel(n, kinds) ==
  /\ kinds \subseteq DOMAIN allowed \cup {n, Reading}
  /\ allowed' = [m \in DOMAIN allowed \cup {n} |-> IF m = n THEN kinds ELSE allowed[m]]
  /\ req' = [d \in Client |-> IF At(d, "unlabel") /\ req[d].name = n THEN Idle ELSE req[d]]
  /\ UNCHANGED <<anno, primary, reading, link>>

\* A request of the collation or the section deletes a reading with all that
\* hangs on it; the annotations of that reading are not looked after.
DeleteReading(t) ==
  LET cut == {p \in Place : link[p] > 0 /\ p[2] = t}
  IN  /\ t \in reading
      /\ reading' = reading \ {t}
      /\ link' = [p \in Place |-> IF p \in cut THEN 0 ELSE link[p]]
      /\ req' = [d \in Client |-> IF Holds(req[d], cut, {t}) THEN Idle ELSE req[d]]
      /\ UNCHANGED <<allowed, anno, primary>>

\* An error of the database, a lost deadlock, a stop of the server.
Abort(c) == req[c] # Idle /\ req' = [req EXCEPT ![c] = Idle] /\ UNCHANGED graph

Proceed(c) == Posted(c) \/ Put(c) \/ Deleted(c) \/ Linked(c) \/ Cut(c) \/ Unlabelled(c) \/ Abort(c)

Send(c) ==
  \/ AddAnnotation(c)
  \/ \E a \in Anno : UpdateAnnotation(c, a) \/ DeleteAnnotation(c, a)
  \/ \E p \in Place : AddAnnotationLink(c, p[1], p[2]) \/ DeleteAnnotationLink(c, p[1], p[2])
  \/ \E n \in Name : DeleteAnnotationLabel(c, n)

Next ==
  \/ \E n \in Name, kinds \in Linkset : PutLabel(n, kinds)
  \/ \E t \in Read : DeleteReading(t)
  \/ \E c \in Client : Send(c) \/ Proceed(c)

Spec == Init /\ [][Next]_vars

=============================================================================
