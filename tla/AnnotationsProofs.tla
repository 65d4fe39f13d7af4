------------------------- MODULE AnnotationsProofs -------------------------
(***************************************************************************)
(* Links join what is there, and a deletion takes along only what it       *)
(* leaves dangling, however many requests run beside each other; its walk  *)
(* finds that in any order.                                                *)
(***************************************************************************)
EXTENDS AnnotationsWalk, SequenceTheorems, WellFoundedInduction, TLAPS

Graph ==
  /\ DOMAIN allowed \subseteq Name /\ allowed \in [DOMAIN allowed -> SUBSET (Name \cup {Reading})]
  /\ DOMAIN anno \subseteq Anno /\ anno \in [DOMAIN anno -> Name]
  /\ primary \subseteq DOMAIN anno /\ reading \subseteq Read
  /\ link \in [Place -> Nat]
  /\ \A p \in Place : link[p] > 0 => p[1] \in DOMAIN anno /\ p[2] \in Node

\* What a request may rely on until it commits.
Sound(r) ==
  /\ r \in Request
  /\ r.anno \in DOMAIN anno \cup {None} /\ r.target \in Node \cup {None}
  /\ r.links \subseteq Node /\ r.gone \subseteq DOMAIN anno
  /\ r.step # "delete" => r.gone = {}
  /\ r.step = "post" => r.name \in Name
  /\ r.step = "put" => r.anno \in DOMAIN anno /\ r.name \in Name
  /\ r.step \in {"link", "unlink"} => r.anno \in DOMAIN anno /\ r.target \in Node
  /\ r.step = "unlink" => link[<<r.anno, r.target>>] > 0
  /\ r.step = "delete" => r.anno \in r.gone
  /\ \A x \in r.gone \ {r.anno} : x \notin primary /\ Out(x) # {} /\ Out(x) \subseteq r.gone

IInv ==
  /\ Graph
  /\ req \in [Client -> Request \cup {Idle}]
  /\ \A c \in Client : req[c] # Idle => Sound(req[c])

LEMMA Typed == IInv => TypeOK
BY DEF IInv, Graph, Sound, TypeOK

LEMMA InitInv == Init => IInv
<1> SUFFICES ASSUME Init PROVE IInv
  OBVIOUS
<1>1. Graph
  BY DEF Init, Graph, Node
<1>2. QED BY <1>1 DEF Init, IInv, Idle

\* The walk from a takes along what is not primary and linked only to what
\* goes.
LEMMA DoomedDangling ==
  ASSUME NEW a \in DOMAIN anno, NEW x \in Doomed(a) \ {a}
  PROVE  x \notin primary /\ Out(x) # {} /\ Out(x) \subseteq Doomed(a)
<1> DEFINE T == Doomed(a) \ {x}
<1>1. a \in T /\ T \in SUBSET DOMAIN anno
  BY DEF Doomed
<1>2. ~Closed(T)
  BY <1>1 DEF Doomed
<1>3. PICK p \in DOMAIN anno \ primary : Out(p) # {} /\ Out(p) \subseteq T /\ p \notin T
  BY <1>2 DEF Closed
<1>4. p \in Doomed(a)
  <2> SUFFICES ASSUME NEW S \in SUBSET DOMAIN anno, a \in S, Closed(S) PROVE p \in S
    BY DEF Doomed
  <2>1. T \subseteq S
    BY DEF Doomed
  <2>2. QED BY <1>3, <2>1 DEF Closed
<1>5. p = x
  BY <1>3, <1>4
<1>6. QED BY <1>3, <1>5

\* What hangs only on doomed annotations is doomed too.
LEMMA DoomedClosed ==
  ASSUME NEW a \in DOMAIN anno
  PROVE  a \in Doomed(a) /\ Doomed(a) \subseteq DOMAIN anno /\ Closed(Doomed(a))
<1>1. a \in Doomed(a) /\ Doomed(a) \subseteq DOMAIN anno
  BY DEF Doomed
<1>2. ASSUME NEW p \in DOMAIN anno \ primary, Out(p) # {}, Out(p) \subseteq Doomed(a)
      PROVE  p \in Doomed(a)
  <2> SUFFICES ASSUME NEW S \in SUBSET DOMAIN anno, a \in S, Closed(S) PROVE p \in S
    BY DEF Doomed
  <2>1. Doomed(a) \subseteq S
    BY DEF Doomed
  <2>2. QED BY <1>2, <2>1 DEF Closed
<1>3. QED BY <1>1, <1>2 DEF Closed

\* A request begins.
LEMMA BeginInv ==
  ASSUME IInv, NEW c \in Client, NEW r, Begin(c, r), Sound(r)
  PROVE  IInv'
<1>1. Graph'
  BY DEF Begin, graph, IInv, Graph, Node
<1>2. req' \in [Client -> Request \cup {Idle}]
  BY DEF Begin, IInv, Sound
<1>3. ASSUME NEW d \in Client, req'[d] # Idle PROVE Sound(req[d])'
  <2>1. Sound(req'[d])
    BY <1>3 DEF Begin, IInv
  <2>2. QED BY <2>1 DEF Sound, Begin, graph, Node, Out
<1>4. QED BY <1>1, <1>2, <1>3 DEF IInv

\* What a request relies on stays, when it does not hold on to what changes.
LEMMA Survives ==
  ASSUME IInv, NEW pairs, NEW nodes, NEW d \in Client, req[d] # Idle, req'[d] = req[d],
         ~Holds(req[d], pairs, nodes),
         \A p \in Place : p \notin pairs => link'[p] = link[p],
         DOMAIN anno \ nodes \subseteq DOMAIN anno', reading \ nodes \subseteq reading',
         primary' \cap DOMAIN anno \subseteq primary,
         None \notin nodes,
         At(d, "unlink") => link'[<<req[d].anno, req[d].target>>] > 0
  PROVE  Sound(req[d])'
<1>1. Sound(req[d])
  BY DEF IInv
<1>2. \A x \in req[d].gone : x \in Anno /\ Out(x)' = Out(x)
  <2> SUFFICES ASSUME NEW x \in req[d].gone PROVE x \in Anno /\ Out(x)' = Out(x)
    OBVIOUS
  <2>1. x \in Anno
    BY <1>1 DEF Sound, IInv, Graph
  <2>2. \A t \in Anno \cup Read : link'[<<x, t>>] = link[<<x, t>>]
    BY <2>1 DEF Holds, Place
  <2>3. QED BY <2>1, <2>2 DEF Out
<1>3. QED BY <1>1, <1>2 DEF Sound, Holds, Node, At

\* A step ends some requests; the others hold on to nothing that it changes.
LEMMA StepInv ==
  ASSUME IInv, Graph', NEW pairs, NEW nodes,
         \A p \in Place : p \notin pairs => link'[p] = link[p],
         DOMAIN anno \ nodes \subseteq DOMAIN anno', reading \ nodes \subseteq reading',
         primary' \cap DOMAIN anno \subseteq primary,
         None \notin nodes,
         req' = [d \in Client |-> req'[d]],
         \A d \in Client : \/ req'[d] = Idle
                           \/ /\ req'[d] = req[d] /\ ~Holds(req[d], pairs, nodes)
                              /\ At(d, "unlink") => link'[<<req[d].anno, req[d].target>>] > 0
  PROVE  IInv'
<1>1. req' \in [Client -> Request \cup {Idle}]
  BY DEF IInv
<1>2. ASSUME NEW d \in Client, req'[d] # Idle PROVE Sound(req[d])'
  BY <1>2, Survives
<1>3. QED BY <1>1, <1>2 DEF IInv
-----------------------------------------------------------------------------
\* Each request asks for what is there.
LEMMA SendInv == ASSUME IInv, NEW c \in Client, Send(c) PROVE IInv'
<1>1. CASE AddAnnotation(c)
  <2>1. PICK n \in DOMAIN allowed, mark \in BOOLEAN, links \in SUBSET Node :
          Begin(c, [Ask("post") EXCEPT !.name = n, !.mark = mark, !.links = links])
    BY <1>1 DEF AddAnnotation
  <2> DEFINE r == [Ask("post") EXCEPT !.name = n, !.mark = mark, !.links = links]
  <2>2. Sound(r)
    BY <2>1 DEF Sound, Ask, Request, Step, IInv, Graph, Node
  <2> HIDE DEF r
  <2>3. QED BY <2>1, <2>2, BeginInv DEF r
<1>2. ASSUME NEW a \in Anno, UpdateAnnotation(c, a) PROVE IInv'
  <2>1. PICK n \in DOMAIN allowed, mark \in BOOLEAN :
          a \in DOMAIN anno /\ Begin(c, [Ask("put") EXCEPT !.anno = a, !.name = n, !.mark = mark])
    BY <1>2 DEF UpdateAnnotation
  <2> DEFINE r == [Ask("put") EXCEPT !.anno = a, !.name = n, !.mark = mark]
  <2>2. Sound(r)
    BY <2>1 DEF Sound, Ask, Request, Step, IInv, Graph, Node
  <2> HIDE DEF r
  <2>3. QED BY <2>1, <2>2, BeginInv DEF r
<1>3. ASSUME NEW a \in Anno, DeleteAnnotation(c, a) PROVE IInv'
  <2> DEFINE r == [Ask("delete") EXCEPT !.anno = a, !.gone = Doomed(a)]
  <2>1. a \in DOMAIN anno /\ Begin(c, r)
    BY <1>3 DEF DeleteAnnotation
  <2>2. a \in Doomed(a) /\ Doomed(a) \subseteq DOMAIN anno
    BY <2>1, DoomedClosed
  <2>3. \A x \in Doomed(a) \ {a} : x \notin primary /\ Out(x) # {} /\ Out(x) \subseteq Doomed(a)
    BY <2>1, DoomedDangling
  <2> DEFINE gone == Doomed(a)
  <2> HIDE DEF gone
  <2>4. gone \subseteq Anno
    BY <2>2 DEF gone, IInv, Graph
  <2>5. [Ask("delete") EXCEPT !.anno = a, !.gone = gone] \in Request
    BY <2>4 DEF Ask, Request, Step
  <2>6. Sound(r)
    <3>1. /\ r \in Request /\ r.anno = a /\ r.target = None /\ r.links = {} /\ r.gone = Doomed(a)
          /\ r.step = "delete"
      BY <2>5 DEF Ask, gone
    <3> HIDE DEF r
    <3>2. QED BY <2>1, <2>2, <2>3, <3>1 DEF Sound
  <2> HIDE DEF r
  <2>7. QED BY <2>1, <2>6, BeginInv
<1>4. ASSUME NEW p \in Place, AddAnnotationLink(c, p[1], p[2]) PROVE IInv'
  <2> DEFINE r == [Ask("link") EXCEPT !.anno = p[1], !.target = p[2]]
  <2>1. p[1] \in DOMAIN anno /\ p[2] \in Node /\ Begin(c, r)
    BY <1>4 DEF AddAnnotationLink
  <2>2. Sound(r)
    BY <2>1 DEF Sound, Ask, Request, Step, IInv, Graph, Node, Place
  <2> HIDE DEF r
  <2>3. QED BY <2>1, <2>2, BeginInv
<1>5. ASSUME NEW p \in Place, DeleteAnnotationLink(c, p[1], p[2]) PROVE IInv'
  <2> DEFINE r == [Ask("unlink") EXCEPT !.anno = p[1], !.target = p[2]]
  <2>1. p = <<p[1], p[2]>> /\ link[p] \in Nat
    BY DEF Place, IInv, Graph
  <2>2. p[1] \in DOMAIN anno /\ link[p] > 0 /\ Begin(c, r)
    BY <1>5, <2>1 DEF DeleteAnnotationLink, Unlinked
  <2>3. p[2] \in Node
    BY <2>2 DEF IInv, Graph
  <2>4. Sound(r)
    BY <2>1, <2>2, <2>3 DEF Sound, Ask, Request, Step, IInv, Graph, Node, Place
  <2> HIDE DEF r
  <2>5. QED BY <2>2, <2>4, BeginInv
<1>6. ASSUME NEW n \in Name, DeleteAnnotationLabel(c, n) PROVE IInv'
  <2> DEFINE r == [Ask("unlabel") EXCEPT !.name = n]
  <2>1. Begin(c, r)
    BY <1>6 DEF DeleteAnnotationLabel
  <2>2. Sound(r)
    BY DEF Sound, Ask, Request, Step, IInv, Graph, Node
  <2> HIDE DEF r
  <2>3. QED BY <2>1, <2>2, BeginInv
<1>7. QED BY <1>1, <1>2, <1>3, <1>4, <1>5, <1>6 DEF Send

\* Finish ends who holds on to what has changed.
LEMMA FinishEnds ==
  ASSUME NEW c \in Client, NEW pairs, NEW nodes, Finish(c, pairs, nodes)
  PROVE  /\ req' = [d \in Client |-> req'[d]]
         /\ \A d \in Client : req'[d] = Idle \/ (d # c /\ req'[d] = req[d] /\ ~Holds(req[d], pairs, nodes))
BY DEF Finish

LEMMA PostedInv == ASSUME IInv, NEW c \in Client, Posted(c) PROVE IInv'
<1> DEFINE r == req[c]
<1>1. PICK a \in Anno \ DOMAIN anno :
        /\ anno' = [x \in DOMAIN anno \cup {a} |-> IF x = a THEN r.name ELSE anno[x]]
        /\ primary' = IF r.mark THEN primary \cup {a} ELSE primary
        /\ link' = [p \in Place |-> IF p \in {a} \X r.links THEN link[p] + 1 ELSE link[p]]
        /\ Finish(c, {a} \X r.links, {})
  BY DEF Posted
<1>2. r.name \in Name /\ r.links \subseteq Node /\ allowed' = allowed /\ reading' = reading
  BY DEF Posted, At, IInv, Sound
<1> HIDE DEF r
<1>3. Graph'
  <2>1. DOMAIN anno' = DOMAIN anno \cup {a} /\ anno' \in [DOMAIN anno' -> Name]
    BY <1>1, <1>2 DEF IInv, Graph
  <2>2. link' \in [Place -> Nat]
    BY <1>1 DEF IInv, Graph
  <2>3. \A p \in Place : link'[p] > 0 => p[1] \in DOMAIN anno' /\ p[2] \in Node'
    BY <1>1, <1>2, <2>1 DEF IInv, Graph, Node
  <2>4. QED BY <1>1, <1>2, <2>1, <2>2, <2>3 DEF IInv, Graph
<1>4. \A d \in Client : At(d, "unlink") => link[<<req[d].anno, req[d].target>>] > 0
                                           /\ <<req[d].anno, req[d].target>> \in Place
  BY DEF IInv, Sound, At, Place, Graph, Node
<1>5. \A p \in Place : link'[p] >= link[p]
  BY <1>1 DEF IInv, Graph
<1>6. \A d \in Client : At(d, "unlink") => link'[<<req[d].anno, req[d].target>>] > 0
  <2> SUFFICES ASSUME NEW d \in Client, At(d, "unlink") PROVE link'[<<req[d].anno, req[d].target>>] > 0
    OBVIOUS
  <2> DEFINE p == <<req[d].anno, req[d].target>>
  <2>1. p \in Place /\ link[p] > 0 /\ link[p] \in Nat /\ link'[p] \in Nat /\ link'[p] >= link[p]
    BY <1>3, <1>4, <1>5 DEF IInv, Graph
  <2> HIDE DEF p
  <2>2. link'[p] > 0
    BY <2>1
  <2>3. QED BY <2>2 DEF p
<1>7. \A p \in Place : p \notin {a} \X r.links => link'[p] = link[p]
  BY <1>1
<1>8. primary' \cap DOMAIN anno \subseteq primary /\ DOMAIN anno \subseteq DOMAIN anno'
  BY <1>1
<1> DEFINE made == {a} \X r.links
<1>9. Finish(c, made, {}) /\ \A p \in Place : p \notin made => link'[p] = link[p]
  BY <1>1, <1>7
<1> HIDE DEF made
<1>10. /\ req' = [d \in Client |-> req'[d]]
       /\ \A d \in Client : req'[d] = Idle \/ (d # c /\ req'[d] = req[d] /\ ~Holds(req[d], made, {}))
  BY <1>9, FinishEnds
<1>11. QED BY <1>2, <1>3, <1>6, <1>8, <1>9, <1>10, StepInv

LEMMA PutInv == ASSUME IInv, NEW c \in Client, Put(c) PROVE IInv'
<1>1. Sound(req[c]) /\ req[c].step = "put"
  BY DEF Put, At, IInv
<1>2. Graph'
  BY <1>1 DEF Put, IInv, Graph, Sound, Node
<1>3. Finish(c, {}, {}) /\ link' = link /\ reading' = reading /\ DOMAIN anno' = DOMAIN anno /\ primary' \subseteq primary
  BY DEF Put
<1>4. \A d \in Client : At(d, "unlink") => link'[<<req[d].anno, req[d].target>>] > 0
  BY <1>3 DEF IInv, Sound, At
<1>5. QED BY <1>2, <1>3, <1>4, FinishEnds, StepInv

LEMMA DeletedInv == ASSUME IInv, NEW c \in Client, Deleted(c) PROVE IInv'
<1> DEFINE gone == req[c].gone
           cut  == {p \in Place : link[p] > 0 /\ (p[1] \in gone \/ p[2] \in gone)}
<1>1. gone \subseteq Anno /\ None \notin gone
  BY AnnotationsAssumption DEF Deleted, At, IInv, Sound, Request, Graph
<1>2. /\ anno' = [x \in DOMAIN anno \ gone |-> anno[x]]
      /\ primary' = primary \ gone
      /\ link' = [p \in Place |-> IF p \in cut THEN 0 ELSE link[p]]
      /\ Finish(c, cut, gone)
      /\ allowed' = allowed /\ reading' = reading
  BY DEF Deleted
<1>3. Graph'
  <2>1. \A p \in Place : link'[p] > 0 => link[p] > 0 /\ p[1] \notin gone /\ p[2] \notin gone
    BY <1>2 DEF IInv, Graph
  <2>2. link' \in [Place -> Nat]
    BY <1>2 DEF IInv, Graph
  <2>3. QED BY <1>2, <2>1, <2>2 DEF IInv, Graph, Node
<1>4. ASSUME NEW d \in Client, At(d, "unlink"), ~Holds(req[d], cut, gone)
      PROVE  link'[<<req[d].anno, req[d].target>>] > 0
  <2>1. /\ <<req[d].anno, req[d].target>> \in Place /\ link[<<req[d].anno, req[d].target>>] > 0
        /\ req[d].anno \notin gone /\ req[d].target \notin gone
    BY <1>4 DEF IInv, Sound, At, Place, Graph, Node, Holds
  <2>2. <<req[d].anno, req[d].target>> \notin cut
    BY <2>1
  <2>3. QED BY <1>2, <2>1, <2>2
<1>5. \A p \in Place : p \notin cut => link'[p] = link[p]
  BY <1>2
<1> HIDE DEF gone, cut
<1>6. /\ req' = [d \in Client |-> req'[d]]
      /\ \A d \in Client : req'[d] = Idle \/ (d # c /\ req'[d] = req[d] /\ ~Holds(req[d], cut, gone))
  BY <1>2, FinishEnds
<1>7. /\ DOMAIN anno \ gone \subseteq DOMAIN anno' /\ reading \ gone \subseteq reading'
      /\ primary' \cap DOMAIN anno \subseteq primary
  BY <1>2
<1>8. QED BY <1>1, <1>3, <1>4, <1>5, <1>6, <1>7, StepInv

LEMMA LinkedInv == ASSUME IInv, NEW c \in Client, Linked(c) PROVE IInv'
<1> DEFINE p == <<req[c].anno, req[c].target>>
<1>1. p \in Place /\ p[1] \in DOMAIN anno /\ p[2] \in Node
  BY DEF Linked, At, IInv, Sound, Place, Graph, Node
<1>2. /\ link' = [link EXCEPT ![p] = @ + 1] /\ Finish(c, {p}, {})
      /\ allowed' = allowed /\ anno' = anno /\ primary' = primary /\ reading' = reading
  BY DEF Linked
<1> HIDE DEF p
<1>3. /\ link' \in [Place -> Nat] /\ \A q \in Place : q # p => link'[q] = link[q]
      /\ link'[p] > 0
  BY <1>1, <1>2 DEF IInv, Graph
<1>4. Graph'
  BY <1>1, <1>2, <1>3 DEF IInv, Graph, Node
<1>5. \A d \in Client : At(d, "unlink") => <<req[d].anno, req[d].target>> \in Place /\ link[<<req[d].anno, req[d].target>>] > 0
  BY DEF IInv, Sound, At, Place, Graph, Node
<1>6. \A d \in Client : At(d, "unlink") => link'[<<req[d].anno, req[d].target>>] > 0
  BY <1>3, <1>5
<1>7. QED BY <1>2, <1>3, <1>4, <1>6, FinishEnds, StepInv

LEMMA CutInv == ASSUME IInv, NEW c \in Client, Cut(c) PROVE IInv'
<1> DEFINE p == <<req[c].anno, req[c].target>>
<1>1. p \in Place /\ link[p] > 0 /\ link[p] \in Nat
  BY DEF Cut, At, IInv, Sound, Place, Graph, Node
<1>2. /\ link' = [link EXCEPT ![p] = @ - 1]
      /\ req' = [d \in Client |->
                   IF \/ d = c \/ Holds(req[d], {p}, {})
                      \/ At(d, "unlink") /\ <<req[d].anno, req[d].target>> = p /\ link[p] = 1
                   THEN Idle ELSE req[d]]
      /\ allowed' = allowed /\ anno' = anno /\ primary' = primary /\ reading' = reading
  BY DEF Cut
<1>3. link' \in [Place -> Nat] /\ (\A q \in Place : q # p => link'[q] = link[q]) /\ link'[p] = link[p] - 1
  BY <1>1, <1>2 DEF IInv, Graph
<1>4. Graph'
  BY <1>1, <1>2, <1>3 DEF IInv, Graph, Node
<1>5. ASSUME NEW d \in Client, At(d, "unlink"),
             ~(<<req[d].anno, req[d].target>> = p /\ link[p] = 1)
      PROVE  link'[<<req[d].anno, req[d].target>>] > 0
  <2> DEFINE q == <<req[d].anno, req[d].target>>
  <2>1. q \in Place /\ link[q] > 0
    BY <1>5 DEF IInv, Sound, At, Place, Graph, Node
  <2> HIDE DEF p, q
  <2>2. CASE q # p
    BY <1>3, <2>1, <2>2 DEF q
  <2>3. CASE q = p
    <3>1. link[p] # 1
      BY <1>5, <2>3 DEF q
    <3>2. link'[p] > 0
      BY <1>1, <1>3, <3>1
    <3>3. QED BY <2>3, <3>2 DEF q
  <2>4. QED BY <2>2, <2>3
<1> HIDE DEF p
<1>6. QED BY <1>2, <1>3, <1>4, <1>5, StepInv

LEMMA UnlabelledInv == ASSUME IInv, NEW c \in Client, Unlabelled(c) PROVE IInv'
<1>1. Graph'
  BY DEF Unlabelled, IInv, Graph, Node
<1>2. \A d \in Client : req'[d] = Idle \/ req'[d] = req[d]
  BY DEF Unlabelled
<1>3. \A d \in Client : /\ ~Holds(req[d], {}, {})
                        /\ At(d, "unlink") => link'[<<req[d].anno, req[d].target>>] > 0
  BY DEF Unlabelled, IInv, Sound, At, Holds
<1>4. link' = link /\ anno' = anno /\ reading' = reading /\ primary' = primary /\ req' = [d \in Client |-> req'[d]]
  BY DEF Unlabelled
<1>5. QED BY <1>1, <1>2, <1>3, <1>4, StepInv

LEMMA PutLabelInv ==
  ASSUME IInv, NEW n \in Name, NEW kinds \in Linkset, PutLabel(n, kinds)
  PROVE  IInv'
<1>1. Graph'
  BY AnnotationsAssumption DEF PutLabel, IInv, Graph, Node
<1>2. \A d \in Client : req'[d] = Idle \/ req'[d] = req[d]
  BY DEF PutLabel
<1>3. \A d \in Client : /\ ~Holds(req[d], {}, {})
                        /\ At(d, "unlink") => link'[<<req[d].anno, req[d].target>>] > 0
  BY DEF PutLabel, IInv, Sound, At, Holds
<1>4. link' = link /\ anno' = anno /\ reading' = reading /\ primary' = primary /\ req' = [d \in Client |-> req'[d]]
  BY DEF PutLabel
<1>5. QED BY <1>1, <1>2, <1>3, <1>4, StepInv

LEMMA DeleteReadingInv == ASSUME IInv, NEW t \in Read, DeleteReading(t) PROVE IInv'
<1> DEFINE cut == {p \in Place : link[p] > 0 /\ p[2] = t}
<1>1. /\ reading' = reading \ {t} /\ anno' = anno /\ primary' = primary /\ allowed' = allowed
      /\ link' = [p \in Place |-> IF p \in cut THEN 0 ELSE link[p]]
      /\ req' = [d \in Client |-> IF Holds(req[d], cut, {t}) THEN Idle ELSE req[d]]
  BY DEF DeleteReading
<1>2. Graph'
  <2>1. \A p \in Place : link'[p] > 0 => link[p] > 0 /\ p[2] # t
    BY <1>1 DEF IInv, Graph
  <2>2. link' \in [Place -> Nat]
    BY <1>1 DEF IInv, Graph
  <2>3. QED BY <1>1, <2>1, <2>2 DEF IInv, Graph, Node
<1>3. ASSUME NEW d \in Client, At(d, "unlink"), ~Holds(req[d], cut, {t})
      PROVE  link'[<<req[d].anno, req[d].target>>] > 0
  <2>1. /\ <<req[d].anno, req[d].target>> \in Place /\ link[<<req[d].anno, req[d].target>>] > 0
        /\ req[d].target # t
    BY <1>3 DEF IInv, Sound, At, Place, Graph, Node, Holds
  <2>2. <<req[d].anno, req[d].target>> \notin cut
    BY <2>1
  <2>3. QED BY <1>1, <2>1, <2>2
<1>4. \A p \in Place : p \notin cut => link'[p] = link[p]
  BY <1>1
<1> HIDE DEF cut
<1>5. /\ req' = [d \in Client |-> req'[d]] /\ None \notin {t}
      /\ \A d \in Client : req'[d] = Idle \/ (req'[d] = req[d] /\ ~Holds(req[d], cut, {t}))
  BY <1>1, AnnotationsAssumption
<1>6. QED BY <1>1, <1>2, <1>3, <1>4, <1>5, StepInv

LEMMA AbortInv == ASSUME IInv, NEW c \in Client, Abort(c) PROVE IInv'
<1>1. Graph'
  BY DEF Abort, graph, IInv, Graph, Node
<1>2. /\ req' = [d \in Client |-> req'[d]]
      /\ \A d \in Client : req'[d] = Idle \/ req'[d] = req[d]
  BY DEF Abort, IInv
<1>3. \A d \in Client : /\ ~Holds(req[d], {}, {})
                        /\ At(d, "unlink") => link'[<<req[d].anno, req[d].target>>] > 0
  BY DEF Abort, graph, IInv, Sound, At, Holds
<1>4. link' = link /\ anno' = anno /\ reading' = reading /\ primary' = primary
  BY DEF Abort, graph
<1>5. QED BY <1>1, <1>2, <1>3, <1>4, StepInv

LEMMA NextInv == IInv /\ [Next]_vars => IInv'
<1> SUFFICES ASSUME IInv, [Next]_vars PROVE IInv'
  OBVIOUS
<1>1. ASSUME NEW c \in Client, Proceed(c) PROVE IInv'
  BY <1>1, PostedInv, PutInv, DeletedInv, LinkedInv, CutInv, UnlabelledInv, AbortInv DEF Proceed
<1>2. CASE UNCHANGED vars
  BY <1>2 DEF vars, IInv, Graph, Node, Sound, Out
<1>3. QED BY <1>1, <1>2, SendInv, PutLabelInv, DeleteReadingInv DEF Next

\* The inductive invariant of all requests beside each other.
THEOREM Inductive == Spec => []IInv
BY InitInv, NextInv, PTL DEF Spec

\* Types and links, for any number of annotations, readings and clients.
THEOREM TypeCorrect == Spec => []TypeOK
BY Typed, Inductive, PTL

\* A deletion takes along only what is not primary and what it leaves without
\* a link, whatever has been committed since it looked (deleteIfDangling).
THEOREM TakesOnlyDangling == Spec => OnlyDangling
<1>1. IInv /\ [Next]_vars =>
        [\A a \in DOMAIN anno \ DOMAIN anno' :
           \E c \in Client :
             /\ Deleted(c)
             /\ a # req[c].anno => a \notin primary /\ Out(a) # {} /\ Out(a) \subseteq req[c].gone]_vars
  <2> SUFFICES ASSUME IInv, Next, NEW a \in DOMAIN anno, a \notin DOMAIN anno'
               PROVE  \E c \in Client :
                        /\ Deleted(c)
                        /\ a # req[c].anno => a \notin primary /\ Out(a) # {} /\ Out(a) \subseteq req[c].gone
    BY DEF vars
  <2>1. ASSUME NEW c \in Client, Posted(c) \/ Put(c) \/ Linked(c) \/ Cut(c) \/ Unlabelled(c) \/ Abort(c)
        PROVE  DOMAIN anno \subseteq DOMAIN anno'
    BY <2>1 DEF Posted, Put, Linked, Cut, Unlabelled, Abort, graph
  <2>2. ASSUME NEW c \in Client, Send(c) PROVE DOMAIN anno \subseteq DOMAIN anno'
    BY <2>2 DEF Send, AddAnnotation, UpdateAnnotation, DeleteAnnotation, AddAnnotationLink,
       DeleteAnnotationLink, DeleteAnnotationLabel, Begin, graph
  <2>3. ASSUME NEW n \in Name, NEW kinds \in Linkset, PutLabel(n, kinds) PROVE anno' = anno
    BY <2>3 DEF PutLabel
  <2>4. ASSUME NEW t \in Read, DeleteReading(t) PROVE anno' = anno
    BY <2>4 DEF DeleteReading
  <2>5. PICK c \in Client : Deleted(c)
    BY <2>1, <2>2, <2>3, <2>4 DEF Next, Proceed
  <2>6. a \in req[c].gone
    BY <2>5 DEF Deleted
  <2>7. QED BY <2>5, <2>6 DEF IInv, Sound, Deleted, At
<1>2. QED BY <1>1, Inductive, PTL DEF Spec, OnlyDangling
-----------------------------------------------------------------------------
(* Requests that keep apart do nothing that the others do not.             *)
LEMMA ApartStep == [NextApart]_vars => [Next]_vars
<1>1. ASSUME NEW c \in Client, SendApart(c) PROVE Send(c)
  <2>1. ASSUME NEW a \in Anno, NEW t \in Anno \cup Read,
               DeleteAnnotationLink(c, a, t) \/ AddAnnotationLink(c, a, t)
        PROVE  Send(c)
    <3>1. <<a, t>> \in Place /\ <<a, t>>[1] = a /\ <<a, t>>[2] = t
      BY DEF Place
    <3>2. QED BY <2>1, <3>1 DEF Send
  <2>2. QED BY <1>1, <2>1 DEF SendApart, Send
<1>2. QED BY <1>1 DEF NextApart, Next

THEOREM Apart == SpecApart => Spec
BY ApartStep, PTL DEF SpecApart, Spec

-----------------------------------------------------------------------------
Uses(r) == r.step \in {"post", "put"}

\* While a label is going to be deleted, nobody has it and nobody is going to
\* get it.
LInv ==
  /\ LabelsKnown
  /\ \A c \in Client : req[c] # Idle /\ Uses(req[c]) => req[c].name \in DOMAIN allowed
  /\ \A d \in Client : At(d, "unlabel") =>
       /\ Unused(req[d].name)
       /\ \A c \in Client : req[c] # Idle /\ Uses(req[c]) => req[c].name # req[d].name

\* Steps that neither use a label nor delete one.
LEMMA LabelsRest ==
  ASSUME LInv, DOMAIN allowed \subseteq DOMAIN allowed',
         \A a \in DOMAIN anno' : a \in DOMAIN anno /\ anno'[a] = anno[a],
         \A d \in Client : \/ req'[d] = Idle \/ req'[d] = req[d]
                           \/ req'[d].step \notin {"post", "put", "unlabel"}
  PROVE  LInv'
<1>1. LabelsKnown'
  BY DEF LInv, LabelsKnown
<1>2. \A c \in Client : req'[c] # Idle /\ Uses(req'[c]) => req'[c] = req[c]
  BY DEF Uses
<1>3. \A d \in Client : At(d, "unlabel")' => req'[d] = req[d] /\ At(d, "unlabel")
  BY DEF At
<1>4. \A d \in Client : At(d, "unlabel")' => Unused(req[d].name)'
  BY <1>3 DEF LInv, Unused
<1>5. QED BY <1>1, <1>2, <1>3, <1>4 DEF LInv, Uses, Unused

\* A request begins that is going to give an annotation a label.
LEMMA LabelsUsed ==
  ASSUME LInv, NEW c \in Client, NEW r, Begin(c, r), Uses(r), r.name \in DOMAIN allowed,
         \A d \in Client : req[d] # Idle => ~(req[d].step = "unlabel" /\ req[d].name = r.name),
         req' = [d \in Client |-> req'[d]], req'[c] = r
  PROVE  LInv'
<1>1. /\ UNCHANGED <<allowed, anno>>
      /\ \A d \in Client : d # c => req'[d] = req[d]
  BY DEF Begin, graph
<1>2. \A d \in Client : At(d, "unlabel")' => d # c /\ At(d, "unlabel") /\ req[d].name # r.name
  BY <1>1 DEF At, Uses
<1>3. QED BY <1>1, <1>2 DEF LInv, LabelsKnown, Unused, Uses, At

LEMMA LabelsSend ==
  ASSUME IInv, LInv, NEW c \in Client, SendApart(c)
  PROVE  LInv'
<1>1. \A r : Begin(c, r) => /\ req' = [d \in Client |-> req'[d]] /\ req'[c] = r
                            /\ \A d \in Client : d # c => req'[d] = req[d]
                            /\ UNCHANGED <<allowed, anno>>
  BY DEF Begin, IInv, graph
<1>2. ASSUME NEW r, Begin(c, r), r.step \notin {"post", "put", "unlabel"} PROVE LInv'
  BY <1>1, <1>2, LabelsRest
<1>3. ASSUME NEW a \in Anno, DeleteAnnotation(c, a) PROVE LInv'
  <2> DEFINE r == [Ask("delete") EXCEPT !.anno = a, !.gone = Doomed(a)]
  <2>1. Begin(c, r) /\ r.step = "delete"
    BY <1>3 DEF DeleteAnnotation, Ask
  <2> HIDE DEF r
  <2>2. QED BY <1>2, <2>1
<1>4. ASSUME NEW a \in Anno, NEW t \in Anno \cup Read, DeleteAnnotationLink(c, a, t) PROVE LInv'
  <2> DEFINE r == [Ask("unlink") EXCEPT !.anno = a, !.target = t]
  <2>1. Begin(c, r) /\ r.step = "unlink"
    BY <1>4 DEF DeleteAnnotationLink, Ask
  <2> HIDE DEF r
  <2>2. QED BY <1>2, <2>1
<1>5. ASSUME NEW a \in Anno, NEW t \in Anno \cup Read, AddAnnotationLink(c, a, t) PROVE LInv'
  <2> DEFINE r == [Ask("link") EXCEPT !.anno = a, !.target = t]
  <2>1. Begin(c, r) /\ r.step = "link"
    BY <1>5 DEF AddAnnotationLink, Ask
  <2> HIDE DEF r
  <2>2. QED BY <1>2, <2>1
<1> DEFINE free == No(LAMBDA r : r.step = "unlabel" /\ r.name = req'[c].name)
<1>6. ASSUME AddAnnotation(c), free PROVE LInv'
  <2>1. PICK n \in DOMAIN allowed, mark \in BOOLEAN, links \in SUBSET Node :
          Begin(c, [Ask("post") EXCEPT !.name = n, !.mark = mark, !.links = links])
    BY <1>6 DEF AddAnnotation
  <2> DEFINE r == [Ask("post") EXCEPT !.name = n, !.mark = mark, !.links = links]
  <2>2. Begin(c, r) /\ Uses(r) /\ r.name \in DOMAIN allowed
    BY <2>1 DEF Ask, Uses
  <2> HIDE DEF r
  <2>3. \A d \in Client : req[d] # Idle => ~(req[d].step = "unlabel" /\ req[d].name = req'[c].name)
    BY <1>6 DEF No
  <2>4. QED BY <1>1, <2>2, <2>3, LabelsUsed
<1>7. ASSUME NEW a \in Anno, UpdateAnnotation(c, a), free PROVE LInv'
  <2>1. PICK n \in DOMAIN allowed, mark \in BOOLEAN :
          Begin(c, [Ask("put") EXCEPT !.anno = a, !.name = n, !.mark = mark])
    BY <1>7 DEF UpdateAnnotation
  <2> DEFINE r == [Ask("put") EXCEPT !.anno = a, !.name = n, !.mark = mark]
  <2>2. Begin(c, r) /\ Uses(r) /\ r.name \in DOMAIN allowed
    BY <2>1 DEF Ask, Uses
  <2> HIDE DEF r
  <2>3. \A d \in Client : req[d] # Idle => ~(req[d].step = "unlabel" /\ req[d].name = req'[c].name)
    BY <1>7 DEF No
  <2>4. QED BY <1>1, <2>2, <2>3, LabelsUsed
<1>8. ASSUME NEW n \in Name, No(LAMBDA r : r.step \in {"post", "put"} /\ r.name = n),
             DeleteAnnotationLabel(c, n)
      PROVE  LInv'
  <2> DEFINE r == [Ask("unlabel") EXCEPT !.name = n]
  <2>1. Begin(c, r) /\ r.step = "unlabel" /\ r.name = n /\ Unused(n)
    BY <1>8 DEF DeleteAnnotationLabel, Ask
  <2> HIDE DEF r
  <2>2. \A d \in Client : req[d] # Idle => ~(Uses(req[d]) /\ req[d].name = n)
    BY <1>8 DEF No, Uses
  <2>3. /\ UNCHANGED <<allowed, anno>> /\ req'[c] = r
        /\ \A d \in Client : d # c => req'[d] = req[d]
    BY <1>1, <2>1
  <2>4. QED BY <2>1, <2>2, <2>3 DEF LInv, LabelsKnown, Unused, Uses, At
<1> HIDE DEF free
<1>9. QED BY <1>3, <1>4, <1>5, <1>6, <1>7, <1>8 DEF SendApart, free

LEMMA LabelsNext == IInv /\ LInv /\ [NextApart]_vars => LInv'
<1> SUFFICES ASSUME IInv, LInv, [NextApart]_vars PROVE LInv'
  OBVIOUS
<1>1. ASSUME NEW c \in Client, Posted(c) PROVE LInv'
  <2>1. PICK a \in Anno \ DOMAIN anno :
          /\ anno' = [x \in DOMAIN anno \cup {a} |-> IF x = a THEN req[c].name ELSE anno[x]]
          /\ req[c] # Idle /\ Uses(req[c]) /\ allowed' = allowed
    BY <1>1 DEF Posted, At, Uses
  <2>2. \A d \in Client : req'[d] = Idle \/ req'[d] = req[d]
    BY <1>1 DEF Posted, Finish
  <2>3. LabelsKnown'
    BY <2>1 DEF LInv, LabelsKnown
  <2>4. \A d \in Client : At(d, "unlabel")' => At(d, "unlabel") /\ req'[d] = req[d] /\ Unused(req[d].name)'
    BY <2>1, <2>2 DEF LInv, Unused, At
  <2>5. QED BY <2>1, <2>2, <2>3, <2>4 DEF LInv, Uses, Unused
<1>2. ASSUME NEW c \in Client, Put(c) PROVE LInv'
  <2>1. /\ anno' = [anno EXCEPT ![req[c].anno] = req[c].name]
        /\ req[c] # Idle /\ Uses(req[c]) /\ allowed' = allowed
    BY <1>2 DEF Put, At, Uses
  <2>2. \A d \in Client : req'[d] = Idle \/ req'[d] = req[d]
    BY <1>2 DEF Put, Finish
  <2>3. LabelsKnown'
    BY <2>1 DEF LInv, LabelsKnown
  <2>4. \A d \in Client : At(d, "unlabel")' => At(d, "unlabel") /\ req'[d] = req[d] /\ Unused(req[d].name)'
    BY <2>1, <2>2 DEF LInv, Unused, At
  <2>5. QED BY <2>1, <2>2, <2>3, <2>4 DEF LInv, Uses, Unused
<1>3. ASSUME NEW c \in Client, Unlabelled(c) PROVE LInv'
  <2> DEFINE n == req[c].name
  <2>1. /\ DOMAIN allowed' = DOMAIN allowed \ {n} /\ anno' = anno /\ At(c, "unlabel")
        /\ \A d \in Client : \/ req'[d] = Idle
                             \/ req'[d] = req[d] /\ ~(At(d, "unlabel") /\ req[d].name = n)
    BY <1>3 DEF Unlabelled
  <2>2. Unused(n) /\ \A d \in Client : req[d] # Idle /\ Uses(req[d]) => req[d].name # n
    BY <2>1 DEF LInv
  <2> HIDE DEF n
  <2>3. LabelsKnown'
    BY <2>1, <2>2 DEF LInv, LabelsKnown, Unused
  <2>4. QED BY <2>1, <2>2, <2>3 DEF LInv, Uses, Unused, At
<1>4. ASSUME NEW c \in Client, Deleted(c) \/ Linked(c) \/ Cut(c) \/ Abort(c) PROVE LInv'
  <2>1. \A d \in Client : req'[d] = Idle \/ req'[d] = req[d]
    BY <1>4 DEF Deleted, Linked, Cut, Abort, Finish, IInv
  <2>2. allowed' = allowed /\ \A a \in DOMAIN anno' : a \in DOMAIN anno /\ anno'[a] = anno[a]
    BY <1>4 DEF Deleted, Linked, Cut, Abort, graph
  <2>3. QED BY <2>1, <2>2, LabelsRest
<1>5. ASSUME NEW n \in Name, NEW kinds \in Linkset, PutLabel(n, kinds) PROVE LInv'
  <2>1. /\ \A d \in Client : req'[d] = Idle \/ req'[d] = req[d]
        /\ DOMAIN allowed \subseteq DOMAIN allowed' /\ anno' = anno
    BY <1>5 DEF PutLabel
  <2>2. QED BY <2>1, LabelsRest
<1>6. ASSUME NEW t \in Read, DeleteReading(t) PROVE LInv'
  <2>1. /\ \A d \in Client : req'[d] = Idle \/ req'[d] = req[d]
        /\ allowed' = allowed /\ anno' = anno
    BY <1>6 DEF DeleteReading
  <2>2. QED BY <2>1, LabelsRest
<1>7. CASE UNCHANGED vars
  BY <1>7, LabelsRest DEF vars
<1>8. QED BY <1>1, <1>2, <1>3, <1>4, <1>5, <1>6, <1>7, LabelsSend DEF NextApart, Proceed

\* Between requests that keep apart, no annotation loses the specification of
\* its label (deleteAnnotationLabel looks for annotations of it, and commits
\* later).
THEOREM LabelsStayKnown == SpecApart => []LabelsKnown
<1>1. Init => LInv
  BY DEF Init, LInv, LabelsKnown, At, Idle
<1>2. SpecApart => []IInv
  BY Apart, Inductive, PTL
<1>3. LInv => LabelsKnown
  BY DEF LInv
<1>4. QED BY <1>1, <1>2, <1>3, LabelsNext, PTL DEF SpecApart
-----------------------------------------------------------------------------
Pair(r) == <<r.anno, r.target>>

\* Requests for a link ask for different links, that are not there.
KInv ==
  /\ LinkedOnce
  /\ \A c \in Client : At(c, "link") =>
       /\ link[Pair(req[c])] = 0
       /\ \A d \in Client \ {c} : At(d, "link") => Pair(req[d]) # Pair(req[c])

\* Steps that neither link anything nor ask for a link.
LEMMA LinksRest ==
  ASSUME IInv, KInv, link' \in [Place -> Nat], \A p \in Place : link'[p] <= link[p],
         \A d \in Client : req'[d] = Idle \/ req'[d] = req[d] \/ req'[d].step # "link"
  PROVE  KInv'
<1>1. LinkedOnce'
  <2>1. \A p \in Place : link[p] \in Nat /\ link'[p] \in Nat
    BY DEF IInv, Graph
  <2>2. QED BY <2>1 DEF KInv, LinkedOnce
<1>2. \A d \in Client : At(d, "link")' => req'[d] = req[d] /\ At(d, "link")
  BY DEF At
<1>3. \A d \in Client : At(d, "link") => Pair(req[d]) \in Place
  BY DEF At, IInv, Sound, Graph, Node, Place, Pair
<1>4. \A d \in Client : At(d, "link")' => link'[Pair(req[d])] = 0
  <2>1. \A p \in Place : link[p] = 0 => link'[p] = 0
    BY DEF IInv, Graph
  <2>2. QED BY <1>2, <1>3, <2>1 DEF KInv
<1>5. QED BY <1>1, <1>2, <1>4 DEF KInv

LEMMA LinksSend ==
  ASSUME IInv, KInv, NEW c \in Client, SendApart(c)
  PROVE  KInv'
<1>1. \A r : Begin(c, r) => /\ req'[c] = r /\ UNCHANGED link
                            /\ \A d \in Client : d # c => req'[d] = req[d]
  BY DEF Begin, IInv, graph
<1>2. link \in [Place -> Nat] /\ \A p \in Place : link[p] <= link[p]
  BY DEF IInv, Graph
<1>3. ASSUME NEW r, Begin(c, r), r.step # "link" PROVE KInv'
  BY <1>1, <1>2, <1>3, LinksRest
<1>4. ASSUME NEW a \in Anno, DeleteAnnotation(c, a) PROVE KInv'
  <2> DEFINE r == [Ask("delete") EXCEPT !.anno = a, !.gone = Doomed(a)]
  <2>1. Begin(c, r) /\ r.step = "delete"
    BY <1>4 DEF DeleteAnnotation, Ask
  <2> HIDE DEF r
  <2>2. QED BY <1>3, <2>1
<1>5. ASSUME NEW a \in Anno, NEW t \in Anno \cup Read, DeleteAnnotationLink(c, a, t) PROVE KInv'
  <2> DEFINE r == [Ask("unlink") EXCEPT !.anno = a, !.target = t]
  <2>1. Begin(c, r) /\ r.step = "unlink"
    BY <1>5 DEF DeleteAnnotationLink, Ask
  <2> HIDE DEF r
  <2>2. QED BY <1>3, <2>1
<1>6. ASSUME AddAnnotation(c) PROVE KInv'
  <2>1. PICK n \in DOMAIN allowed, mark \in BOOLEAN, links \in SUBSET Node :
          Begin(c, [Ask("post") EXCEPT !.name = n, !.mark = mark, !.links = links])
    BY <1>6 DEF AddAnnotation
  <2> DEFINE r == [Ask("post") EXCEPT !.name = n, !.mark = mark, !.links = links]
  <2>2. Begin(c, r) /\ r.step = "post"
    BY <2>1 DEF Ask
  <2> HIDE DEF r
  <2>3. QED BY <1>3, <2>2
<1>7. ASSUME NEW a \in Anno, UpdateAnnotation(c, a) PROVE KInv'
  <2>1. PICK n \in DOMAIN allowed, mark \in BOOLEAN :
          Begin(c, [Ask("put") EXCEPT !.anno = a, !.name = n, !.mark = mark])
    BY <1>7 DEF UpdateAnnotation
  <2> DEFINE r == [Ask("put") EXCEPT !.anno = a, !.name = n, !.mark = mark]
  <2>2. Begin(c, r) /\ r.step = "put"
    BY <2>1 DEF Ask
  <2> HIDE DEF r
  <2>3. QED BY <1>3, <2>2
<1>8. ASSUME NEW n \in Name, DeleteAnnotationLabel(c, n) PROVE KInv'
  <2> DEFINE r == [Ask("unlabel") EXCEPT !.name = n]
  <2>1. Begin(c, r) /\ r.step = "unlabel"
    BY <1>8 DEF DeleteAnnotationLabel, Ask
  <2> HIDE DEF r
  <2>2. QED BY <1>3, <2>1
<1>9. ASSUME NEW a \in Anno, NEW t \in Anno \cup Read, AddAnnotationLink(c, a, t),
             No(LAMBDA r : r.step = "link" /\ r.anno = a /\ r.target = t)
      PROVE  KInv'
  <2> DEFINE r == [Ask("link") EXCEPT !.anno = a, !.target = t]
  <2>1. Begin(c, r) /\ Pair(r) = <<a, t>> /\ link[<<a, t>>] = 0
    BY <1>9 DEF AddAnnotationLink, Ask, Unlinked, Pair
  <2> HIDE DEF r
  <2>2. \A d \in Client : At(d, "link") => Pair(req[d]) # <<a, t>>
    BY <1>9 DEF No, At, Pair
  <2>3. req'[c] = r /\ UNCHANGED link /\ \A d \in Client : d # c => req'[d] = req[d]
    BY <1>1, <2>1
  <2>4. LinkedOnce'
    BY <2>3 DEF KInv, LinkedOnce
  <2>5. \A d \in Client : At(d, "link")' => d = c \/ At(d, "link")
    BY <2>3 DEF At
  <2>6. QED BY <2>1, <2>2, <2>3, <2>4, <2>5 DEF KInv
<1>10. QED BY <1>4, <1>5, <1>6, <1>7, <1>8, <1>9 DEF SendApart

LEMMA LinksNext == IInv /\ KInv /\ [NextApart]_vars => KInv'
<1> SUFFICES ASSUME IInv, KInv, [NextApart]_vars PROVE KInv'
  OBVIOUS
<1>1. IInv'
  BY ApartStep, NextInv
<1>2. link \in [Place -> Nat] /\ link' \in [Place -> Nat]
  BY <1>1 DEF IInv, Graph
<1>3. \A d \in Client : At(d, "link") => Pair(req[d]) \in Place /\ req[d].anno \in DOMAIN anno
  BY DEF At, IInv, Sound, Graph, Node, Place, Pair
<1>4. ASSUME NEW c \in Client, Posted(c) PROVE KInv'
  <2>1. PICK a \in Anno \ DOMAIN anno :
          link' = [p \in Place |-> IF p \in {a} \X req[c].links THEN link[p] + 1 ELSE link[p]]
    BY <1>4 DEF Posted
  <2>2. \A d \in Client : req'[d] = Idle \/ req'[d] = req[d]
    BY <1>4 DEF Posted, Finish
  <2>3. \A p \in Place : p[1] = a => link[p] = 0
    BY <1>2 DEF IInv, Graph
  <2>4. \A p \in Place : p \in {a} \X req[c].links => link'[p] = 1
    BY <2>1, <2>3
  <2>5. \A p \in Place : p[1] # a => link'[p] = link[p]
    BY <2>1
  <2>6. LinkedOnce'
    <3> SUFFICES ASSUME NEW p \in Place PROVE link'[p] <= 1
      BY DEF LinkedOnce
    <3>1. CASE p \in {a} \X req[c].links
      BY <2>4, <3>1
    <3>2. CASE p \notin {a} \X req[c].links
      BY <2>1, <3>2 DEF KInv, LinkedOnce
    <3>3. QED BY <3>1, <3>2
  <2>7. \A d \in Client : At(d, "link") => link'[Pair(req[d])] = 0
    <3> SUFFICES ASSUME NEW d \in Client, At(d, "link") PROVE link'[Pair(req[d])] = 0
      OBVIOUS
    <3>1. Pair(req[d]) \in Place /\ Pair(req[d])[1] # a
      BY <1>3 DEF Pair
    <3>2. QED BY <2>5, <3>1 DEF KInv
  <2>8. QED BY <2>2, <2>6, <2>7 DEF KInv, At
<1>5. ASSUME NEW c \in Client, Linked(c) PROVE KInv'
  <2> DEFINE p == Pair(req[c])
  <2>1. At(c, "link") /\ p \in Place /\ link[p] = 0 /\ link' = [link EXCEPT ![p] = @ + 1]
    BY <1>3, <1>5 DEF Linked, Pair, KInv
  <2>2. \A d \in Client : req'[d] = Idle \/ (d # c /\ req'[d] = req[d])
    BY <1>5 DEF Linked, Finish
  <2>3. \A d \in Client \ {c} : At(d, "link") => Pair(req[d]) # p
    BY <2>1 DEF KInv
  <2> HIDE DEF p
  <2>4. link'[p] = 1 /\ \A q \in Place : q # p => link'[q] = link[q]
    BY <1>2, <2>1
  <2>5. LinkedOnce'
    <3> SUFFICES ASSUME NEW q \in Place PROVE link'[q] <= 1
      BY DEF LinkedOnce
    <3>1. QED BY <2>4 DEF KInv, LinkedOnce
  <2>6. QED BY <1>3, <2>2, <2>3, <2>4, <2>5 DEF KInv, At
<1>6. ASSUME NEW c \in Client, Cut(c) PROVE KInv'
  <2>1. link' = [link EXCEPT ![Pair(req[c])] = @ - 1]
    BY <1>6 DEF Cut, Pair
  <2>2. \A p \in Place : link'[p] <= link[p]
    BY <1>2, <2>1
  <2>3. \A d \in Client : req'[d] = Idle \/ req'[d] = req[d]
    BY <1>6 DEF Cut
  <2>4. QED BY <1>2, <2>2, <2>3, LinksRest
<1>7. ASSUME NEW c \in Client, Deleted(c) PROVE KInv'
  <2>1. \A p \in Place : link'[p] = 0 \/ link'[p] = link[p]
    BY <1>7 DEF Deleted
  <2>2. \A p \in Place : link'[p] <= link[p]
    BY <1>2, <2>1
  <2>3. \A d \in Client : req'[d] = Idle \/ req'[d] = req[d]
    BY <1>7 DEF Deleted, Finish
  <2>4. QED BY <1>2, <2>2, <2>3, LinksRest
<1>8. ASSUME NEW t \in Read, DeleteReading(t) PROVE KInv'
  <2>1. \A p \in Place : link'[p] = 0 \/ link'[p] = link[p]
    BY <1>8 DEF DeleteReading
  <2>2. \A p \in Place : link'[p] <= link[p]
    BY <1>2, <2>1
  <2>3. \A d \in Client : req'[d] = Idle \/ req'[d] = req[d]
    BY <1>8 DEF DeleteReading
  <2>4. QED BY <1>2, <2>2, <2>3, LinksRest
<1>9. ASSUME link' = link, \A d \in Client : req'[d] = Idle \/ req'[d] = req[d] PROVE KInv'
  <2>1. \A p \in Place : link'[p] <= link[p]
    BY <1>2, <1>9
  <2>2. QED BY <1>2, <1>9, <2>1, LinksRest
<1>10. ASSUME NEW c \in Client, Put(c) \/ Unlabelled(c) \/ Abort(c) PROVE KInv'
  <2>1. link' = link /\ \A d \in Client : req'[d] = Idle \/ req'[d] = req[d]
    BY <1>10 DEF Put, Unlabelled, Abort, Finish, graph, IInv
  <2>2. QED BY <1>9, <2>1
<1>11. ASSUME NEW n \in Name, NEW kinds \in Linkset, PutLabel(n, kinds) PROVE KInv'
  <2>1. link' = link /\ \A d \in Client : req'[d] = Idle \/ req'[d] = req[d]
    BY <1>11 DEF PutLabel
  <2>2. QED BY <1>9, <2>1
<1>12. CASE UNCHANGED vars
  BY <1>9, <1>12 DEF vars
<1>13. QED BY <1>4, <1>5, <1>6, <1>7, <1>8, <1>10, <1>11, <1>12, LinksSend DEF NextApart, Proceed

\* Nothing is linked twice when no two requests at a time ask for one link
\* (addAnnotationLink looks for a link, and makes it later).
THEOREM LinksStaySingle == SpecApart => []LinkedOnce
<1>1. Init => KInv
  BY DEF Init, KInv, LinkedOnce, At, Idle
<1>2. SpecApart => []IInv
  BY Apart, Inductive, PTL
<1>3. KInv => LinkedOnce
  BY DEF KInv
<1>4. QED BY <1>1, <1>2, <1>3, LinksNext, PTL DEF SpecApart
-----------------------------------------------------------------------------
\* A deletion is alone with requests that take nothing away, and has looked
\* at everything that is to go.
DInv ==
  \A c \in Client : At(c, "delete") =>
    /\ Closed(req[c].gone)
    /\ \A d \in Client \ {c} : req[d] # Idle => ~Taking(req[d])

\* Steps that take neither links nor marks away.
LEMMA DanglingRest ==
  ASSUME IInv, DInv,
         \A d \in Client : \/ req'[d] = Idle \/ req'[d] = req[d]
                           \/ req'[d].step \notin {"delete", "unlink", "put"},
         \A c \in Client : At(c, "delete") /\ req'[c] = req[c] =>
           \A x \in DOMAIN anno' \ primary' :
             Out(x)' # {} /\ Out(x)' \subseteq req[c].gone =>
               x \in DOMAIN anno \ primary /\ Out(x) # {} /\ Out(x) \subseteq req[c].gone
  PROVE  DInv'
<1>1. \A c \in Client : At(c, "delete")' => At(c, "delete") /\ req'[c] = req[c]
  BY DEF At
<1>2. \A d \in Client : req'[d] # Idle /\ Taking(req'[d]) => req'[d] = req[d]
  BY DEF Taking
<1>3. ASSUME NEW c \in Client, At(c, "delete")' PROVE Closed(req[c].gone)'
  <2>1. At(c, "delete") /\ req'[c] = req[c] /\ Closed(req[c].gone)
    BY <1>1, <1>3 DEF DInv
  <2>2. QED BY <2>1 DEF Closed
<1>4. QED BY <1>1, <1>2, <1>3 DEF DInv

\* A request begins.
LEMMA DanglingBegin ==
  ASSUME IInv, DInv, NEW c \in Client, NEW r, Begin(c, r),
         Taking(r) => No(Deleting),
         r.step = "delete" => No(Taking) /\ Closed(r.gone)
  PROVE  DInv'
<1>1. /\ req'[c] = r /\ UNCHANGED <<anno, primary, link>>
      /\ \A d \in Client : d # c => req'[d] = req[d]
  BY DEF Begin, IInv, graph
<1>2. ASSUME NEW e \in Client, At(e, "delete")' PROVE Closed(req[e].gone)'
  <2>1. Closed(req'[e].gone)
    <3>1. CASE e = c
      BY <1>1, <1>2, <3>1 DEF At
    <3>2. CASE e # c
      BY <1>1, <1>2, <3>2 DEF At, DInv
    <3>3. QED BY <3>1, <3>2
  <2>2. QED BY <1>1, <2>1 DEF Closed, Out
<1>3. \A e \in Client : No(Taking) /\ req[e] # Idle => ~Taking(req[e])
  BY DEF No
<1>4. ASSUME NEW e \in Client, At(e, "delete")', NEW d \in Client \ {e}, req'[d] # Idle
      PROVE  ~Taking(req'[d])
  <2>1. CASE e = c
    BY <1>1, <1>3, <1>4, <2>1 DEF At
  <2>2. CASE e # c /\ d = c
    BY <1>1, <1>4, <2>2 DEF At, No, Deleting
  <2>3. CASE e # c /\ d # c
    BY <1>1, <1>4, <2>3 DEF At, DInv
  <2>4. QED BY <2>1, <2>2, <2>3
<1>5. QED BY <1>2, <1>4 DEF DInv

LEMMA DanglingSend ==
  ASSUME IInv, DInv, NEW c \in Client, SendApart(c)
  PROVE  DInv'
<1>1. ASSUME NEW r, Begin(c, r), ~Taking(r) PROVE DInv'
  BY <1>1, DanglingBegin DEF Taking
<1>2. ASSUME NEW r, Begin(c, r), Taking(r), r.step # "delete", No(Deleting) PROVE DInv'
  BY <1>2, DanglingBegin
<1>3. ASSUME NEW a \in Anno, DeleteAnnotation(c, a), No(Taking) PROVE DInv'
  <2> DEFINE r == [Ask("delete") EXCEPT !.anno = a, !.gone = Doomed(a)]
  <2>1. a \in DOMAIN anno /\ Begin(c, r) /\ r.gone = Doomed(a)
    BY <1>3 DEF DeleteAnnotation, Ask
  <2>2. Closed(Doomed(a))
    BY <2>1, DoomedClosed
  <2>3. No(Deleting)
    BY <1>3 DEF No, Deleting, Taking
  <2> HIDE DEF r
  <2>4. QED BY <1>3, <2>1, <2>2, <2>3, DanglingBegin
<1>4. ASSUME NEW a \in Anno, NEW t \in Anno \cup Read, DeleteAnnotationLink(c, a, t), No(Deleting)
      PROVE  DInv'
  <2> DEFINE r == [Ask("unlink") EXCEPT !.anno = a, !.target = t]
  <2>1. Begin(c, r) /\ r.step = "unlink" /\ Taking(r)
    BY <1>4 DEF DeleteAnnotationLink, Ask, Taking
  <2> HIDE DEF r
  <2>2. QED BY <1>2, <1>4, <2>1
<1>5. ASSUME NEW a \in Anno, UpdateAnnotation(c, a), No(Deleting) PROVE DInv'
  <2>1. PICK n \in DOMAIN allowed, mark \in BOOLEAN :
          Begin(c, [Ask("put") EXCEPT !.anno = a, !.name = n, !.mark = mark])
    BY <1>5 DEF UpdateAnnotation
  <2> DEFINE r == [Ask("put") EXCEPT !.anno = a, !.name = n, !.mark = mark]
  <2>2. Begin(c, r) /\ r.step = "put" /\ Taking(r)
    BY <2>1 DEF Ask, Taking
  <2> HIDE DEF r
  <2>3. QED BY <1>2, <1>5, <2>2
<1>6. ASSUME AddAnnotation(c) PROVE DInv'
  <2>1. PICK n \in DOMAIN allowed, mark \in BOOLEAN, links \in SUBSET Node :
          Begin(c, [Ask("post") EXCEPT !.name = n, !.mark = mark, !.links = links])
    BY <1>6 DEF AddAnnotation
  <2> DEFINE r == [Ask("post") EXCEPT !.name = n, !.mark = mark, !.links = links]
  <2>2. Begin(c, r) /\ ~Taking(r)
    BY <2>1 DEF Ask, Taking
  <2> HIDE DEF r
  <2>3. QED BY <1>1, <2>2
<1>7. ASSUME NEW a \in Anno, NEW t \in Anno \cup Read, AddAnnotationLink(c, a, t) PROVE DInv'
  <2> DEFINE r == [Ask("link") EXCEPT !.anno = a, !.target = t]
  <2>1. Begin(c, r) /\ ~Taking(r)
    BY <1>7 DEF AddAnnotationLink, Ask, Taking
  <2> HIDE DEF r
  <2>2. QED BY <1>1, <2>1
<1>8. ASSUME NEW n \in Name, DeleteAnnotationLabel(c, n) PROVE DInv'
  <2> DEFINE r == [Ask("unlabel") EXCEPT !.name = n]
  <2>1. Begin(c, r) /\ ~Taking(r)
    BY <1>8 DEF DeleteAnnotationLabel, Ask, Taking
  <2> HIDE DEF r
  <2>2. QED BY <1>1, <2>1
<1>9. QED BY <1>3, <1>4, <1>5, <1>6, <1>7, <1>8 DEF SendApart

LEMMA DanglingNext == IInv /\ DInv /\ [NextApart]_vars => DInv'
<1> SUFFICES ASSUME IInv, DInv, [NextApart]_vars PROVE DInv'
  OBVIOUS
<1>1. ASSUME UNCHANGED <<anno, primary, link>>, \A d \in Client : req'[d] = Idle \/ req'[d] = req[d]
      PROVE  DInv'
  BY <1>1, DanglingRest DEF Out
<1>2. ASSUME NEW c \in Client, Posted(c) PROVE DInv'
  <2>1. PICK a \in Anno \ DOMAIN anno :
          /\ DOMAIN anno' = DOMAIN anno \cup {a} /\ primary \subseteq primary'
          /\ link' = [p \in Place |-> IF p \in {a} \X req[c].links THEN link[p] + 1 ELSE link[p]]
          /\ Finish(c, {a} \X req[c].links, {})
    BY <1>2 DEF Posted
  <2>2. \A d \in Client : \/ req'[d] = Idle
                          \/ req'[d] = req[d] /\ ~Holds(req[d], {a} \X req[c].links, {})
    BY <2>1 DEF Finish
  <2>3. \A x \in DOMAIN anno : Out(x)' = Out(x)
    <3>1. \A x \in DOMAIN anno : \A t \in Anno \cup Read : link'[<<x, t>>] = link[<<x, t>>]
      BY <2>1 DEF IInv, Graph, Place
    <3>2. QED BY <3>1 DEF Out
  <2>4. Out(a)' \subseteq req[c].links
    <3>1. \A t \in Anno \cup Read : link[<<a, t>>] = 0
      BY DEF IInv, Graph, Place
    <3>2. \A t \in Anno \cup Read : t \notin req[c].links => link'[<<a, t>>] = 0
      BY <2>1, <3>1 DEF Place
    <3>3. QED BY <3>2 DEF Out
  <2>5. ASSUME NEW d \in Client, At(d, "delete"), req'[d] = req[d] PROVE req[c].links \cap req[d].gone = {}
    <3> SUFFICES ASSUME NEW t \in req[c].links, t \in req[d].gone PROVE FALSE
      OBVIOUS
    <3>1. <<a, t>> \in {a} \X req[c].links /\ <<a, t>>[2] = t
      OBVIOUS
    <3>2. ~Holds(req[d], {a} \X req[c].links, {})
      BY <2>2, <2>5 DEF At
    <3>3. QED BY <2>5, <3>1, <3>2 DEF Holds, At
  <2>6. QED BY <2>1, <2>2, <2>3, <2>4, <2>5, DanglingRest
<1>3. ASSUME NEW c \in Client, Linked(c) PROVE DInv'
  <2>1. PICK p \in Place : /\ link' = [link EXCEPT ![p] = @ + 1] /\ Finish(c, {p}, {})
                           /\ anno' = anno /\ primary' = primary /\ p[1] \in Anno
    <3>1. Pair(req[c]) \in Place
      BY <1>3 DEF Linked, Pair, At, IInv, Sound, Graph, Node, Place
    <3>2. QED BY <1>3, <3>1 DEF Linked, Pair, Place
  <2>2. \A d \in Client : req'[d] = Idle \/ (req'[d] = req[d] /\ ~Holds(req[d], {p}, {}))
    BY <2>1 DEF Finish
  <2>3. /\ link \in [Place -> Nat] /\ link'[p] > 0 /\ p = <<p[1], p[2]>>
        /\ \A q \in Place : q # p => link'[q] = link[q]
    BY <2>1 DEF IInv, Graph, Place
  <2>4. p[2] \in Out(p[1])'
    BY <2>1, <2>3 DEF Out, Place
  <2>5. \A x \in DOMAIN anno : x # p[1] => Out(x)' = Out(x)
    <3>1. \A x \in DOMAIN anno : x # p[1] => \A t \in Anno \cup Read : link'[<<x, t>>] = link[<<x, t>>]
      BY <2>3 DEF IInv, Graph, Place
    <3>2. QED BY <3>1 DEF Out
  <2>6. \A d \in Client : At(d, "delete") /\ req'[d] = req[d] => p[2] \notin req[d].gone
    BY <2>2 DEF Holds, At
  <2>7. QED BY <2>1, <2>2, <2>4, <2>5, <2>6, DanglingRest
<1>4. ASSUME NEW c \in Client, Put(c) \/ Cut(c) \/ Deleted(c) PROVE DInv'
  <2>1. req[c] # Idle /\ Taking(req[c])
    BY <1>4 DEF Put, Cut, Deleted, At, Taking
  <2>2. \A d \in Client : req'[d] = Idle \/ (req'[d] = req[d] /\ d # c)
    BY <1>4 DEF Put, Cut, Deleted, Finish
  <2>3. \A d \in Client \ {c} : ~At(d, "delete")
    BY <2>1 DEF DInv
  <2>4. \A d \in Client : ~At(d, "delete")'
    BY <2>2, <2>3 DEF At
  <2>5. QED BY <2>4 DEF DInv
<1>5. ASSUME NEW c \in Client, Unlabelled(c) \/ Abort(c) PROVE DInv'
  <2>1. UNCHANGED <<anno, primary, link>> /\ \A d \in Client : req'[d] = Idle \/ req'[d] = req[d]
    BY <1>5 DEF Unlabelled, Abort, graph, IInv
  <2>2. QED BY <1>1, <2>1
<1>6. ASSUME NEW n \in Name, NEW kinds \in Linkset, PutLabel(n, kinds) PROVE DInv'
  <2>1. UNCHANGED <<anno, primary, link>> /\ \A d \in Client : req'[d] = Idle \/ req'[d] = req[d]
    BY <1>6 DEF PutLabel
  <2>2. QED BY <1>1, <2>1
<1>7. ASSUME NEW t \in Read, DeleteReading(t), No(Deleting) PROVE DInv'
  <2>1. \A d \in Client : req'[d] = Idle \/ req'[d] = req[d]
    BY <1>7 DEF DeleteReading
  <2>2. \A d \in Client : ~At(d, "delete")'
    BY <1>7, <2>1 DEF At, No, Deleting
  <2>3. QED BY <2>2 DEF DInv
<1>8. CASE UNCHANGED vars
  BY <1>1, <1>8 DEF vars
<1>9. QED BY <1>2, <1>3, <1>4, <1>5, <1>6, <1>7, <1>8, DanglingSend DEF NextApart, Proceed

\* A deletion that keeps apart from whatever else takes links and marks away
\* leaves nothing behind that it has taken the last link from, unless it is
\* primary (deleteIfDangling).
THEOREM NoneStayDangling == SpecApart => NoneLeft
<1>1. Init => DInv
  BY DEF Init, DInv, At, Idle
<1>2. SpecApart => []IInv
  BY Apart, Inductive, PTL
<1>3. IInv /\ DInv /\ [NextApart]_vars =>
        [\A c \in Client : Deleted(c) =>
           \A a \in DOMAIN anno' : Out(a) # {} /\ (Out(a))' = {} => a \in primary]_vars
  <2> SUFFICES ASSUME IInv, DInv, NEW c \in Client, Deleted(c), NEW a \in DOMAIN anno',
                      Out(a) # {}, (Out(a))' = {}
               PROVE  a \in primary
    OBVIOUS
  <2> DEFINE gone == req[c].gone
  <2>1. /\ a \in DOMAIN anno /\ a \notin gone /\ a \in Anno
        /\ \A p \in Place : p[1] \notin gone /\ p[2] \notin gone => link'[p] = link[p]
    BY DEF Deleted, IInv, Graph
  <2>2. \A t \in Anno \cup Read : t \notin gone => link'[<<a, t>>] = link[<<a, t>>]
    BY <2>1 DEF Place
  <2>3. Out(a) \subseteq gone
    BY <2>2 DEF Out
  <2>4. Closed(gone)
    BY DEF DInv, Deleted
  <2>5. QED BY <2>1, <2>3, <2>4 DEF Closed
<1>4. QED BY <1>1, <1>2, <1>3, DanglingNext, PTL DEF SpecApart, NoneLeft
-----------------------------------------------------------------------------
(* The walk of a deletion.                                                *)

\* A set of numbers has a least one.
LEMMA Least ==
  ASSUME NEW S \in SUBSET Nat, S # {}
  PROVE  \E m \in S : \A n \in S : m <= n
<1>1. PICK m \in S : \A n \in S : <<n, m>> \notin OpToRel(<, Nat)
  BY NatLessThanWellFounded, WFMin
<1>2. \A n \in S : ~ (n < m)
  BY <1>1 DEF OpToRel
<1>3. QED BY <1>2

\* f begins with a, and g makes every further value of the one before it.
Unrolls(f, K, S, a, g) ==
  f \in [0 .. K -> S] /\ f[0] = a /\ \A k \in 1 .. K : f[k] = g[k][f[k - 1]]

\* Functions on numbers can be defined by recursion.
LEMMA Recursion ==
  ASSUME NEW S, NEW a \in S, NEW C \in Nat, NEW g \in [Nat -> [S -> S]]
  PROVE  \E f : Unrolls(f, C, S, a, g)
<1> DEFINE B == {K \in Nat : ~ \E f : Unrolls(f, K, S, a, g)}
<1>1. SUFFICES ASSUME B # {} PROVE FALSE
  OBVIOUS
<1>2. PICK K \in B : \A j \in B : K <= j
  BY <1>1, Least
<1>3. K # 0
  <2>1. Unrolls([k \in 0 .. 0 |-> a], 0, S, a, g)
    BY DEF Unrolls
  <2>2. QED BY <1>2, <2>1
<1>4. K - 1 \in Nat /\ K - 1 \notin B
  BY <1>2, <1>3
<1>5. PICK f : Unrolls(f, K - 1, S, a, g)
  BY <1>4
<1> DEFINE h == [k \in 0 .. K |-> IF k = K THEN g[K][f[K - 1]] ELSE f[k]]
<1>6. /\ f \in [0 .. K - 1 -> S] /\ f[0] = a
      /\ \A k \in 1 .. K - 1 : f[k] = g[k][f[k - 1]]
  BY <1>5 DEF Unrolls
<1>7. f[K - 1] \in S /\ g[K] \in [S -> S] /\ K \in Nat
  BY <1>2, <1>4, <1>6
<1>8. h \in [0 .. K -> S] /\ h[0] = a
  BY <1>3, <1>6, <1>7
<1>9. ASSUME NEW k \in 1 .. K PROVE h[k] = g[k][h[k - 1]]
  <2>1. h[k - 1] = f[k - 1]
    BY <1>7
  <2>2. CASE k = K
    BY <1>7, <2>1, <2>2
  <2>3. CASE k # K
    BY <1>6, <1>7, <2>1, <2>3
  <2>4. QED BY <2>2, <2>3
<1> HIDE DEF h
<1>10. Unrolls(h, K, S, a, g)
  BY <1>8, <1>9 DEF Unrolls
<1>11. QED BY <1>2, <1>10

\* A walk, with the annotations that are being deleted and the links into them that
\* have not been followed yet; these come from annotations that have a link.
Hanging == {p \in DOMAIN anno : Out(p) # {}}
Frame   == [at : Anno, left : SUBSET (Hanging \X Nat)]
Walk    == [cut : SUBSET Anno, dead : SUBSET Anno, ok : BOOLEAN, trail : Seq(Frame)]

Frames(q)  == {q[i] : i \in 1 .. Len(q)}
Waiting(q) == {x \in Hanging : \E f \in Frames(q) : \E k : <<x, k>> \in f.left}

\* What the walk has cut is deleted or will be on the way back, and all of it is
\* doomed; what that leaves dangling, save x, is going to be met.
Kept(root, w, x) ==
  /\ w \in Walk /\ w.cut \subseteq Doomed(root)
  /\ w.ok => w.cut = w.dead \cup {f.at : f \in Frames(w.trail)}
  /\ w.ok => \A p \in DOMAIN anno \ (primary \cup {root, x}) :
               Out(p) # {} /\ Out(p) \subseteq w.cut => p \in w.cut \cup Waiting(w.trail)

LEMMA FramesOf ==
  ASSUME NEW q \in Seq(Frame)
  PROVE  /\ \A f \in Frame : /\ <<f>> \o q \in Seq(Frame)
                             /\ Frames(<<f>> \o q) = {f} \cup Frames(q)
         /\ q # <<>> => /\ Head(q) \in Frame /\ Tail(q) \in Seq(Frame)
                        /\ Frames(q) = {Head(q)} \cup Frames(Tail(q))
<1> HIDE DEF Frame
<1>1. ASSUME NEW f \in Frame
      PROVE  <<f>> \o q \in Seq(Frame) /\ Frames(<<f>> \o q) = {f} \cup Frames(q)
  <2> DEFINE r == <<f>> \o q
  <2>1. /\ r \in Seq(Frame) /\ Len(r) = Len(q) + 1 /\ Len(q) \in Nat
        /\ r[1] = f /\ \A i \in 1 .. Len(q) : r[i + 1] = q[i]
    OBVIOUS
  <2> HIDE DEF r
  <2>2. \A j \in 1 .. Len(r) : j = 1 \/ (j - 1 \in 1 .. Len(q) /\ r[j] = q[j - 1])
    BY <2>1
  <2>3. \A i \in 1 .. Len(q) : i + 1 \in 1 .. Len(r)
    BY <2>1
  <2>4. 1 \in 1 .. Len(r)
    BY <2>1
  <2>5. ASSUME NEW j \in 1 .. Len(r) PROVE r[j] \in {f} \cup Frames(q)
    BY <2>1, <2>2 DEF Frames
  <2>6. ASSUME NEW i \in 1 .. Len(q) PROVE q[i] \in Frames(r)
    BY <2>1, <2>3 DEF Frames
  <2>7. f \in Frames(r)
    BY <2>1, <2>4 DEF Frames
  <2>8. Frames(r) = {f} \cup Frames(q)
    BY <2>5, <2>6, <2>7 DEF Frames
  <2>9. QED BY <2>1, <2>8 DEF r
<1>2. ASSUME q # <<>>
      PROVE  Head(q) \in Frame /\ Tail(q) \in Seq(Frame) /\ Frames(q) = {Head(q)} \cup Frames(Tail(q))
  <2> DEFINE t == Tail(q)
  <2>1. /\ Head(q) \in Frame /\ t \in Seq(Frame) /\ Len(t) = Len(q) - 1 /\ Len(q) \in Nat \ {0}
        /\ Head(q) = q[1] /\ \A i \in 1 .. Len(t) : t[i] = q[i + 1]
    BY <1>2, HeadTailProperties, EmptySeq, LenProperties
  <2> HIDE DEF t
  <2>2. \A j \in 1 .. Len(q) : j = 1 \/ (j - 1 \in 1 .. Len(t) /\ t[j - 1] = q[j])
    BY <2>1
  <2>3. \A i \in 1 .. Len(t) : i + 1 \in 1 .. Len(q)
    BY <2>1
  <2>4. 1 \in 1 .. Len(q)
    BY <2>1
  <2>5. ASSUME NEW j \in 1 .. Len(q) PROVE q[j] \in {Head(q)} \cup Frames(t)
    BY <2>1, <2>2 DEF Frames
  <2>6. ASSUME NEW i \in 1 .. Len(t) PROVE t[i] \in Frames(q)
    BY <2>1, <2>3 DEF Frames
  <2>7. Head(q) \in Frames(q)
    BY <2>1, <2>4 DEF Frames
  <2>8. Frames(q) = {Head(q)} \cup Frames(t)
    BY <2>5, <2>6, <2>7 DEF Frames
  <2>9. QED BY <2>1, <2>8 DEF t
<1>3. QED BY <1>1, <1>2

\* A visit makes those wait that it may leave dangling.
LEMMA VisitKept ==
  ASSUME Graph, NEW root \in DOMAIN anno, NEW w, NEW a \in Doomed(root), Kept(root, w, a)
  PROVE  /\ Kept(root, Visit(root, w, a), root)
         /\ Visit(root, w, a).cut = w.cut \cup {a}
<1> DEFINE ps == IF a \in w.cut THEN {} ELSE Parents(root, a)
           f  == [at |-> a, left |-> ps]
           q  == <<f>> \o w.trail
           v  == Visit(root, w, a)
<1>1. w \in Walk /\ w.trail \in Seq(Frame) /\ a \in Anno
  BY DEF Kept, Walk, Doomed, Graph
<1>2. \A p \in DOMAIN anno : p \in Anno /\ <<p, a>> \in Place /\ link[<<p, a>>] \in Nat
  BY <1>1 DEF Graph, Place
<1>3. ps \subseteq Hanging \X Nat
  <2>1. ASSUME NEW p \in DOMAIN anno, NEW k \in 1 .. link[<<p, a>>] PROVE p \in Hanging /\ k \in Nat
    <3>1. link[<<p, a>>] > 0 /\ k \in Nat
      BY <1>2
    <3>2. QED BY <1>1, <3>1 DEF Hanging, Out
  <2>2. ASSUME NEW x \in Parents(root, a) PROVE x \in Hanging \X Nat
    <3>1. PICK p \in DOMAIN anno \ {root} : x \in {p} \X (1 .. link[<<p, a>>])
      BY DEF Parents
    <3>2. x = <<p, x[2]>> /\ x[2] \in 1 .. link[<<p, a>>]
      BY <3>1
    <3>3. p \in Hanging /\ x[2] \in Nat
      BY <2>1, <3>2
    <3>4. QED BY <3>2, <3>3
  <2>3. QED BY <2>2
<1>4. f \in Frame
  BY <1>1, <1>3 DEF Frame
<1> HIDE DEF ps, f
<1>5. q \in Seq(Frame) /\ Frames(q) = {f} \cup Frames(w.trail)
  BY <1>1, <1>4, FramesOf
<1> HIDE DEF q
<1>0. v = [w EXCEPT !.cut = @ \cup {a}, !.trail = q]
  BY <1>1 DEF Visit, Walk, q, f, ps
<1>6. /\ v = [cut |-> w.cut \cup {a}, dead |-> w.dead, ok |-> w.ok, trail |-> q]
      /\ v \in Walk
  BY <1>0, <1>1, <1>5 DEF Walk
<1> HIDE DEF v
<1>7. v.cut = w.cut \cup {a} /\ v.dead = w.dead /\ v.ok = w.ok /\ v.trail = q
  BY <1>6
<1>8. v.cut \subseteq Doomed(root)
  BY <1>7 DEF Kept
<1>9. v.ok => v.cut = v.dead \cup {g.at : g \in Frames(v.trail)}
  <2>1. f.at = a
    BY DEF f
  <2>2. QED BY <1>5, <1>7, <2>1 DEF Kept
<1>10. ASSUME v.ok, NEW p \in DOMAIN anno \ (primary \cup {root}),
              Out(p) # {}, Out(p) \subseteq v.cut, p \notin v.cut
       PROVE  p \in Waiting(v.trail)
  <2>1. p \in Hanging
    BY <1>10 DEF Hanging
  <2>2. CASE Out(p) \subseteq w.cut
    <3>1. p \in Waiting(w.trail)
      BY <1>7, <1>10, <2>2 DEF Kept
    <3>2. QED BY <1>5, <1>7, <3>1 DEF Waiting
  <2>3. CASE ~(Out(p) \subseteq w.cut)
    <3>1. a \in Out(p) /\ a \notin w.cut
      BY <1>7, <1>10, <2>3
    <3>2. link[<<p, a>>] > 0
      BY <3>1 DEF Out
    <3>3. 1 \in 1 .. link[<<p, a>>]
      BY <1>2, <3>2
    <3>4. <<p, 1>> \in ps
      BY <1>10, <3>1, <3>3 DEF ps, Parents
    <3>5. f \in Frames(v.trail) /\ <<p, 1>> \in f.left
      BY <1>5, <1>7, <3>4 DEF f
    <3>6. QED BY <2>1, <3>5 DEF Waiting
  <2>4. QED BY <2>2, <2>3
<1>11. QED BY <1>6, <1>7, <1>8, <1>9, <1>10 DEF Kept, v

LEMMA MeetKept ==
  ASSUME Graph, NEW root \in DOMAIN anno, NEW w, NEW p \in Hanging,
         Kept(root, w, p), root \in w.cut, w.ok
  PROVE  Kept(root, Meet(root, w, p), root) /\ root \in Meet(root, w, p).cut
<1>1. w \in Walk
  BY DEF Kept
<1>2. CASE p \in w.dead
  <2> DEFINE v == [w EXCEPT !.ok = FALSE]
  <2>1. Meet(root, w, p) = v
    BY <1>2 DEF Meet
  <2>2. v \in Walk /\ v.cut = w.cut /\ v.ok = FALSE
    BY <1>1 DEF Walk
  <2> HIDE DEF v
  <2>3. QED BY <2>1, <2>2 DEF Kept
<1>3. CASE p \notin w.dead /\ (p \in primary \/ ~(Out(p) \subseteq w.cut))
  <2>1. Meet(root, w, p) = w
    BY <1>3 DEF Meet
  <2>2. QED BY <1>3, <2>1 DEF Kept
<1>4. CASE p \notin w.dead /\ p \notin primary /\ Out(p) \subseteq w.cut
  <2>1. Meet(root, w, p) = Visit(root, w, p)
    BY <1>4 DEF Meet
  <2>2. p \in Doomed(root)
    BY <1>4, DoomedClosed DEF Kept, Hanging, Closed
  <2>3. QED BY <2>1, <2>2, VisitKept
<1>5. QED BY <1>2, <1>3, <1>4

\* Walks that keep to that, from the visit of root on.
Good(root) == {w \in Walk : Kept(root, w, root) /\ root \in w.cut}

LEMMA OnwardGood ==
  ASSUME Graph, NEW root \in DOMAIN anno, NEW w \in Good(root)
  PROVE  Onward(root, w) \in SUBSET Good(root)
<1> DEFINE top  == Head(w.trail)
           rest == Tail(w.trail)
<1>1. w \in Walk /\ Kept(root, w, root) /\ root \in w.cut
  BY DEF Good
<1>2. CASE ~w.ok \/ w.trail = <<>>
  BY <1>2 DEF Onward
<1>3. ASSUME w.ok, w.trail # <<>> PROVE Onward(root, w) \in SUBSET Good(root)
  <2>1. /\ top \in Frame /\ rest \in Seq(Frame)
        /\ Frames(w.trail) = {top} \cup Frames(rest)
    BY <1>1, <1>3, FramesOf DEF Walk
  <2>2. CASE top.left = {}
    <3> DEFINE v == [w EXCEPT !.dead = @ \cup {top.at}, !.ok = top.at \notin w.dead, !.trail = rest]
    <3>1. Onward(root, w) = {v}
      BY <1>3, <2>2 DEF Onward
    <3> HIDE DEF top, rest
    <3>2. /\ v \in Walk /\ v.cut = w.cut /\ v.dead = w.dead \cup {top.at} /\ v.trail = rest
      BY <1>1, <2>1 DEF Walk, Frame
    <3> HIDE DEF v
    <3>3. v.cut = v.dead \cup {f.at : f \in Frames(v.trail)}
      BY <1>1, <1>3, <2>1, <3>2 DEF Kept
    <3>4. Waiting(w.trail) \subseteq Waiting(v.trail)
      BY <2>1, <2>2, <3>2 DEF Waiting
    <3>5. Kept(root, v, root)
      BY <1>1, <1>3, <3>2, <3>3, <3>4 DEF Kept
    <3>6. QED BY <1>1, <3>1, <3>2, <3>5 DEF Good
  <2>3. ASSUME top.left # {}, NEW p \in top.left
        PROVE  Meet(root, [w EXCEPT !.trail = <<[top EXCEPT !.left = @ \ {p}]>> \o rest], p[1])
                 \in Good(root)
    <3> DEFINE f == [top EXCEPT !.left = @ \ {p}]
               q == <<f>> \o rest
               v == [w EXCEPT !.trail = q]
    <3> HIDE DEF top, rest
    <3>1. p[1] \in Hanging /\ p = <<p[1], p[2]>>
      BY <2>1, <2>3 DEF Frame
    <3>2. f \in Frame /\ f.at = top.at /\ f.left = top.left \ {p}
      BY <2>1 DEF Frame
    <3> HIDE DEF f
    <3>3. q \in Seq(Frame) /\ Frames(q) = {f} \cup Frames(rest)
      BY <2>1, <3>2, FramesOf
    <3> HIDE DEF q
    <3>4. /\ v \in Walk /\ v.cut = w.cut /\ v.dead = w.dead /\ v.ok /\ v.trail = q
      BY <1>1, <1>3, <3>3 DEF Walk
    <3> HIDE DEF v
    <3>5. v.cut = v.dead \cup {g.at : g \in Frames(v.trail)}
      BY <1>1, <1>3, <2>1, <3>2, <3>3, <3>4 DEF Kept
    <3>6. Waiting(w.trail) \subseteq Waiting(v.trail) \cup {p[1]}
      <4> SUFFICES ASSUME NEW x \in Waiting(w.trail), x # p[1] PROVE x \in Waiting(v.trail)
        OBVIOUS
      <4>0. PICK g \in Frames(w.trail) : \E k : <<x, k>> \in g.left
        BY DEF Waiting
      <4>1. PICK k : <<x, k>> \in g.left
        BY <4>0
      <4>2. CASE g = top
        <5>1. <<x, k>> \in f.left
          BY <3>1, <3>2, <4>1, <4>2
        <5>2. QED BY <3>3, <3>4, <5>1 DEF Waiting
      <4>3. CASE g \in Frames(rest)
        BY <3>3, <3>4, <4>1, <4>3 DEF Waiting
      <4>4. QED BY <2>1, <4>2, <4>3
    <3>7. Kept(root, v, p[1])
      BY <1>1, <1>3, <3>4, <3>5, <3>6 DEF Kept
    <3>8. Kept(root, Meet(root, v, p[1]), root) /\ root \in Meet(root, v, p[1]).cut
      BY <1>1, <3>1, <3>4, <3>7, MeetKept
    <3>9. QED BY <3>8 DEF Good, Kept, v, q, f
  <2>4. QED BY <1>3, <2>2, <2>3 DEF Onward
<1>4. QED BY <1>2, <1>3

LEMMA WalksGood ==
  ASSUME Graph, NEW a \in DOMAIN anno
  PROVE  Walks(a) \in SUBSET Good(a)
<1> DEFINE S     == SUBSET Good(a)
           none  == [cut |-> {}, dead |-> {}, ok |-> TRUE, trail |-> <<>>]
           start == Visit(a, none, a)
           after[n \in 0 .. MaxWalk] ==
             IF n = 0 THEN {start} ELSE UNION {Onward(a, w) : w \in after[n - 1]}
           g     == [n \in Nat |-> [W \in S |-> UNION {Onward(a, w) : w \in W}]]
<1>1. Walks(a) = after[MaxWalk]
  BY DEF Walks
<1>2. after = CHOOSE f : f = [n \in 0 .. MaxWalk |->
                                IF n = 0 THEN {start} ELSE UNION {Onward(a, w) : w \in f[n - 1]}]
  OBVIOUS
<1> HIDE DEF after
<1>3. {start} \in S
  <2>1. none \in Walk
    BY EmptySeq DEF Walk
  <2>2. Frames(none.trail) = {}
    BY DEF Frames
  <2>3. Kept(a, none, a)
    BY <2>1, <2>2 DEF Kept
  <2>4. a \in Doomed(a)
    BY DoomedClosed
  <2> HIDE DEF none
  <2>5. Kept(a, start, a) /\ a \in start.cut
    BY <2>3, <2>4, VisitKept
  <2>6. QED BY <2>5 DEF Good, Kept
<1>4. \A W \in S : UNION {Onward(a, w) : w \in W} \in S
  BY OnwardGood
<1> HIDE DEF start, S
<1>5. g \in [Nat -> [S -> S]] /\ \A n \in Nat, W \in S : g[n][W] = UNION {Onward(a, w) : w \in W}
  BY <1>4
<1> HIDE DEF g
<1>6. PICK f : Unrolls(f, MaxWalk, S, {start}, g)
  BY <1>3, <1>5, Recursion, WalkAssumption
<1>7. \A n \in 0 .. MaxWalk : n = 0 \/ (n \in 1 .. MaxWalk /\ n \in Nat /\ n - 1 \in 0 .. MaxWalk)
  BY WalkAssumption
<1>8. f = [n \in 0 .. MaxWalk |->
             IF n = 0 THEN {start} ELSE UNION {Onward(a, w) : w \in f[n - 1]}]
  <2>1. \A n \in 0 .. MaxWalk :
          f[n] = IF n = 0 THEN {start} ELSE UNION {Onward(a, w) : w \in f[n - 1]}
    BY <1>5, <1>6, <1>7 DEF Unrolls
  <2>2. QED BY <1>6, <2>1 DEF Unrolls
<1>9. after = [n \in 0 .. MaxWalk |->
                 IF n = 0 THEN {start} ELSE UNION {Onward(a, w) : w \in after[n - 1]}]
  BY <1>2, <1>8
<1> DEFINE B == {n \in 0 .. MaxWalk : after[n] \notin S}
<1>10. B = {}
  <2>1. SUFFICES ASSUME B # {} PROVE FALSE
    OBVIOUS
  <2>2. B \in SUBSET Nat
    BY WalkAssumption
  <2>3. PICK n \in B : \A j \in B : n <= j
    BY <2>1, <2>2, Least
  <2>4. n # 0
    BY <1>3, <1>9, <2>3
  <2>5. n \in Nat /\ n - 1 \in 0 .. MaxWalk /\ n - 1 < n
    BY <1>7, <2>3, <2>4
  <2>6. after[n - 1] \in S
    BY <2>3, <2>5, WalkAssumption
  <2>7. after[n] = UNION {Onward(a, w) : w \in after[n - 1]}
    BY <1>9, <2>3, <2>4
  <2>8. QED BY <1>4, <2>3, <2>6, <2>7
<1>11. MaxWalk \in 0 .. MaxWalk
  BY WalkAssumption
<1>12. QED BY <1>1, <1>10, <1>11 DEF S

\* deleteIfDangling, in whatever order it is handed the links, deletes the least set
\* that leaves nothing dangling, unless it comes by what it has deleted before.
THEOREM WalkIsRight == Spec => []WalkAgrees
<1>1. IInv => WalkAgrees
  <2> SUFFICES ASSUME IInv, NEW a \in DOMAIN anno, NEW w \in Walks(a), w.ok, w.trail = <<>>
               PROVE  w.dead = Doomed(a)
    BY DEF WalkAgrees
  <2>1. Kept(a, w, a) /\ a \in w.cut
    BY WalksGood DEF IInv, Good
  <2>2. Frames(w.trail) = {}
    BY DEF Frames
  <2>3. w.cut = w.dead /\ w.cut \subseteq Doomed(a) /\ Waiting(w.trail) = {}
    BY <2>1, <2>2 DEF Kept, Waiting
  <2>4. \A p \in DOMAIN anno \ primary : Out(p) # {} /\ Out(p) \subseteq w.cut => p \in w.cut
    BY <2>1, <2>3 DEF Kept
  <2>5. w.cut \in SUBSET DOMAIN anno
    BY <2>3, DoomedClosed
  <2>6. Doomed(a) \subseteq w.cut
    BY <2>1, <2>4, <2>5 DEF Doomed, Closed
  <2>7. QED BY <2>3, <2>6
<1>2. QED BY <1>1, Inductive, PTL

=============================================================================
