-------------------------- MODULE AnnotationsProps --------------------------
(***************************************************************************)
(* What a deletion takes along and what it leaves.                         *)
(***************************************************************************)
EXTENDS Annotations

\* Types.  Links join nodes that are there, and what a request links to or
\* deletes is there until it commits.
TypeOK ==
  /\ DOMAIN allowed \subseteq Name /\ allowed \in [DOMAIN allowed -> SUBSET (Name \cup {Reading})]
  /\ DOMAIN anno \subseteq Anno /\ anno \in [DOMAIN anno -> Name]
  /\ primary \subseteq DOMAIN anno /\ reading \subseteq Read
  /\ link \in [Place -> Nat]
  /\ \A p \in Place : link[p] > 0 => p[1] \in DOMAIN anno /\ p[2] \in Node
  /\ req \in [Client -> Request \cup {Idle}]
  /\ \A c \in Client : req[c] # Idle =>
       /\ req[c].anno \in DOMAIN anno \cup {None}
       /\ req[c].target \in Node \cup {None}
       /\ req[c].links \subseteq Node /\ req[c].gone \subseteq DOMAIN anno

\* Whatever else runs, a deletion takes along nothing but what is not primary
\* and is left without a link by it: deleteIfDangling has looked at each
\* annotation some time before the commit.
OnlyDangling ==
  [][\A a \in DOMAIN anno \ DOMAIN anno' :
       \E c \in Client :
         /\ Deleted(c)
         /\ a # req[c].anno => a \notin primary /\ Out(a) # {} /\ Out(a) \subseteq req[c].gone]_vars

-----------------------------------------------------------------------------
(* Requests that keep apart: a deletion from whatever takes links or marks  *)
(* away, the deletion of a label from requests that use it, and requests    *)
(* for one link from each other.                                            *)

\* No open request satisfies P.
No(P(_)) == \A d \in Client : req[d] # Idle => ~P(req[d])

Deleting(r) == r.step = "delete"
Taking(r)   == r.step \in {"delete", "unlink", "put"}

SendApart(c) ==
  \/ \E a \in Anno :
       \/ No(Taking) /\ DeleteAnnotation(c, a)
       \/ No(Deleting) /\ \E t \in Anno \cup Read : DeleteAnnotationLink(c, a, t)
       \/ \E t \in Anno \cup Read :
            /\ No(LAMBDA r : r.step = "link" /\ r.anno = a /\ r.target = t)
            /\ AddAnnotationLink(c, a, t)
  \/ /\ AddAnnotation(c) \/ (No(Deleting) /\ \E a \in Anno : UpdateAnnotation(c, a))
     /\ No(LAMBDA r : r.step = "unlabel" /\ r.name = req'[c].name)
  \/ \E n \in Name : No(LAMBDA r : r.step \in {"post", "put"} /\ r.name = n) /\ DeleteAnnotationLabel(c, n)

NextApart ==
  \/ \E n \in Name, kinds \in Linkset : PutLabel(n, kinds)
  \/ No(Deleting) /\ \E t \in Read : DeleteReading(t)
  \/ \E c \in Client : SendApart(c) \/ Proceed(c)

SpecApart == Init /\ [][NextApart]_vars

\* Then a deletion leaves no annotation behind that it has taken the last link
\* from, unless it is primary.
NoneLeft ==
  [][\A c \in Client : Deleted(c) =>
       \A a \in DOMAIN anno' : Out(a) # {} /\ (Out(a))' = {} => a \in primary]_vars

\* Every annotation has a label that is specified: nothing can be linked to
\* it, and no link added, without one.
LabelsKnown == \A a \in DOMAIN anno : anno[a] \in DOMAIN allowed

\* No annotation is linked to the same node twice: deleteIfDangling would
\* come by it a second time, when it is gone, and fail.
LinkedOnce == \A p \in Place : link[p] <= 1

=============================================================================
