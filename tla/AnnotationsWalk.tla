-------------------------- MODULE AnnotationsWalk --------------------------
(***************************************************************************)
(* deleteIfDangling as it goes from an annotation to those that are linked *)
(* to it, in whatever order the database hands out links.                  *)
(***************************************************************************)
EXTENDS AnnotationsProps, Sequences

CONSTANT MaxWalk  \* bound: steps of a walk

ASSUME WalkAssumption == MaxWalk \in Nat

\* Links into a, one by one; those of the annotation that the request is about
\* have been deleted before.
Parents(root, a) == UNION {{p} \X (1 .. link[<<p, a>>]) : p \in DOMAIN anno \ {root}}

\* A visit cuts the links into a, on the way to each of those that they come from.
Visit(root, w, a) ==
  [w EXCEPT !.cut   = @ \cup {a},
            !.trail = <<[at |-> a, left |-> IF a \in w.cut THEN {} ELSE Parents(root, a)]>> \o @]

\* One of those: the walk fails if it has been deleted.
Meet(root, w, p) ==
  IF p \in w.dead THEN [w EXCEPT !.ok = FALSE]
  ELSE IF p \in primary \/ ~(Out(p) \subseteq w.cut) THEN w ELSE Visit(root, w, p)

\* What a walk may do next: an annotation is deleted, once, when all of the links
\* have been followed, in any order.
Onward(root, w) ==
  LET top  == Head(w.trail)
      rest == Tail(w.trail)
  IN  IF ~w.ok \/ w.trail = <<>> THEN {w}
      ELSE IF top.left = {}
        THEN {[w EXCEPT !.dead = @ \cup {top.at}, !.ok = top.at \notin w.dead, !.trail = rest]}
        ELSE {Meet(root, [w EXCEPT !.trail = <<[top EXCEPT !.left = @ \ {p}]>> \o rest], p[1]) :
                p \in top.left}

Walks(a) ==
  LET start == Visit(a, [cut |-> {}, dead |-> {}, ok |-> TRUE, trail |-> <<>>], a)
      after[n \in 0 .. MaxWalk] ==
        IF n = 0 THEN {start} ELSE UNION {Onward(a, w) : w \in after[n - 1]}
  IN  after[MaxWalk]

\* A walk that comes to its end without a failure deletes what the model deletes.
WalkAgrees ==
  \A a \in DOMAIN anno : \A w \in Walks(a) : w.ok /\ w.trail = <<>> => w.dead = Doomed(a)

=============================================================================
