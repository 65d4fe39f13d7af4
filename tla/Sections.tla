------------------------------ MODULE Sections ------------------------------
(***************************************************************************)
(* The sections of a tradition, and the requests that change their order.  *)
(*                                                                         *)
(* The order is kept in NEXT links between the section nodes; the section  *)
(* without an incoming link is the first.  Every request is a transaction  *)
(* on the database.  It reads what other transactions have committed and   *)
(* collects its writes until it commits.  A link or a node that it deletes *)
(* is locked: of two transactions that delete the same one, the second     *)
(* fails.  Nothing locks what is only read, and nothing locks the place of *)
(* a link that is not there.                                               *)
(***************************************************************************)
EXTENDS Naturals, FiniteSets, Functions

CONSTANTS
  Section,  \* identities of section nodes
  Client,   \* requests that may run at the same time
  None      \* no section

ASSUME SectionsAssumption == IsFiniteSet(Section) /\ None \notin Section

VARIABLES
  section,  \* the sections of the tradition
  next,     \* how many NEXT links lead from one section to another
  req       \* the open transaction of each client, or Idle

vars == <<section, next, req>>

Place == Section \X Section
Idle  == <<>>

\* What a transaction has still to do and what it is going to write: the
\* section it will take out of the sequence, links to delete and to make,
\* sections to make and to delete, and the section that takes their readings.
Request == [unlink : Section \cup {None}, gone : SUBSET Place, made : SUBSET Place,
            new : SUBSET Section, old : SUBSET Section, heir : Section \cup {None}]
Nothing == [unlink |-> None, gone |-> {}, made |-> {}, new |-> {}, old |-> {}, heir |-> None]

Minus(n, S) == [p \in Place |-> IF p \in S THEN n[p] - 1 ELSE n[p]]
Plus(n, S)  == [p \in Place |-> IF p \in S THEN n[p] + 1 ELSE n[p]]

Into(n, s)  == {p \in Place : p[2] = s /\ n[p] > 0}
OutOf(n, s) == {p \in Place : p[1] = s /\ n[p] > 0}

\* getSingleRelationship and hasRelationship: more than one link is an error.
AtMostOne(n, S) == \A p, q \in S : p = q /\ n[p] = 1

Behind(s) == {p[2] : p \in OutOf(next, s)}
Heads     == {s \in section : Into(next, s) = {}}

\* The section lists that produceSectionList may return: depth first from a
\* section without incoming link, each section once, none left out.
Listings ==
  {q \in [1 .. Cardinality(section) -> section] :
     /\ IsInjective(q)
     /\ \A i \in DOMAIN q :
          IF i = 1 THEN q[1] \in Heads
          ELSE \E k \in 1 .. i - 1 :
                 /\ q[i] \in Behind(q[k])
                 /\ \A j \in k + 1 .. i - 1 : Behind(q[j]) \subseteq {q[m] : m \in 1 .. i - 1}}

-----------------------------------------------------------------------------
Init ==
  /\ section = {}
  /\ next = [p \in Place |-> 0]
  /\ req = [c \in Client |-> Idle]

Begin(c, r) ==
  /\ req[c] = Idle
  /\ req' = [req EXCEPT ![c] = r]
  /\ UNCHANGED <<section, next>>

\* POST /tradition/{id}/section.  The list is read before the file is parsed;
\* without a complete list the upload fails.
AddSection(c) ==
  \E q \in Listings, s \in Section \ section :
    /\ \A d \in Client : req[d] # Idle => s \notin req[d].new
    /\ Begin(c, [Nothing EXCEPT !.new = {s},
                                !.made = {<<q[i], s>> : i \in {Cardinality(section)} \ {0}}])

\* DELETE /tradition/{id}/section/{id}.
DeleteSection(c, s) == s \in section /\ Begin(c, [Nothing EXCEPT !.unlink = s, !.old = {s}])

\* Mutant: the section that followed goes on following.
OrderAfterBeside(c, s, p) ==
  /\ {s, p} \subseteq section /\ s # p
  /\ Begin(c, [Nothing EXCEPT !.unlink = s, !.made = {<<p, s>>} \cup ({s} \X Behind(p))])

\* PUT /tradition/{id}/section/{s}/orderAfter/{p}.  The link behind p is
\* deleted first, also where it leads to s itself.
OrderAfter(c, s, p) ==
  /\ {s, p} \subseteq section /\ s # p
  /\ AtMostOne(next, OutOf(next, p))
  /\ Begin(c, [Nothing EXCEPT !.unlink = s, !.gone = OutOf(next, p),
                              !.made = {<<p, s>>} \cup ({s} \X Behind(p))])

\* PUT /tradition/{id}/section/{s}/orderAfter/none.
OrderFirst(c, s) ==
  /\ s \in section
  /\ \E h \in Heads \ {s} : Begin(c, [Nothing EXCEPT !.unlink = s, !.made = {<<s, h>>}])

\* POST /tradition/{id}/section/{id}/merge/{other}, in either direction: the
\* second of two neighbours is merged into the first.
MergeSections(c, s) ==
  \E p \in Into(next, s) :
    p[1] # s /\ Begin(c, [Nothing EXCEPT !.unlink = s, !.old = {s}, !.heir = p[1]])

\* Mutant: what was before and behind the section is not joined.
JoinNothing(into, out) == {}

\* Where a section was, its neighbours are joined.
Join(into, out) == {<<i[1], o[2]>> : i \in into, o \in out}

\* removeFromSequence, on what has been committed by now and without the links
\* that the transaction has deleted.
RemoveFromSequence(c) ==
  LET r    == req[c]
      s    == r.unlink
      seen == Minus(next, r.gone)
      into == Into(seen, s)
      rest == Minus(seen, into)
      out  == OutOf(rest, s)
  IN  /\ r # Idle /\ s # None
      /\ AtMostOne(seen, into) /\ AtMostOne(rest, out)
      /\ req' = [req EXCEPT ![c] = [r EXCEPT !.unlink = None,
                                             !.gone = @ \cup into \cup out,
                                             !.made = @ \cup Join(into, out)]]
      /\ UNCHANGED <<section, next>>

\* Mutant: links and nodes are not locked.
HoldsNothing(r, gone, old) == FALSE

\* A transaction fails that holds on to a link or a section that is gone.
Holds(r, gone, old) ==
  \/ r.gone \cap gone # {}
  \/ ({r.unlink, r.heir} \cup r.old) \cap old # {}
  \/ \E p \in r.made : {p[1], p[2]} \cap old # {}

\* A deletion takes every link along that hangs on its section by now, also
\* one that it has not known of; a merge does not.
Swept(r) == IF r.heir = None THEN {p \in Place : {p[1], p[2]} \cap r.old # {}} ELSE {}

\* Nothing may hang on a section that goes.
Commit(c) ==
  LET r == req[c]
  IN  /\ r # Idle /\ r.unlink = None
      /\ next' = [p \in Place |-> IF p \in Swept(r) THEN 0
                                 ELSE Plus(Minus(next, r.gone), r.made)[p]]
      /\ section' = (section \cup r.new) \ r.old
      /\ \A s \in r.old : Into(next', s) \cup OutOf(next', s) = {}
      /\ req' = [d \in Client |->
                   IF d = c \/ (req[d] # Idle /\ Holds(req[d], r.gone \cup Swept(r), r.old))
                   THEN Idle ELSE req[d]]

\* A conflict, a failed check, a file that cannot be parsed.
Abort(c) ==
  /\ req[c] # Idle
  /\ req' = [req EXCEPT ![c] = Idle]
  /\ UNCHANGED <<section, next>>

Move(c)    == \E s \in Section : OrderFirst(c, s) \/ \E p \in Section : OrderAfter(c, s, p)
Drop(c)    == \E s \in Section : DeleteSection(c, s) \/ MergeSections(c, s)
Proceed(c) == RemoveFromSequence(c) \/ Commit(c) \/ Abort(c)

Next == \E c \in Client : AddSection(c) \/ Move(c) \/ Drop(c) \/ Proceed(c)

Spec == Init /\ [][Next]_vars

-----------------------------------------------------------------------------
\* Links only join sections that are there, and a transaction that commits
\* finds what it deletes and what it links to.
TypeOK ==
  /\ section \subseteq Section
  /\ next \in [Place -> Nat]
  /\ \A p \in Place : next[p] > 0 => p \in section \X section
  /\ req \in [Client -> Request \cup {Idle}]
  /\ \A c \in Client : req[c] # Idle =>
       /\ \A p \in req[c].gone : next[p] > 0
       /\ {req[c].unlink, req[c].heir} \subseteq section \cup {None}
       /\ \A p \in req[c].made : {p[1], p[2]} \subseteq section \cup req[c].new

=============================================================================
