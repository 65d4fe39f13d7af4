---------------------------- MODULE SectionsOrder ----------------------------
(***************************************************************************)
(* Whatever requests run beside each other, no NEXT link is left hanging.  *)
(* The sections stay one list whatever requests run beside each other in   *)
(* NextBeside, and each of them does to the list what SectionList says.    *)
(***************************************************************************)
EXTENDS SectionsProps, FiniteSetTheorems, SequenceTheorems, WellFoundedInduction, TLAPS

\* What TypeOK says of one transaction, against a list of sections and links.
Sound(r, n, S) ==
  /\ r \in Request
  /\ \A p \in r.gone : n[p] > 0
  /\ {r.unlink, r.heir} \subseteq S \cup {None}
  /\ \A p \in r.made : {p[1], p[2]} \subseteq S \cup r.new

LEMMA NotIdle == \A r \in Request : r # Idle
BY DEF Request, Idle

\* A request that begins soundly keeps the types.
LEMMA BeginType ==
  ASSUME TypeOK, NEW c \in Client, NEW r, Sound(r, next, section), Begin(c, r)
  PROVE  TypeOK'
BY NotIdle DEF TypeOK, Sound, Begin

LEMMA NothingType == Nothing \in Request
BY DEF Nothing, Request

LEMMA AddType ==
  ASSUME TypeOK, NEW c \in Client, AddSection(c)
  PROVE  TypeOK'
<1>1. PICK q \in Listings, s \in Section \ section :
        Begin(c, [Nothing EXCEPT !.new = {s},
                                 !.made = {<<q[i], s>> : i \in {Cardinality(section)} \ {0}}])
  BY DEF AddSection
<1> DEFINE made == {<<q[i], s>> : i \in {Cardinality(section)} \ {0}}
           r    == [Nothing EXCEPT !.new = {s}, !.made = made]
<1>2. Cardinality(section) \in Nat
  <2>1. IsFiniteSet(section)
    BY SectionsAssumption, FS_Subset DEF TypeOK
  <2>2. QED BY <2>1, FS_CardinalityType
<1>3. \A i \in {Cardinality(section)} \ {0} : q[i] \in section
  BY <1>1, <1>2 DEF Listings
<1>4. made \subseteq section \X {s}
  BY <1>3
<1>5. made \subseteq Place
  BY <1>4 DEF TypeOK, Place
<1>6. r.unlink = None /\ r.heir = None /\ r.gone = {} /\ r.made = made /\ r.new = {s}
  BY DEF Nothing
<1>7. r \in Request
  <2> HIDE DEF made
  <2>1. QED BY <1>5, NothingType DEF Request
<1>8. Sound(r, next, section)
  <2> HIDE DEF made, r
  <2>1. QED BY <1>4, <1>6, <1>7 DEF Sound
<1>9. QED BY <1>1, <1>8, BeginType

LEMMA DropType ==
  ASSUME TypeOK, NEW c \in Client, Drop(c)
  PROVE  TypeOK'
<1>1. CASE \E s \in Section : DeleteSection(c, s)
  <2>1. PICK s \in section : Begin(c, [Nothing EXCEPT !.unlink = s, !.old = {s}])
    BY <1>1 DEF DeleteSection
  <2> DEFINE r == [Nothing EXCEPT !.unlink = s, !.old = {s}]
  <2>2. r.unlink = s /\ r.heir = None /\ r.gone = {} /\ r.made = {}
    BY DEF Nothing
  <2>3. s \in Section
    BY DEF TypeOK
  <2>4. r \in Request
    BY <2>3, NothingType DEF Request
  <2>5. Sound(r, next, section)
    <3> HIDE DEF r
    <3>1. QED BY <2>2, <2>4 DEF Sound
  <2>6. QED BY <2>1, <2>5, BeginType
<1>2. CASE \E s \in Section : MergeSections(c, s)
  <2>1. PICK s \in section, f \in section :
          Begin(c, [Nothing EXCEPT !.unlink = s, !.old = {s}, !.heir = f])
    <3>1. PICK s \in Section : MergeSections(c, s)
      BY <1>2
    <3>2. PICK p \in Into(next, s) :
            Begin(c, [Nothing EXCEPT !.unlink = s, !.old = {s}, !.heir = p[1]])
      BY <3>1 DEF MergeSections
    <3>3. s \in section /\ p[1] \in section
      BY DEF Into, TypeOK
    <3>4. QED BY <3>2, <3>3
  <2> DEFINE r == [Nothing EXCEPT !.unlink = s, !.old = {s}, !.heir = f]
  <2>2. r.unlink = s /\ r.heir = f /\ r.gone = {} /\ r.made = {}
    BY DEF Nothing
  <2>3. s \in Section /\ f \in Section
    BY DEF TypeOK
  <2>4. r \in Request
    BY <2>3, NothingType DEF Request
  <2>5. Sound(r, next, section)
    <3> HIDE DEF r
    <3>1. QED BY <2>2, <2>4 DEF Sound
  <2>6. QED BY <2>1, <2>5, BeginType
<1>3. QED BY <1>1, <1>2 DEF Drop

LEMMA MoveType ==
  ASSUME TypeOK, NEW c \in Client, Move(c)
  PROVE  TypeOK'
<1>1. CASE \E s \in Section : OrderFirst(c, s)
  <2>1. PICK s \in section, h \in section :
          Begin(c, [Nothing EXCEPT !.unlink = s, !.made = {<<s, h>>}])
    BY <1>1 DEF OrderFirst, Heads
  <2> DEFINE r == [Nothing EXCEPT !.unlink = s, !.made = {<<s, h>>}]
  <2>2. r.unlink = s /\ r.heir = None /\ r.gone = {} /\ r.made = {<<s, h>>}
    BY DEF Nothing
  <2>3. s \in Section /\ {<<s, h>>} \subseteq Place
    BY DEF TypeOK, Place
  <2>4. r \in Request
    BY <2>3, NothingType DEF Request
  <2>5. Sound(r, next, section)
    <3> HIDE DEF r
    <3>1. QED BY <2>2, <2>4 DEF Sound
  <2>6. QED BY <2>1, <2>5, BeginType
<1>2. CASE \E s, p \in Section : OrderAfter(c, s, p)
  <2>1. PICK s \in section, p \in section :
          Begin(c, [Nothing EXCEPT !.unlink = s, !.gone = OutOf(next, p),
                                   !.made = {<<p, s>>} \cup ({s} \X Behind(p))])
    BY <1>2 DEF OrderAfter
  <2> DEFINE made == {<<p, s>>} \cup ({s} \X Behind(p))
             r == [Nothing EXCEPT !.unlink = s, !.gone = OutOf(next, p), !.made = made]
  <2>2. r.unlink = s /\ r.heir = None /\ r.gone = OutOf(next, p) /\ r.made = made
    BY DEF Nothing
  <2>3. /\ OutOf(next, p) \subseteq Place /\ Behind(p) \subseteq section
        /\ \A l \in OutOf(next, p) : next[l] > 0
    BY DEF OutOf, Behind, TypeOK
  <2>4. made \subseteq section \X section
    BY <2>3
  <2>5. s \in Section /\ made \subseteq Place
    BY <2>4 DEF TypeOK, Place
  <2>6. r \in Request
    <3> HIDE DEF made
    <3>1. QED BY <2>3, <2>5, NothingType DEF Request
  <2>7. Sound(r, next, section)
    <3> HIDE DEF made, r
    <3>1. QED BY <2>2, <2>3, <2>4, <2>6 DEF Sound
  <2>8. QED BY <2>1, <2>7, BeginType
<1>3. QED BY <1>1, <1>2 DEF Move

\* A link that is seen behind the deletions of a transaction is there.
LEMMA Seen ==
  ASSUME NEW n \in [Place -> Nat], NEW S \in SUBSET Place, \A p \in S : n[p] > 0
  PROVE  /\ Minus(n, S) \in [Place -> Nat]
         /\ \A p \in Place : Minus(n, S)[p] > 0 => n[p] > 0
BY DEF Minus

LEMMA UnlinkType ==
  ASSUME TypeOK, NEW c \in Client, RemoveFromSequence(c)
  PROVE  TypeOK'
<1> DEFINE r    == req[c]
           s    == r.unlink
           seen == Minus(next, r.gone)
           into == Into(seen, s)
           rest == Minus(seen, into)
           out  == OutOf(rest, s)
           new  == [r EXCEPT !.unlink = None, !.gone = @ \cup into \cup out,
                             !.made = @ \cup Join(into, out)]
<1>1. r \in Request /\ Sound(r, next, section)
  BY DEF RemoveFromSequence, TypeOK, Sound
<1>2. r.gone \subseteq Place /\ \A p \in r.gone : next[p] > 0
  BY <1>1 DEF Request, Sound
<1>3. seen \in [Place -> Nat] /\ \A p \in Place : seen[p] > 0 => next[p] > 0
  BY <1>2, Seen DEF TypeOK
<1>4. into \subseteq Place /\ \A p \in into : seen[p] > 0
  BY DEF Into
<1>5. rest \in [Place -> Nat] /\ \A p \in Place : rest[p] > 0 => seen[p] > 0
  <2> HIDE DEF seen, into
  <2>1. QED BY <1>3, <1>4, Seen
<1>6. out \subseteq Place /\ \A p \in out : rest[p] > 0
  BY DEF OutOf
<1>7. \A p \in into \cup out : p \in Place /\ next[p] > 0
  <2> HIDE DEF seen, into, rest, out
  <2>1. QED BY <1>3, <1>4, <1>5, <1>6
<1>8. \A p \in into \cup out : p \in section \X section
  BY <1>7 DEF TypeOK
<1>9. Join(into, out) \subseteq section \X section
  <2> HIDE DEF into, out
  <2>1. QED BY <1>8 DEF Join
<1>10. Join(into, out) \subseteq Place
  BY <1>9 DEF Place, TypeOK
<1>11. Sound(new, next, section)
  <2> HIDE DEF r, into, out
  <2>1. /\ new.unlink = None /\ new.gone = r.gone \cup into \cup out
        /\ new.made = r.made \cup Join(into, out) /\ new.new = r.new
        /\ new.heir = r.heir
    BY <1>1 DEF Request
  <2>2. new \in Request
    BY <1>1, <1>7, <1>10 DEF Request
  <2> HIDE DEF new
  <2>3. QED BY <1>1, <1>2, <1>7, <1>9, <2>1, <2>2 DEF Sound
<1>12. req' = [req EXCEPT ![c] = new] /\ UNCHANGED <<section, next>>
  BY DEF RemoveFromSequence
<1>13. QED
  <2> HIDE DEF new
  <2>1. QED BY <1>11, <1>12, NotIdle DEF TypeOK, Sound

\* The commit of one transaction leaves the others sound, or ends them.
LEMMA CommitType ==
  ASSUME TypeOK, NEW c \in Client, Commit(c)
  PROVE  TypeOK'
<1> DEFINE r    == req[c]
           gone == r.gone \cup Swept(r)
<1>1. /\ r # Idle /\ r \in Request
      /\ next' = [p \in Place |-> IF p \in Swept(r) THEN 0
                                 ELSE Plus(Minus(next, r.gone), r.made)[p]]
      /\ section' = (section \cup r.new) \ r.old
      /\ \A s \in r.old : Into(next', s) \cup OutOf(next', s) = {}
      /\ req' = [d \in Client |->
                   IF d = c \/ (req[d] # Idle /\ Holds(req[d], gone, r.old))
                   THEN Idle ELSE req[d]]
  BY DEF Commit, TypeOK
<1>2. r.gone \subseteq Place /\ r.made \subseteq Place /\ r.new \subseteq Section
  BY <1>1 DEF Request
<1>3. \A p \in r.gone : next[p] > 0
  BY <1>1 DEF TypeOK
<1>4. /\ next' \in [Place -> Nat]
      /\ \A p \in Place : next'[p] > 0 => next[p] > 0 \/ p \in r.made
      /\ \A p \in Place \ gone : next'[p] >= next[p]
  BY <1>1, <1>2, <1>3 DEF TypeOK, Plus, Minus
<1>5. section' \subseteq Section
  BY <1>1, <1>2 DEF TypeOK
<1>6. \A p \in Place : next'[p] > 0 => p \in section' \X section'
  <2> TAKE p \in Place
  <2> HAVE next'[p] > 0
  <2>1. {p[1], p[2]} \subseteq section \cup r.new
    <3>1. CASE next[p] > 0
      BY <3>1 DEF TypeOK
    <3>2. CASE p \in r.made
      BY <1>1, <3>2 DEF TypeOK
    <3>3. QED BY <1>4, <3>1, <3>2
  <2>2. p[1] \notin r.old /\ p[2] \notin r.old
    <3>1. p \in Into(next', p[2]) /\ p \in OutOf(next', p[1])
      BY DEF Into, OutOf
    <3>2. QED BY <1>1, <3>1
  <2>3. p = <<p[1], p[2]>>
    BY DEF Place
  <2>4. QED BY <1>1, <2>1, <2>2, <2>3
<1>7. req' \in [Client -> Request \cup {Idle}]
  BY <1>1 DEF TypeOK
<1>8. ASSUME NEW d \in Client, req'[d] # Idle
      PROVE  /\ \A p \in req'[d].gone : next'[p] > 0
             /\ {req'[d].unlink, req'[d].heir} \subseteq section' \cup {None}
             /\ \A p \in req'[d].made : {p[1], p[2]} \subseteq section' \cup req'[d].new
  <2>1. req'[d] = req[d] /\ req[d] # Idle /\ ~ Holds(req[d], gone, r.old)
    BY <1>1, <1>8
  <2>2. req[d] \in Request
    BY <2>1 DEF TypeOK
  <2>3. \A p \in req[d].gone : p \in Place \ gone /\ next[p] > 0 /\ next[p] \in Nat
    BY <2>1, <2>2 DEF TypeOK, Holds, Request
  <2>4. \A p \in req[d].gone : next'[p] > 0
    BY <1>4, <2>3
  <2>5. {req[d].unlink, req[d].heir} \subseteq section' \cup {None}
    BY <1>1, <2>1 DEF TypeOK, Holds
  <2>6. \A p \in req[d].made : {p[1], p[2]} \subseteq section' \cup req[d].new
    BY <1>1, <2>1 DEF TypeOK, Holds
  <2>7. QED BY <2>1, <2>4, <2>5, <2>6
<1>9. QED BY <1>4, <1>5, <1>6, <1>7, <1>8 DEF TypeOK

LEMMA NextType ==
  ASSUME TypeOK, [Next]_vars
  PROVE  TypeOK'
<1>1. CASE UNCHANGED vars
  BY <1>1 DEF TypeOK, vars
<1>2. CASE Next
  <2>1. PICK c \in Client : AddSection(c) \/ Move(c) \/ Drop(c) \/ Proceed(c)
    BY <1>2 DEF Next
  <2>2. CASE Abort(c)
    BY <2>2 DEF Abort, TypeOK
  <2>3. QED
    BY <2>1, <2>2, AddType, MoveType, DropType, UnlinkType, CommitType DEF Proceed
<1>3. QED BY <1>1, <1>2

\* However many requests run at the same time, every NEXT link joins two
\* sections of the tradition, and a transaction that commits still finds each
\* link it deletes: none is deleted twice, none is made to a section that
\* another transaction has deleted.
THEOREM LinksNeverHang == Spec => []TypeOK
<1>1. Init => TypeOK
  BY DEF Init, TypeOK
<1>2. TypeOK /\ [Next]_vars => TypeOK'
  BY NextType
<1>3. QED BY <1>1, <1>2, PTL DEF Spec

-----------------------------------------------------------------------------
(* Lists of sections.                                                      *)

At(q, s) == CHOOSE i \in DOMAIN q : q[i] = s

\* q lists S, each member once.
Lists(q, S) ==
  /\ q \in [1 .. Cardinality(S) -> S]
  /\ \A i, j \in 1 .. Cardinality(S) : q[i] = q[j] => i = j
  /\ \A s \in S : \E i \in 1 .. Cardinality(S) : q[i] = s

\* The links n are those between neighbours in q.
Links(q, S, n) ==
  \A a, b \in Section :
    n[<<a, b>>] = IF a \in S /\ b \in S /\ At(q, b) = At(q, a) + 1 THEN 1 ELSE 0

\* A set of numbers has a least one.
LEMMA Least ==
  ASSUME NEW S \in SUBSET Nat, S # {}
  PROVE  \E m \in S : \A n \in S : m <= n
<1>1. PICK m \in S : \A n \in S : <<n, m>> \notin OpToRel(<, Nat)
  BY NatLessThanWellFounded, WFMin
<1>2. \A n \in S : ~ (n < m)
  BY <1>1 DEF OpToRel
<1>3. QED BY <1>2

LEMMA Sized == TypeOK => IsFiniteSet(section) /\ Cardinality(section) \in Nat
<1> SUFFICES ASSUME TypeOK PROVE IsFiniteSet(section) /\ Cardinality(section) \in Nat
  OBVIOUS
<1>1. IsFiniteSet(section)
  BY SectionsAssumption, FS_Subset DEF TypeOK
<1>2. Cardinality(section) \in Nat
  BY <1>1, FS_CardinalityType
<1>3. QED BY <1>1, <1>2

LEMMA AtPlace ==
  ASSUME NEW S, NEW m \in Nat, NEW q \in [1 .. m -> S],
         \A i, j \in 1 .. m : q[i] = q[j] => i = j
  PROVE  \A i \in 1 .. m : At(q, q[i]) = i
BY DEF At

LEMMA AtList ==
  ASSUME NEW S, Cardinality(S) \in Nat, NEW q, Lists(q, S)
  PROVE  /\ \A s \in S : At(q, s) \in 1 .. Cardinality(S) /\ q[At(q, s)] = s
         /\ \A i \in 1 .. Cardinality(S) : q[i] \in S /\ At(q, q[i]) = i
<1> DEFINE m == Cardinality(S)
<1>1. /\ m \in Nat
      /\ q \in [1 .. m -> S] /\ \A s \in S : \E i \in 1 .. m : q[i] = s
      /\ \A i, j \in 1 .. m : q[i] = q[j] => i = j
  BY DEF Lists
<1>2. \A i \in 1 .. m : At(q, q[i]) = i
  <2> HIDE DEF m
  <2>1. QED BY <1>1, AtPlace
<1> HIDE DEF m
<1>3. QED BY <1>1, <1>2 DEF m

\* What is enumerated without repetition has as many members.
LEMMA Counted ==
  ASSUME NEW S, NEW m \in Nat, NEW q \in [1 .. m -> S],
         \A i, j \in 1 .. m : q[i] = q[j] => i = j,
         \A s \in S : \E i \in 1 .. m : q[i] = s
  PROVE  Cardinality(S) = m /\ Lists(q, S)
<1>1. q \in Bijection(1 .. m, S)
  BY DEF Bijection, Injection, Surjection, IsInjective
<1>2. IsFiniteSet(1 .. m) /\ Cardinality(1 .. m) = m
  BY FS_Interval
<1>3. Cardinality(S) = m
  BY <1>1, <1>2, FS_Bijection DEF ExistsBijection
<1>4. QED BY <1>3 DEF Lists

\* A list that has all links is the one that readers find ...
LEMMA ListFound ==
  ASSUME TypeOK, NEW q, Lists(q, section), Links(q, section, next)
  PROVE  q \in Listings
<1> DEFINE m == Cardinality(section)
<1>1. m \in Nat
  BY Sized
<1>2. \A s \in section : At(q, s) \in 1 .. m /\ q[At(q, s)] = s
  BY <1>1, AtList
<1>3. \A i \in 1 .. m : q[i] \in section /\ q[i] \in Section /\ At(q, q[i]) = i
  BY <1>1, AtList DEF TypeOK
<1>4. \A i \in 1 .. m : i # 1 => q[i] \in Behind(q[i - 1])
  <2> SUFFICES ASSUME NEW i \in 1 .. m, i # 1 PROVE q[i] \in Behind(q[i - 1])
    OBVIOUS
  <2>1. i - 1 \in 1 .. m
    BY <1>1
  <2>2. next[<<q[i - 1], q[i]>>] = 1
    BY <1>3, <2>1 DEF Links
  <2>3. QED BY <1>3, <2>1, <2>2 DEF Behind, OutOf, Place
<1>5. 1 \in 1 .. m => q[1] \in Heads
  <2> SUFFICES ASSUME 1 \in 1 .. m, NEW p \in Into(next, q[1]) PROVE FALSE
    BY <1>3 DEF Heads
  <2>1. p = <<p[1], q[1]>> /\ p[1] \in Section /\ next[p] > 0
    BY DEF Into, Place
  <2>2. p[1] \in section /\ 1 = At(q, p[1]) + 1
    BY <1>3, <2>1 DEF Links
  <2>3. QED BY <1>1, <1>2, <2>2
<1>6. q \in [1 .. m -> section] /\ IsInjective(q)
  BY DEF Lists, IsInjective
<1>7. ASSUME NEW i \in DOMAIN q, i # 1
      PROVE \E k \in 1 .. i - 1 :
              /\ q[i] \in Behind(q[k])
              /\ \A j \in k + 1 .. i - 1 : Behind(q[j]) \subseteq {q[l] : l \in 1 .. i - 1}
  <2>0. i \in 1 .. m
    BY <1>6, <1>7
  <2>1. i - 1 \in 1 .. i - 1 /\ q[i] \in Behind(q[i - 1])
    BY <1>1, <1>4, <1>7, <2>0
  <2>2. i - 1 + 1 .. i - 1 = {}
    BY <1>1, <2>0
  <2>3. QED BY <2>1, <2>2
<1>8. QED BY <1>5, <1>6, <1>7 DEF Listings

\* ... and the only one.
LEMMA ListUnique ==
  ASSUME TypeOK, NEW q, Lists(q, section), Links(q, section, next),
         NEW r \in Listings
  PROVE  r = q
<1> DEFINE m == Cardinality(section)
           D == {i \in 1 .. m : r[i] # q[i]}
<1>1. m \in Nat
  BY Sized
<1>2. \A s \in section : s \in Section /\ At(q, s) \in 1 .. m /\ q[At(q, s)] = s
  BY <1>1, AtList DEF TypeOK
<1>3. \A i \in 1 .. m : q[i] \in section /\ At(q, q[i]) = i
  BY <1>1, AtList
<1>4. r \in [1 .. m -> section] /\ \A i, j \in 1 .. m : r[i] = r[j] => i = j
  BY DEF Listings, IsInjective
<1>5. q \in [1 .. m -> section]
  BY DEF Lists
<1>6. \A a, b \in section : b \in Behind(a) => At(q, b) = At(q, a) + 1
  <2> SUFFICES ASSUME NEW a \in section, NEW b \in section, b \in Behind(a)
               PROVE  At(q, b) = At(q, a) + 1
    OBVIOUS
  <2>1. next[<<a, b>>] > 0
    BY DEF Behind, OutOf, Place
  <2>2. QED BY <1>2, <2>1 DEF Links
<1>7. D = {}
  <2> SUFFICES ASSUME D # {} PROVE FALSE
    OBVIOUS
  <2>0. D \in SUBSET Nat
    BY <1>1
  <2>1. PICK i \in D : \A j \in D : i <= j
    <3> HIDE DEF D
    <3>1. QED BY <2>0, Least
  <2>2. i \in 1 .. m /\ r[i] # q[i] /\ \A j \in 1 .. i - 1 : r[j] = q[j]
    BY <1>1, <2>1
  <2>3. i # 1
    <3> SUFFICES ASSUME i = 1 PROVE FALSE
      OBVIOUS
    <3>1. r[1] \in Heads /\ r[1] \in section
      BY <1>4, <2>2 DEF Listings
    <3> DEFINE k == At(q, r[1])
    <3>2. k \in 1 .. m /\ q[k] = r[1] /\ k # 1
      BY <1>2, <2>2, <3>1
    <3>3. k - 1 \in 1 .. m
      BY <1>1, <3>2
    <3>4. next[<<q[k - 1], q[k]>>] = 1
      BY <1>2, <1>3, <3>2, <3>3 DEF Links
    <3>5. <<q[k - 1], q[k]>> \in Into(next, r[1])
      BY <1>2, <1>3, <3>2, <3>3, <3>4 DEF Into, Place
    <3>6. QED BY <3>1, <3>5 DEF Heads
  <2>4. PICK k \in 1 .. i - 1 :
          /\ r[i] \in Behind(r[k])
          /\ \A j \in k + 1 .. i - 1 : Behind(r[j]) \subseteq {r[l] : l \in 1 .. i - 1}
    BY <1>4, <2>2, <2>3 DEF Listings
  <2>5. k \in 1 .. m /\ r[k] = q[k] /\ r[i] \in section
    BY <1>1, <1>4, <2>2, <2>4
  <2>6. At(q, r[i]) = k + 1
    BY <1>3, <1>6, <2>4, <2>5
  <2>7. r[i] = q[k + 1] /\ k + 1 \in 1 .. m
    BY <1>2, <2>5, <2>6
  <2>8. CASE k + 1 = i
    BY <2>2, <2>7, <2>8
  <2>9. CASE k + 1 # i
    <3>1. k + 1 \in 1 .. i - 1
      BY <1>1, <2>2, <2>4, <2>9
    <3>2. r[k + 1] = r[i]
      BY <2>2, <2>7, <3>1
    <3>3. QED BY <1>4, <2>2, <2>7, <2>9, <3>2
  <2>10. QED BY <2>8, <2>9
<1>8. \A i \in 1 .. m : r[i] = q[i]
  BY <1>7
<1>9. r = [i \in 1 .. m |-> r[i]] /\ q = [i \in 1 .. m |-> q[i]]
  BY <1>4, <1>5
<1>10. QED
  <2> HIDE DEF m
  <2>1. QED BY <1>8, <1>9

LEMMA ListIs ==
  ASSUME TypeOK, NEW q, Lists(q, section), Links(q, section, next)
  PROVE  TheList = q /\ InOrder
<1>1. Listings = {q}
  BY ListFound, ListUnique
<1>2. TheList = q
  BY <1>1 DEF TheList
<1> DEFINE m == Cardinality(section)
           links == {<<q[i], q[i + 1]>> : i \in 1 .. m - 1}
<1>3. m \in Nat
  BY Sized
<1>4. \A s \in section : s \in Section /\ At(q, s) \in 1 .. m /\ q[At(q, s)] = s
  BY <1>3, AtList DEF TypeOK
<1>5. \A i \in 1 .. m : q[i] \in section /\ At(q, q[i]) = i
  BY <1>3, AtList
<1>6. ASSUME NEW p \in Place PROVE next[p] = IF p \in links THEN 1 ELSE 0
  <2>1. p = <<p[1], p[2]>> /\ p[1] \in Section /\ p[2] \in Section
    BY DEF Place
  <2>2. p \in links <=> (p[1] \in section /\ p[2] \in section /\ At(q, p[2]) = At(q, p[1]) + 1)
    <3>1. ASSUME p \in links
          PROVE  p[1] \in section /\ p[2] \in section /\ At(q, p[2]) = At(q, p[1]) + 1
      <4>1. PICK i \in 1 .. m - 1 : p = <<q[i], q[i + 1]>>
        BY <3>1
      <4>2. i \in 1 .. m /\ i + 1 \in 1 .. m
        BY <1>3
      <4>3. QED BY <1>5, <4>1, <4>2
    <3>2. ASSUME p[1] \in section, p[2] \in section, At(q, p[2]) = At(q, p[1]) + 1
          PROVE  p \in links
      <4>1. At(q, p[1]) \in 1 .. m - 1
        BY <1>3, <1>4, <3>2
      <4>2. p = <<q[At(q, p[1])], q[At(q, p[1]) + 1]>>
        BY <1>4, <2>1, <3>2
      <4>3. QED BY <4>1, <4>2
    <3>3. QED BY <3>1, <3>2
  <2>3. QED BY <2>1, <2>2 DEF Links
<1>7. QED BY <1>1, <1>2, <1>6 DEF InOrder

-----------------------------------------------------------------------------
(* What becomes of the places when a section leaves the list or joins it.  *)

LEMMA ListSeq ==
  ASSUME NEW S, Cardinality(S) \in Nat, NEW q, Lists(q, S)
  PROVE  q \in Seq(S) /\ Len(q) = Cardinality(S)
<1> DEFINE m == Cardinality(S)
<1>1. m \in Nat /\ q \in [1 .. m -> S]
  BY DEF Lists
<1> HIDE DEF m
<1>2. q \in Seq(S)
  BY <1>1, SeqDef
<1>3. Len(q) = m
  BY <1>1, <1>2, LenProperties
<1>4. QED BY <1>2, <1>3 DEF m

LEMMA Removed ==
  ASSUME NEW S, Cardinality(S) \in Nat, NEW q, Lists(q, S), NEW s \in S
  PROVE  LET e == AsList!TakenOut(q, s)
         IN  /\ Lists(e, S \ {s}) /\ Cardinality(S \ {s}) = Cardinality(S) - 1
             /\ \A a \in S \ {s} :
                  At(e, a) = IF At(q, a) < At(q, s) THEN At(q, a) ELSE At(q, a) - 1
<1> DEFINE m == Cardinality(S)
           k == At(q, s)
           e == AsList!TakenOut(q, s)
           l == SubSeq(q, 1, k - 1)
           r == SubSeq(q, k + 1, m)
<1>1. /\ m \in Nat /\ q \in Seq(S) /\ Len(q) = m
      /\ q \in [1 .. m -> S] /\ \A i, j \in 1 .. m : q[i] = q[j] => i = j
  BY ListSeq DEF Lists
<1>2. /\ \A a \in S : At(q, a) \in 1 .. m /\ q[At(q, a)] = a
      /\ \A i \in 1 .. m : q[i] \in S /\ At(q, q[i]) = i
  BY AtList
<1>3. k \in 1 .. m /\ q[k] = s
  BY <1>2
<1>4. e = l \o r
  BY <1>1 DEF AsList!TakenOut, AsList!At, AsList!RemoveAt, At
<1> HIDE DEF m, k
<1>5. /\ l \in Seq(S) /\ Len(l) = k - 1 /\ \A i \in 1 .. k - 1 : l[i] = q[i]
      /\ r \in Seq(S) /\ Len(r) = m - k /\ \A i \in 1 .. m - k : r[i] = q[k + i]
  <2>1. \A i \in 1 .. k - 1 : q[i] \in S
    BY <1>1, <1>3
  <2>2. \A i \in k + 1 .. m : q[i] \in S
    BY <1>1, <1>3
  <2>3. l \in Seq(S) /\ Len(l) = k - 1 /\ \A i \in 1 .. k - 1 - 1 + 1 : l[i] = q[1 + i - 1]
    BY <1>1, <1>3, <2>1, SubSeqProperties
  <2>4. r \in Seq(S) /\ Len(r) = m - k /\ \A i \in 1 .. m - (k + 1) + 1 : r[i] = q[k + 1 + i - 1]
    BY <1>1, <1>3, <2>2, SubSeqProperties
  <2> HIDE DEF l, r
  <2>5. QED BY <1>1, <1>3, <2>3, <2>4
<1> HIDE DEF e, l, r
<1>6. /\ e \in Seq(S) /\ Len(e) = m - 1
      /\ \A i \in 1 .. m - 1 : e[i] = IF i < k THEN q[i] ELSE q[i + 1]
  <2>1. /\ e \in Seq(S) /\ Len(e) = Len(l) + Len(r)
        /\ \A i \in 1 .. Len(l) + Len(r) : e[i] = IF i <= Len(l) THEN l[i] ELSE r[i - Len(l)]
    BY <1>4, <1>5, ConcatProperties
  <2>2. QED BY <1>1, <1>3, <1>5, <2>1
<1>7. \A i \in 1 .. m - 1 : e[i] \in S \ {s}
  BY <1>1, <1>3, <1>6
<1>8. e \in [1 .. m - 1 -> S \ {s}]
  <2>1. e \in [1 .. m - 1 -> S]
    BY <1>6, LenProperties
  <2>2. QED BY <1>7, <2>1
<1>9. \A i, j \in 1 .. m - 1 : e[i] = e[j] => i = j
  BY <1>1, <1>3, <1>6
<1>10. \A a \in S \ {s} : LET i == IF At(q, a) < k THEN At(q, a) ELSE At(q, a) - 1
                          IN  i \in 1 .. m - 1 /\ e[i] = a
  <2> SUFFICES ASSUME NEW a \in S \ {s}
               PROVE  LET i == IF At(q, a) < k THEN At(q, a) ELSE At(q, a) - 1
                      IN  i \in 1 .. m - 1 /\ e[i] = a
    OBVIOUS
  <2>1. At(q, a) \in 1 .. m /\ q[At(q, a)] = a /\ At(q, a) # k
    BY <1>2, <1>3
  <2>2. QED BY <1>1, <1>3, <1>6, <2>1
<1>11. m - 1 \in Nat
  BY <1>1, <1>3
<1>12. Cardinality(S \ {s}) = m - 1 /\ Lists(e, S \ {s})
  <2>1. \A a \in S \ {s} : \E i \in 1 .. m - 1 : e[i] = a
    BY <1>10
  <2>2. QED BY <1>8, <1>9, <1>11, <2>1, Counted
<1>13. \A i \in 1 .. m - 1 : At(e, e[i]) = i
  BY <1>8, <1>9, <1>11, AtPlace
<1>14. \A a \in S \ {s} : At(e, a) = IF At(q, a) < k THEN At(q, a) ELSE At(q, a) - 1
  BY <1>10, <1>13
<1>15. QED BY <1>12, <1>14 DEF e, m, k

PutLast(q, s)  == Append(q, s)
PutFirst(q, s) == <<s>> \o q

LEMMA Appended ==
  ASSUME NEW S, Cardinality(S) \in Nat, NEW q, Lists(q, S), NEW s, s \notin S
  PROVE  LET e == PutLast(q, s)
         IN  /\ Lists(e, S \cup {s}) /\ Cardinality(S \cup {s}) = Cardinality(S) + 1
             /\ At(e, s) = Cardinality(S) + 1
             /\ \A a \in S : At(e, a) = At(q, a)
<1> DEFINE m == Cardinality(S)
           e == PutLast(q, s)
           T == S \cup {s}
<1>1. /\ m \in Nat /\ q \in Seq(T) /\ Len(q) = m
      /\ q \in [1 .. m -> S] /\ \A i, j \in 1 .. m : q[i] = q[j] => i = j
  BY ListSeq, SeqMonotonic DEF Lists
<1>2. \A a \in S : At(q, a) \in 1 .. m /\ q[At(q, a)] = a
  BY AtList
<1> HIDE DEF m, T
<1>3. s \in T /\ S \subseteq T /\ \A a \in T : a \in S \/ a = s
  BY DEF T
<1>4. /\ e \in Seq(T) /\ Len(e) = m + 1
      /\ \A i \in 1 .. m : e[i] = q[i]
      /\ e[m + 1] = s
  BY <1>1, <1>3, AppendProperties DEF PutLast
<1> HIDE DEF e
<1>5. e \in [1 .. m + 1 -> T] /\ m + 1 \in Nat
  BY <1>1, <1>4, LenProperties
<1>6. \A i, j \in 1 .. m + 1 : e[i] = e[j] => i = j
  BY <1>1, <1>4
<1>7. \A a \in S : At(q, a) \in 1 .. m + 1 /\ e[At(q, a)] = a
  BY <1>1, <1>2, <1>4
<1>8. m + 1 \in 1 .. m + 1
  BY <1>1
<1>9. Cardinality(T) = m + 1 /\ Lists(e, T)
  <2>1. \A a \in T : \E i \in 1 .. m + 1 : e[i] = a
    BY <1>3, <1>4, <1>7, <1>8
  <2>2. QED BY <1>5, <1>6, <2>1, Counted
<1>10. \A i \in 1 .. m + 1 : At(e, e[i]) = i
  BY <1>5, <1>6, AtPlace
<1>11. At(e, s) = m + 1 /\ \A a \in S : At(e, a) = At(q, a)
  BY <1>4, <1>7, <1>8, <1>10
<1>12. QED BY <1>9, <1>11 DEF e, m, T

\* One section more, at the place k.
LEMMA Spliced ==
  ASSUME NEW S, Cardinality(S) \in Nat, NEW q, Lists(q, S), NEW s, s \notin S,
         NEW k \in 1 .. Cardinality(S) + 1,
         NEW e \in Seq(S \cup {s}), Len(e) = Cardinality(S) + 1, e[k] = s,
         \A i \in 1 .. Cardinality(S) : e[IF i < k THEN i ELSE i + 1] = q[i]
  PROVE  /\ Lists(e, S \cup {s}) /\ Cardinality(S \cup {s}) = Cardinality(S) + 1
         /\ At(e, s) = k
         /\ \A a \in S : At(e, a) = IF At(q, a) < k THEN At(q, a) ELSE At(q, a) + 1
<1> DEFINE m == Cardinality(S)
           T == S \cup {s}
<1>1. /\ m \in Nat /\ k \in 1 .. m + 1
      /\ q \in [1 .. m -> S] /\ \A i, j \in 1 .. m : q[i] = q[j] => i = j
  BY DEF Lists
<1>2. \A a \in S : At(q, a) \in 1 .. m /\ q[At(q, a)] = a
  BY AtList
<1>3. \A i \in 1 .. m : e[IF i < k THEN i ELSE i + 1] = q[i]
  OBVIOUS
<1>4. e \in Seq(T) /\ Len(e) = m + 1 /\ e[k] = s /\ \A a \in T : a = s \/ a \in S
  OBVIOUS
<1> HIDE DEF m, T
<1>5. e \in [1 .. m + 1 -> T] /\ m + 1 \in Nat
  BY <1>1, <1>4, LenProperties
<1>6. \A i \in 1 .. m + 1 : i # k =>
        LET j == IF i < k THEN i ELSE i - 1
        IN  j \in 1 .. m /\ e[i] = q[j] /\ e[i] \in S /\ e[i] # s
  <2> SUFFICES ASSUME NEW i \in 1 .. m + 1, i # k
               PROVE  LET j == IF i < k THEN i ELSE i - 1
                      IN  j \in 1 .. m /\ e[i] = q[j] /\ e[i] \in S /\ e[i] # s
    OBVIOUS
  <2> DEFINE j == IF i < k THEN i ELSE i - 1
  <2>1. j \in 1 .. m /\ i = IF j < k THEN j ELSE j + 1
    BY <1>1
  <2> HIDE DEF j
  <2>2. e[i] = q[j]
    BY <1>3, <2>1
  <2>3. QED BY <1>1, <2>1, <2>2 DEF j
<1>7. \A i, j \in 1 .. m + 1 : e[i] = e[j] => i = j
  BY <1>1, <1>4, <1>6
<1>8. \A a \in S : LET i == IF At(q, a) < k THEN At(q, a) ELSE At(q, a) + 1
                   IN  i \in 1 .. m + 1 /\ e[i] = a
  BY <1>1, <1>2, <1>3
<1>9. Cardinality(T) = m + 1 /\ Lists(e, T)
  <2>1. \A a \in T : \E i \in 1 .. m + 1 : e[i] = a
    BY <1>1, <1>4, <1>8
  <2>2. QED BY <1>5, <1>7, <2>1, Counted
<1>10. \A i \in 1 .. m + 1 : At(e, e[i]) = i
  BY <1>5, <1>7, AtPlace
<1>11. At(e, s) = k /\ \A a \in S : At(e, a) = IF At(q, a) < k THEN At(q, a) ELSE At(q, a) + 1
  BY <1>1, <1>4, <1>8, <1>10
<1>12. QED BY <1>9, <1>11 DEF m, T

LEMMA Fronted ==
  ASSUME NEW S, Cardinality(S) \in Nat, NEW q, Lists(q, S), NEW s, s \notin S
  PROVE  LET e == PutFirst(q, s)
         IN  /\ Lists(e, S \cup {s})
             /\ At(e, s) = 1
             /\ \A a \in S : At(e, a) = At(q, a) + 1
<1> DEFINE m == Cardinality(S)
           T == S \cup {s}
           e == PutFirst(q, s)
<1>1. m \in Nat /\ q \in Seq(T) /\ Len(q) = m
  BY ListSeq, SeqMonotonic
<1>2. <<s>> \in Seq(T) /\ Len(<<s>>) = 1 /\ <<s>>[1] = s
  OBVIOUS
<1>3. /\ e \in Seq(T) /\ Len(e) = m + 1
      /\ \A i \in 1 .. 1 + m : e[i] = IF i <= 1 THEN <<s>>[i] ELSE q[i - 1]
  <2> HIDE DEF m, T
  <2>1. QED BY <1>1, <1>2, ConcatProperties DEF PutFirst
<1> HIDE DEF e
<1>4. /\ e[1] = s /\ 1 \in 1 .. m + 1
      /\ \A i \in 1 .. m : e[IF i < 1 THEN i ELSE i + 1] = q[i]
  BY <1>1, <1>2, <1>3
<1>5. /\ Lists(e, T) /\ At(e, s) = 1
      /\ \A a \in S : At(e, a) = IF At(q, a) < 1 THEN At(q, a) ELSE At(q, a) + 1
  BY <1>1, <1>3, <1>4, Spliced
<1>6. \A a \in S : At(q, a) \in 1 .. m
  BY AtList
<1>7. QED BY <1>1, <1>5, <1>6 DEF e

LEMMA Inserted ==
  ASSUME NEW S, Cardinality(S) \in Nat, NEW q, Lists(q, S), NEW s, s \notin S,
         NEW k \in 1 .. Cardinality(S) + 1
  PROVE  LET e == AsList!InsertAt(q, k, s)
         IN  /\ Lists(e, S \cup {s})
             /\ At(e, s) = k
             /\ \A a \in S : At(e, a) = IF At(q, a) < k THEN At(q, a) ELSE At(q, a) + 1
<1> DEFINE m == Cardinality(S)
           T == S \cup {s}
           e == AsList!InsertAt(q, k, s)
           l == SubSeq(q, 1, k - 1)
           r == SubSeq(q, k, m)
<1>1. /\ m \in Nat /\ q \in Seq(T) /\ Len(q) = m /\ k \in 1 .. m + 1
      /\ s \in T /\ \A i \in 1 .. m : q[i] \in T
  BY ListSeq, SeqMonotonic DEF Lists
<1>2. e = l \o <<s>> \o r
  BY <1>1 DEF AsList!InsertAt
<1> HIDE DEF m, T
<1>3. l \in Seq(T) /\ Len(l) = k - 1 /\ \A i \in 1 .. k - 1 : l[i] = q[i]
  <2>1. \A i \in 1 .. k - 1 : q[i] \in T
    BY <1>1
  <2>2. l \in Seq(T) /\ Len(l) = (IF 1 <= k - 1 THEN k - 1 - 1 + 1 ELSE 0)
        /\ \A i \in 1 .. k - 1 - 1 + 1 : l[i] = q[1 + i - 1]
    BY <1>1, <2>1, SubSeqProperties
  <2> HIDE DEF l
  <2>3. QED BY <1>1, <2>2
<1>4. r \in Seq(T) /\ Len(r) = m - k + 1 /\ \A i \in 1 .. m - k + 1 : r[i] = q[k + i - 1]
  <2>1. \A i \in k .. m : q[i] \in T
    BY <1>1
  <2>2. r \in Seq(T) /\ Len(r) = (IF k <= m THEN m - k + 1 ELSE 0)
        /\ \A i \in 1 .. m - k + 1 : r[i] = q[k + i - 1]
    BY <1>1, <2>1, SubSeqProperties
  <2> HIDE DEF r
  <2>3. QED BY <1>1, <2>2
<1>5. <<s>> \in Seq(T) /\ Len(<<s>>) = 1 /\ <<s>>[1] = s
  BY <1>1
<1> DEFINE f == l \o <<s>>
<1> HIDE DEF l, r
<1>6. /\ f \in Seq(T) /\ Len(f) = k
      /\ \A i \in 1 .. k - 1 + 1 : f[i] = IF i <= k - 1 THEN l[i] ELSE <<s>>[i - (k - 1)]
  BY <1>1, <1>3, <1>5, ConcatProperties
<1>7. e = f \o r
  BY <1>2
<1> HIDE DEF e, f
<1>8. /\ e \in Seq(T) /\ Len(e) = m + 1
      /\ \A i \in 1 .. k + (m - k + 1) : e[i] = IF i <= k THEN f[i] ELSE r[i - k]
  BY <1>1, <1>4, <1>6, <1>7, ConcatProperties
<1>9. e[k] = s
  <2>1. e[k] = f[k]
    BY <1>1, <1>8
  <2>2. f[k] = <<s>>[k - (k - 1)]
    BY <1>1, <1>6
  <2>3. k - (k - 1) = 1
    BY <1>1
  <2>4. QED BY <1>5, <2>1, <2>2, <2>3
<1>10. \A i \in 1 .. m : e[IF i < k THEN i ELSE i + 1] = q[i]
  <2> SUFFICES ASSUME NEW i \in 1 .. m PROVE e[IF i < k THEN i ELSE i + 1] = q[i]
    OBVIOUS
  <2>1. CASE i < k
    <3>1. e[i] = f[i] /\ f[i] = l[i] /\ l[i] = q[i]
      BY <1>1, <1>3, <1>6, <1>8, <2>1
    <3>2. QED BY <2>1, <3>1
  <2>2. CASE ~(i < k)
    <3>1. e[i + 1] = r[i + 1 - k] /\ r[i + 1 - k] = q[k + (i + 1 - k) - 1]
      BY <1>1, <1>4, <1>8, <2>2
    <3>2. k + (i + 1 - k) - 1 = i
      BY <1>1
    <3>3. QED BY <2>2, <3>1, <3>2
  <2>3. QED BY <2>1, <2>2
<1>11. /\ Lists(e, T) /\ At(e, s) = k
       /\ \A a \in S : At(e, a) = IF At(q, a) < k THEN At(q, a) ELSE At(q, a) + 1
  BY <1>8, <1>9, <1>10, Spliced DEF m, T
<1>12. QED BY <1>11 DEF e, T

-----------------------------------------------------------------------------
(* The inductive invariant: what an open transaction has still to do, and  *)
(* what it is going to write, fits the list as it is by now.               *)

LinksAt(s) == Into(next, s) \cup OutOf(next, s)
LastOnes   == {s \in section : OutOf(next, s) = {}}

\* A deletion or a merge of s, before it has looked at the links and after
\* that.  A deletion has seen all links there are at s; whether a merge has is
\* only known when it commits.
Taking(r, s) ==
  /\ s \in section /\ r.old = {s} /\ r.new = {}
  /\ \/ r.unlink = s /\ r.gone = {} /\ r.made = {}
     \/ /\ r.unlink = None
        /\ \A p \in r.gone : s \in {p[1], p[2]}
        /\ r.made = Join({p \in r.gone : p[2] = s}, {p \in r.gone : p[1] = s})
        /\ r.heir = None => LinksAt(s) \subseteq r.gone

\* An upload of s.
Adding(r, s) ==
  /\ r.unlink = None /\ r.old = {} /\ r.heir = None /\ r.gone = {}
  /\ r.new = {s} /\ s \in Section \ section
  /\ r.made = LastOnes \X {s}

\* A move of s that deletes and makes these links besides those at s.
Moving(r, s, gone, made) ==
  /\ r.old = {} /\ r.new = {} /\ r.heir = None
  /\ \/ r.unlink = s /\ r.gone = gone /\ r.made = made
     \/ /\ r.unlink = None
        /\ r.gone = gone \cup LinksAt(s)
        /\ r.made = made \cup Join(Into(next, s), OutOf(next, s))

MovingFirst(r, s, h) ==
  s \in section /\ h \in Heads \ {s} /\ Moving(r, s, {}, {<<s, h>>})

MovingBehind(r, s, p) ==
  /\ {s, p} \subseteq section /\ s # p /\ next[<<p, s>>] = 0
  /\ Moving(r, s, OutOf(next, p), {<<p, s>>} \cup ({s} \X Behind(p)))

Changing(r) ==
  \E s \in Section : \/ Adding(r, s)
                     \/ \E p \in Section : MovingFirst(r, s, p) \/ MovingBehind(r, s, p)

Fits(r) == (\E s \in Section : Taking(r, s)) \/ Changing(r)

\* Beside a transaction that adds or moves a section there are only merges.
Apart ==
  \A c, d \in Client : c # d /\ req[c] # Idle /\ req[d] # Idle /\ req[c].old = {}
                         => req[d].heir # None

InLine(q) == Lists(q, section) /\ Links(q, section, next)

OInv ==
  /\ TypeOK
  /\ \E q \in Seq(Section) : InLine(q)
  /\ \A r \in Range(req) \ {Idle} : Fits(r)
  /\ Apart

LEMMA OpenFits ==
  ASSUME OInv, NEW c \in Client, req[c] # Idle
  PROVE  Fits(req[c])
<1>1. req[c] \in Range(req)
  BY DEF OInv, TypeOK, Range
<1>2. QED BY <1>1 DEF OInv

-----------------------------------------------------------------------------
(* How a transaction begins, and how it takes its section out of the list. *)

LEMMA Pairs == \A p \in Place : p = <<p[1], p[2]>> /\ p[1] \in Section /\ p[2] \in Section
BY DEF Place

LEMMA LineFacts ==
  ASSUME TypeOK, NEW q, InLine(q)
  PROVE  /\ Cardinality(section) \in Nat
         /\ \A s \in section : /\ s \in Section /\ At(q, s) \in 1 .. Cardinality(section)
                               /\ q[At(q, s)] = s
         /\ \A i \in 1 .. Cardinality(section) : q[i] \in section /\ At(q, q[i]) = i
         /\ \A a, b \in Section :
              /\ next[<<a, b>>] = 1 \/ next[<<a, b>>] = 0
              /\ next[<<a, b>>] > 0 <=> a \in section /\ b \in section /\ At(q, b) = At(q, a) + 1
<1>1. Cardinality(section) \in Nat
  BY Sized
<1>2. /\ \A s \in section : /\ s \in Section /\ At(q, s) \in 1 .. Cardinality(section)
                            /\ q[At(q, s)] = s
      /\ \A i \in 1 .. Cardinality(section) : q[i] \in section /\ At(q, q[i]) = i
  BY <1>1, AtList DEF InLine, TypeOK
<1>3. QED BY <1>1, <1>2 DEF InLine, Links

\* No section follows itself.
LEMMA NoLoop ==
  ASSUME TypeOK, NEW q, InLine(q)
  PROVE  \A s \in Section : ~ next[<<s, s>>] > 0
<1> SUFFICES ASSUME NEW s \in Section, next[<<s, s>>] > 0 PROVE FALSE
  OBVIOUS
<1>1. s \in section /\ At(q, s) = At(q, s) + 1
  BY LineFacts
<1>2. At(q, s) \in 1 .. Cardinality(section) /\ Cardinality(section) \in Nat
  BY <1>1, LineFacts
<1>3. QED BY <1>1, <1>2

LEMMA LastOne ==
  ASSUME TypeOK, NEW q, InLine(q)
  PROVE  /\ LastOnes = {q[i] : i \in {Cardinality(section)} \ {0}}
         /\ LastOnes = {a \in section : At(q, a) = Cardinality(section)}
<1> DEFINE m == Cardinality(section)
<1>1. /\ m \in Nat
      /\ \A a \in section : a \in Section /\ At(q, a) \in 1 .. m /\ q[At(q, a)] = a
      /\ \A i \in 1 .. m : q[i] \in section /\ At(q, q[i]) = i
      /\ \A a, b \in Section :
           next[<<a, b>>] > 0 <=> a \in section /\ b \in section /\ At(q, b) = At(q, a) + 1
  BY LineFacts
<1> HIDE DEF m
<1>2. ASSUME NEW a \in section, OutOf(next, a) = {} PROVE At(q, a) = m
  <2> SUFFICES ASSUME At(q, a) # m PROVE FALSE
    OBVIOUS
  <2>1. At(q, a) + 1 \in 1 .. m
    BY <1>1
  <2> DEFINE b == q[At(q, a) + 1]
  <2>2. b \in section /\ At(q, b) = At(q, a) + 1
    BY <1>1, <2>1
  <2>3. next[<<a, b>>] > 0 /\ a \in Section /\ b \in Section
    BY <1>1, <2>2
  <2>4. <<a, b>> \in OutOf(next, a)
    BY <2>3 DEF OutOf, Place
  <2>5. QED BY <1>2, <2>4
<1>3. ASSUME NEW a \in section, At(q, a) = m PROVE OutOf(next, a) = {}
  <2> SUFFICES ASSUME NEW p \in OutOf(next, a) PROVE FALSE
    OBVIOUS
  <2>1. p = <<a, p[2]>> /\ p[2] \in Section /\ next[<<a, p[2]>>] > 0
    BY Pairs DEF OutOf
  <2>2. p[2] \in section /\ At(q, p[2]) = m + 1
    BY <1>1, <1>3, <2>1
  <2>3. QED BY <1>1, <2>2
<1>4. LastOnes = {a \in section : At(q, a) = m}
  BY <1>2, <1>3 DEF LastOnes
<1>5. {a \in section : At(q, a) = m} = {q[i] : i \in {m} \ {0}}
  <2>1. ASSUME NEW a \in section, At(q, a) = m PROVE m # 0 /\ a = q[m]
    BY <1>1, <2>1
  <2>2. m # 0 => m \in 1 .. m
    BY <1>1
  <2>3. m # 0 => q[m] \in section /\ At(q, q[m]) = m
    BY <1>1, <2>2
  <2>4. QED BY <2>1, <2>3
<1>6. QED BY <1>4, <1>5 DEF m

LEMMA AppendMeant ==
  ASSUME TypeOK, NEW q, InLine(q), NEW r \in Listings, NEW s
  PROVE  {<<r[i], s>> : i \in {Cardinality(section)} \ {0}} = LastOnes \X {s}
<1>1. r = q
  BY ListUnique DEF InLine
<1>2. LastOnes = {q[i] : i \in {Cardinality(section)} \ {0}}
  BY LastOne
<1>3. QED BY <1>1, <1>2

\* What a request is going to do when it begins fits the list.
LEMMA AddFits ==
  ASSUME OInv, NEW c \in Client, AddSection(c)
  PROVE  \E r : Begin(c, r) /\ Fits(r) /\ r.old = {}
<1>0. TypeOK /\ \E q : InLine(q)
  BY DEF OInv
<1>1. PICK q : InLine(q)
  BY <1>0
<1>2. PICK l \in Listings, s \in Section \ section :
        Begin(c, [Nothing EXCEPT !.new = {s},
                                 !.made = {<<l[i], s>> : i \in {Cardinality(section)} \ {0}}])
  BY DEF AddSection
<1> DEFINE made == {<<l[i], s>> : i \in {Cardinality(section)} \ {0}}
           r    == [Nothing EXCEPT !.new = {s}, !.made = made]
<1>3. made = LastOnes \X {s}
  BY <1>0, <1>1, AppendMeant
<1> HIDE DEF made
<1>4. Adding(r, s)
  BY <1>3 DEF Adding, Nothing
<1>5. r.old = {}
  BY DEF Nothing
<1>6. QED BY <1>2, <1>4, <1>5 DEF Fits, Changing, made

LEMMA MovesFits ==
  ASSUME OInv, NEW c \in Client, Moves(c)
  PROVE  \E r : Begin(c, r) /\ Fits(r) /\ r.old = {}
<1>0. TypeOK
  BY DEF OInv
<1>1. CASE \E s \in Section : OrderFirst(c, s)
  <2>1. PICK s \in section, h \in Heads :
          s # h /\ Begin(c, [Nothing EXCEPT !.unlink = s, !.made = {<<s, h>>}])
    BY <1>1 DEF OrderFirst
  <2> DEFINE r == [Nothing EXCEPT !.unlink = s, !.made = {<<s, h>>}]
  <2>2. MovingFirst(r, s, h) /\ r.old = {}
    BY <2>1 DEF MovingFirst, Moving, Nothing
  <2>3. s \in Section /\ h \in Section
    BY <1>0 DEF TypeOK, Heads
  <2> HIDE DEF r
  <2>4. Fits(r)
    BY <2>2, <2>3 DEF Fits, Changing
  <2>5. QED BY <2>1, <2>2, <2>4 DEF r
<1>2. CASE \E s, p \in Section : OrderAfter(c, s, p)
  <2>1. PICK s \in Section, p \in Section : OrderAfter(c, s, p)
    BY <1>2
  <2> DEFINE r == [Nothing EXCEPT !.unlink = s, !.gone = OutOf(next, p),
                                  !.made = {<<p, s>>} \cup ({s} \X Behind(p))]
  <2>2. {s, p} \subseteq section /\ s # p /\ Begin(c, r)
    BY <2>1 DEF OrderAfter
  <2>3. next[<<p, s>>] = 0
    <3>1. <<p, s>> \in Place /\ next[<<p, s>>] \in Nat
      BY <1>0 DEF TypeOK, Place
    <3>2. <<p, s>> \notin Into(next, s)
      BY <2>1 DEF Moves, StaysBehind
    <3>3. QED BY <3>1, <3>2 DEF Into
  <2>4. MovingBehind(r, s, p) /\ r.old = {}
    BY <2>2, <2>3 DEF MovingBehind, Moving, Nothing
  <2> HIDE DEF r
  <2>5. Fits(r)
    BY <2>4 DEF Fits, Changing
  <2>6. QED BY <2>2, <2>4, <2>5
<1>3. QED BY <1>1, <1>2 DEF Moves, Move

LEMMA DropFits ==
  ASSUME OInv, NEW c \in Client, NEW s \in Section
  PROVE  /\ DeleteSection(c, s) => \E r : Begin(c, r) /\ Fits(r) /\ r.old # {}
         /\ MergeSections(c, s) => \E r : Begin(c, r) /\ Fits(r) /\ r.old # {} /\ r.heir # None
<1>0. TypeOK
  BY DEF OInv
<1>1. ASSUME DeleteSection(c, s) PROVE \E r : Begin(c, r) /\ Fits(r) /\ r.old # {}
  <2> DEFINE r == [Nothing EXCEPT !.unlink = s, !.old = {s}]
  <2>0. s \in section
    BY <1>1 DEF DeleteSection
  <2>1. Taking(r, s) /\ r.old = {s}
    BY <2>0 DEF Taking, Nothing
  <2>2. Begin(c, r)
    BY <1>1 DEF DeleteSection
  <2> HIDE DEF r
  <2>3. QED BY <2>1, <2>2 DEF Fits
<1>2. ASSUME MergeSections(c, s)
      PROVE  \E r : Begin(c, r) /\ Fits(r) /\ r.old # {} /\ r.heir # None
  <2>1. PICK p \in Into(next, s) :
          Begin(c, [Nothing EXCEPT !.unlink = s, !.old = {s}, !.heir = p[1]])
    BY <1>2 DEF MergeSections
  <2>2. p[1] \in Section /\ p[1] # None /\ s \in section
    BY <1>0, SectionsAssumption DEF Into, Place, TypeOK
  <2> DEFINE r == [Nothing EXCEPT !.unlink = s, !.old = {s}, !.heir = p[1]]
  <2>3. Taking(r, s) /\ r.old = {s} /\ r.heir # None
    BY <2>2 DEF Taking, Nothing
  <2> HIDE DEF r
  <2>4. QED BY <2>1, <2>3 DEF Fits, r
<1>3. QED BY <1>1, <1>2

\* Taking out of the list a section that a transaction has not touched finds
\* the links that are committed at it.
LEMMA Untouched ==
  ASSUME TypeOK, NEW q, InLine(q), NEW s \in Section, NEW gone \in SUBSET Place,
         \A p \in LinksAt(s) : p \notin gone
  PROVE  /\ Into(Minus(next, gone), s) = Into(next, s)
         /\ OutOf(Minus(Minus(next, gone), Into(next, s)), s) = OutOf(next, s)
<1>1. \A p \in Place : next[p] \in Nat
  BY DEF TypeOK
<1>2. \A p \in Place : s \in {p[1], p[2]} =>
        (Minus(next, gone)[p] > 0 <=> next[p] > 0)
  <2> SUFFICES ASSUME NEW p \in Place, s \in {p[1], p[2]}
               PROVE  Minus(next, gone)[p] > 0 <=> next[p] > 0
    OBVIOUS
  <2>1. next[p] > 0 => p \notin gone
    BY DEF LinksAt, Into, OutOf
  <2>2. QED BY <1>1, <2>1 DEF Minus
<1>3. \A p \in Place : p[1] = s => p \notin Into(next, s)
  <2> SUFFICES ASSUME NEW p \in Place, p[1] = s, p \in Into(next, s) PROVE FALSE
    OBVIOUS
  <2>1. p = <<s, s>> /\ next[p] > 0
    BY Pairs DEF Into
  <2>2. QED BY <2>1, NoLoop
<1>4. \A p \in Place : p[1] = s =>
        Minus(Minus(next, gone), Into(next, s))[p] = Minus(next, gone)[p]
  BY <1>3 DEF Minus
<1>5. QED BY <1>2, <1>4 DEF Into, OutOf


LEMMA UnlinkFits ==
  ASSUME OInv, NEW c \in Client, RemoveFromSequence(c)
  PROVE  \E r : /\ req' = [req EXCEPT ![c] = r] /\ UNCHANGED <<section, next>>
                /\ Fits(r) /\ r.old = req[c].old /\ r.heir = req[c].heir
<1> DEFINE o    == req[c]
           s    == o.unlink
           seen == Minus(next, o.gone)
           into == Into(seen, s)
           out  == OutOf(Minus(seen, into), s)
           r    == [o EXCEPT !.unlink = None, !.gone = @ \cup into \cup out,
                             !.made = @ \cup Join(into, out)]
<1>1. /\ TypeOK /\ o # Idle /\ o \in Request /\ Fits(o) /\ s # None /\ s \in Section
      /\ o.gone \subseteq Place
  <2>1. TypeOK /\ o # Idle /\ o \in Request /\ s # None
    BY DEF OInv, TypeOK, RemoveFromSequence
  <2>2. Fits(o)
    BY <2>1, OpenFits
  <2>3. QED BY <2>1, <2>2 DEF Request
<1>2. PICK q : InLine(q)
  BY DEF OInv
<1>3. req' = [req EXCEPT ![c] = r] /\ UNCHANGED <<section, next>>
  BY DEF RemoveFromSequence
<1>4. ASSUME \A p \in LinksAt(s) : p \notin o.gone
      PROVE  into = Into(next, s) /\ out = OutOf(next, s)
  <2>1. into = Into(next, s)
    BY <1>1, <1>2, <1>4, Untouched
  <2>2. QED BY <1>1, <1>2, <1>4, <2>1, Untouched
<1>5. /\ r.unlink = None /\ r.gone = o.gone \cup into \cup out
      /\ r.made = o.made \cup Join(into, out) /\ r.new = o.new
      /\ r.old = o.old /\ r.heir = o.heir
  <2> HIDE DEF o, into, out
  <2>1. QED BY <1>1 DEF Request
<1> HIDE DEF o, into, out, r
<1>6. CASE \E t \in Section : Taking(o, t)
  <2>1. PICK t \in Section : Taking(o, t)
    BY <1>6
  <2>2. t = s /\ o.gone = {} /\ o.made = {} /\ o.old = {s} /\ o.new = {}
    BY <1>1, <2>1 DEF Taking
  <2>3. r.gone = LinksAt(s) /\ r.made = Join(Into(next, s), OutOf(next, s))
    BY <1>4, <1>5, <2>2 DEF LinksAt
  <2>4. \A p \in LinksAt(s) : s \in {p[1], p[2]} /\ p \in Place /\ next[p] > 0
    BY DEF LinksAt, Into, OutOf
  <2>5. /\ {p \in LinksAt(s) : p[2] = s} = Into(next, s)
        /\ {p \in LinksAt(s) : p[1] = s} = OutOf(next, s)
    BY DEF LinksAt, Into, OutOf
  <2>6. s \in section
    BY <2>1, <2>2 DEF Taking
  <2>7. Taking(r, s)
    BY <1>5, <2>2, <2>3, <2>4, <2>5, <2>6 DEF Taking
  <2>8. QED BY <1>1, <1>3, <1>5, <2>7 DEF Fits, o
<1>7. CASE Changing(o)
  <2>1. PICK t \in Section, h \in Section : MovingFirst(o, t, h) \/ MovingBehind(o, t, h)
    BY <1>1, <1>7 DEF Changing, Adding
  <2>2. CASE MovingFirst(o, t, h)
    <3>1. t = s /\ o.gone = {} /\ o.made = {<<t, h>>}
      BY <1>1, <2>2 DEF MovingFirst, Moving
    <3>2. MovingFirst(r, t, h)
      BY <1>4, <1>5, <2>2, <3>1 DEF MovingFirst, Moving, LinksAt
    <3>3. QED BY <1>1, <1>3, <1>5, <3>2 DEF Fits, Changing, o
  <2>3. CASE MovingBehind(o, t, h)
    <3>1. /\ t = s /\ o.gone = OutOf(next, h) /\ next[<<h, s>>] = 0 /\ s # h
          /\ o.made = {<<h, t>>} \cup ({t} \X Behind(h))
      BY <1>1, <2>3 DEF MovingBehind, Moving
    <3>2. \A p \in LinksAt(s) : p \notin o.gone
      <4> SUFFICES ASSUME NEW p \in LinksAt(s), p \in OutOf(next, h) PROVE FALSE
        BY <3>1
      <4>1. p = <<h, s>> /\ next[p] > 0
        BY <3>1, Pairs DEF LinksAt, Into, OutOf
      <4>2. QED BY <3>1, <4>1
    <3>3. MovingBehind(r, t, h)
      BY <1>4, <1>5, <2>3, <3>1, <3>2 DEF MovingBehind, Moving, LinksAt
    <3>4. QED BY <1>1, <1>3, <1>5, <3>3 DEF Fits, Changing, o
  <2>4. QED BY <2>1, <2>2, <2>3
<1>8. QED BY <1>1, <1>6, <1>7 DEF Fits

-----------------------------------------------------------------------------
(* What a commit does to the list.                                         *)

\* The links that a commit writes, where it sweeps none away.
LEMMA Written ==
  ASSUME TypeOK, NEW c \in Client, Commit(c), NEW q, InLine(q),
         \A p \in req[c].made : next[p] = 0,
         NEW a \in Section, NEW b \in Section, <<a, b>> \notin Swept(req[c])
  PROVE  next'[<<a, b>>] = IF <<a, b>> \in req[c].made THEN 1
                           ELSE IF <<a, b>> \in req[c].gone THEN 0
                           ELSE next[<<a, b>>]
<1> DEFINE r == req[c]
           p == <<a, b>>
<1>1. p \in Place /\ r # Idle
  BY DEF Place, Commit
<1>2. next'[p] = Plus(Minus(next, r.gone), r.made)[p]
  BY <1>1 DEF Commit
<1>3. next[p] = 1 \/ next[p] = 0
  BY LineFacts
<1>4. p \in r.gone => next[p] = 1
  BY <1>1, <1>3 DEF TypeOK
<1>5. p \in r.made => next[p] = 0
  OBVIOUS
<1> HIDE DEF r, p
<1>6. QED BY <1>1, <1>2, <1>3, <1>4, <1>5 DEF Plus, Minus, r, p

LEMMA Joined ==
  ASSUME TypeOK, NEW q, InLine(q), NEW s \in section, NEW a \in Section, NEW b \in Section
  PROVE  <<a, b>> \in Join(Into(next, s), OutOf(next, s)) <=>
           /\ a \in section /\ b \in section
           /\ At(q, s) = At(q, a) + 1 /\ At(q, b) = At(q, s) + 1
<1>1. s \in Section
  BY DEF TypeOK
<1>2. /\ next[<<a, s>>] > 0 <=> a \in section /\ s \in section /\ At(q, s) = At(q, a) + 1
      /\ next[<<s, b>>] > 0 <=> s \in section /\ b \in section /\ At(q, b) = At(q, s) + 1
  BY <1>1, LineFacts
<1>3. <<a, b>> \in Join(Into(next, s), OutOf(next, s)) <=>
        next[<<a, s>>] > 0 /\ next[<<s, b>>] > 0
  <2>1. ASSUME next[<<a, s>>] > 0, next[<<s, b>>] > 0
        PROVE  <<a, b>> \in Join(Into(next, s), OutOf(next, s))
    <3>1. <<a, s>> \in Into(next, s) /\ <<s, b>> \in OutOf(next, s)
      BY <1>1, <2>1 DEF Into, OutOf, Place
    <3>2. <<a, s>>[1] = a /\ <<s, b>>[2] = b
      OBVIOUS
    <3>3. QED BY <3>1, <3>2 DEF Join
  <2>2. ASSUME <<a, b>> \in Join(Into(next, s), OutOf(next, s))
        PROVE  next[<<a, s>>] > 0 /\ next[<<s, b>>] > 0
    <3>1. PICK i \in Into(next, s), o \in OutOf(next, s) : i[1] = a /\ o[2] = b
      BY <2>2 DEF Join
    <3>2. i = <<a, s>> /\ o = <<s, b>> /\ next[i] > 0 /\ next[o] > 0
      BY <3>1, Pairs DEF Into, OutOf
    <3>3. QED BY <3>2
  <2>3. QED BY <2>1, <2>2
<1>4. QED BY <1>2, <1>3

\* A deletion or a merge commits with exactly the links at its section.
LEMMA TakingSeen ==
  ASSUME TypeOK, NEW c \in Client, Commit(c), NEW q, InLine(q),
         NEW s \in Section, Taking(req[c], s)
  PROVE  /\ req[c].gone = LinksAt(s)
         /\ req[c].made = Join(Into(next, s), OutOf(next, s))
         /\ req[c].old = {s} /\ req[c].new = {} /\ section' = section \ {s}
         /\ \A a, b \in Section : a = s \/ b = s => next'[<<a, b>>] = 0
<1> DEFINE r == req[c]
<1>1. /\ r # Idle /\ r \in Request /\ r.unlink = None /\ s # None
      /\ r.old = {s} /\ r.new = {} /\ section' = section \ {s}
  BY SectionsAssumption DEF Commit, TypeOK, Taking
<1>2. /\ \A p \in r.gone : s \in {p[1], p[2]}
      /\ r.made = Join({p \in r.gone : p[2] = s}, {p \in r.gone : p[1] = s})
      /\ r.heir = None => LinksAt(s) \subseteq r.gone
  BY <1>1 DEF Taking
<1>3. next' \in [Place -> Nat] /\ \A p \in Place : next[p] \in Nat
  BY CommitType DEF TypeOK
<1>4. r.gone \subseteq Place /\ r.made \subseteq Place /\ \A p \in r.gone : next[p] > 0
  BY <1>1 DEF TypeOK, Request
<1>5. \A a, b \in Section : a = s \/ b = s => next'[<<a, b>>] = 0
  <2> SUFFICES ASSUME NEW a \in Section, NEW b \in Section, a = s \/ b = s
               PROVE  next'[<<a, b>>] = 0
    OBVIOUS
  <2>1. <<a, b>> \in Place
    BY DEF Place
  <2>2. Into(next', s) = {} /\ OutOf(next', s) = {}
    BY <1>1 DEF Commit
  <2>3. ~ next'[<<a, b>>] > 0
    BY <2>1, <2>2 DEF Into, OutOf
  <2>4. QED BY <1>3, <2>1, <2>3
<1>6. LinksAt(s) \subseteq r.gone
  <2>1. CASE r.heir = None
    BY <1>2, <2>1
  <2>2. CASE r.heir # None
    <3> SUFFICES ASSUME NEW p \in LinksAt(s), p \notin r.gone PROVE FALSE
      OBVIOUS
    <3>1. p \in Place /\ next[p] > 0 /\ next[p] \in Nat /\ (p[1] = s \/ p[2] = s)
      BY <1>3 DEF LinksAt, Into, OutOf
    <3>2. next'[p] = 0
      BY <1>5, <3>1, Pairs
    <3>3. p \notin Swept(r)
      BY <2>2 DEF Swept
    <3>4. next'[p] = Plus(Minus(next, r.gone), r.made)[p]
      BY <3>1, <3>3 DEF Commit
    <3> HIDE DEF r
    <3>5. next'[p] >= next[p]
      BY <3>1, <3>4 DEF Plus, Minus
    <3>6. QED BY <3>1, <3>2, <3>5
  <2>3. QED BY <2>1, <2>2
<1>7. r.gone = LinksAt(s)
  BY <1>2, <1>4, <1>6 DEF LinksAt, Into, OutOf
<1>8. {p \in r.gone : p[2] = s} = Into(next, s) /\ {p \in r.gone : p[1] = s} = OutOf(next, s)
  BY <1>7 DEF LinksAt, Into, OutOf
<1>9. QED BY <1>1, <1>2, <1>5, <1>7, <1>8

LEMMA TakingCommits ==
  ASSUME TypeOK, NEW c \in Client, Commit(c), NEW q, InLine(q),
         NEW s \in section, Taking(req[c], s)
  PROVE  InLine(AsList!TakenOut(q, s))'
<1> DEFINE r == req[c]
           e == AsList!TakenOut(q, s)
           T == section \ {s}
           k == At(q, s)
<1>1. /\ r.gone = LinksAt(s) /\ r.made = Join(Into(next, s), OutOf(next, s))
      /\ r.old = {s} /\ section' = T /\ s \in Section
      /\ \A a, b \in Section : a = s \/ b = s => next'[<<a, b>>] = 0
  <2>1. s \in Section
    BY DEF TypeOK
  <2>2. QED BY <2>1, TakingSeen
<1>2. /\ Cardinality(section) \in Nat
      /\ \A a \in section : At(q, a) \in 1 .. Cardinality(section) /\ q[At(q, a)] = a
      /\ \A a, b \in Section :
           /\ next[<<a, b>>] = 1 \/ next[<<a, b>>] = 0
           /\ next[<<a, b>>] > 0 <=> a \in section /\ b \in section /\ At(q, b) = At(q, a) + 1
  BY LineFacts
<1>3. /\ Lists(e, T)
      /\ \A a \in T : At(e, a) = IF At(q, a) < k THEN At(q, a) ELSE At(q, a) - 1
  <2>1. Cardinality(section) \in Nat /\ Lists(q, section)
    BY <1>2 DEF InLine
  <2>2. QED BY ONLY <2>1, s \in section, Removed
<1> HIDE DEF e, T
<1>4. \A p \in r.made : next[p] = 0
  <2> SUFFICES ASSUME NEW p \in r.made PROVE next[p] = 0
    OBVIOUS
  <2>1. p \in Place
    BY DEF TypeOK, Commit, Request
  <2>2. p = <<p[1], p[2]>> /\ p[1] \in Section /\ p[2] \in Section
    BY <2>1, Pairs
  <2>3. At(q, p[2]) = At(q, p[1]) + 2 /\ p[1] \in section /\ p[2] \in section
    BY <1>1, <1>2, <2>2, Joined
  <2>4. ~ At(q, p[2]) = At(q, p[1]) + 1
    BY <1>2, <2>3
  <2>5. QED BY <1>2, <2>2, <2>4
<1>5. ASSUME NEW a \in Section, NEW b \in Section
      PROVE  next'[<<a, b>>] =
               IF a \in T /\ b \in T /\ At(e, b) = At(e, a) + 1 THEN 1 ELSE 0
  <2>1. CASE a \notin T \/ b \notin T
    <3>1. next' \in [Place -> Nat] /\ (next'[<<a, b>>] > 0 => a \in T /\ b \in T)
      BY <1>1, CommitType DEF TypeOK, Place
    <3>2. QED BY <2>1, <3>1 DEF Place
  <2>2. CASE a \in T /\ b \in T
    <3>1. a \in section /\ b \in section /\ a # s /\ b # s
      BY <2>2 DEF T
    <3>2. <<a, b>> \notin Swept(r) /\ <<a, b>> \notin r.gone
      BY <1>1, <3>1 DEF Swept, LinksAt, Into, OutOf
    <3>3. next'[<<a, b>>] = IF <<a, b>> \in r.made THEN 1 ELSE next[<<a, b>>]
      BY <1>4, <3>2, Written
    <3>4. <<a, b>> \in r.made <=> k = At(q, a) + 1 /\ At(q, b) = k + 1
      BY <1>1, <3>1, Joined
    <3>5. /\ At(q, a) \in Nat /\ At(q, b) \in Nat /\ k \in Nat
          /\ At(q, a) # k /\ At(q, b) # k
      BY <1>2, <3>1
    <3>6. next[<<a, b>>] = IF At(q, b) = At(q, a) + 1 THEN 1 ELSE 0
      BY <1>2, <3>1
    <3>7. /\ At(e, a) = IF At(q, a) < k THEN At(q, a) ELSE At(q, a) - 1
          /\ At(e, b) = IF At(q, b) < k THEN At(q, b) ELSE At(q, b) - 1
      BY <1>3, <2>2
    <3> HIDE DEF k, r
    <3>8. QED BY <2>2, <3>3, <3>4, <3>5, <3>6, <3>7
  <2>3. QED BY <2>1, <2>2
<1>6. Lists(e, section') /\ Links(e, section', next')
  BY <1>1, <1>3, <1>5 DEF Links
<1>7. QED BY <1>6 DEF InLine, e


LEMMA AddingCommits ==
  ASSUME TypeOK, NEW c \in Client, Commit(c), NEW q, InLine(q),
         NEW s \in Section, Adding(req[c], s)
  PROVE  InLine(PutLast(q, s))' /\ section' = section \cup {s}
<1> DEFINE r == req[c]
           e == PutLast(q, s)
           T == section \cup {s}
           m == Cardinality(section)
<1>1. /\ r.gone = {} /\ r.made = LastOnes \X {s} /\ r.old = {} /\ s \notin section
      /\ section' = T
  BY DEF Adding, Commit
<1>2. /\ m \in Nat
      /\ \A a \in section : At(q, a) \in 1 .. m
      /\ \A a, b \in Section :
           /\ next[<<a, b>>] = 1 \/ next[<<a, b>>] = 0
           /\ next[<<a, b>>] > 0 <=> a \in section /\ b \in section /\ At(q, b) = At(q, a) + 1
  BY LineFacts
<1>3. LastOnes = {a \in section : At(q, a) = m}
  BY LastOne
<1>4. /\ Lists(e, T) /\ At(e, s) = m + 1
      /\ \A a \in section : At(e, a) = At(q, a)
  <2>1. m \in Nat /\ Lists(q, section)
    BY <1>2 DEF InLine
  <2>2. s \notin section
    BY <1>1
  <2>3. QED BY ONLY <2>1, <2>2, Appended
<1> HIDE DEF e, T, m
<1>5. \A p \in r.made : next[p] = 0
  <2> SUFFICES ASSUME NEW p \in r.made PROVE next[p] = 0
    OBVIOUS
  <2>1. p = <<p[1], s>> /\ p[1] \in section
    BY <1>1, <1>3
  <2>2. p[1] \in Section
    BY <2>1 DEF TypeOK
  <2>3. QED BY <1>1, <1>2, <2>1, <2>2
<1>6. ASSUME NEW a \in Section, NEW b \in Section
      PROVE  next'[<<a, b>>] =
               IF a \in T /\ b \in T /\ At(e, b) = At(e, a) + 1 THEN 1 ELSE 0
  <2>1. <<a, b>> \notin Swept(r) /\ <<a, b>> \notin r.gone
    BY <1>1 DEF Swept
  <2>2. next'[<<a, b>>] = IF <<a, b>> \in r.made THEN 1 ELSE next[<<a, b>>]
    BY <1>5, <2>1, Written
  <2>3. <<a, b>> \in r.made <=> a \in section /\ At(q, a) = m /\ b = s
    BY <1>1, <1>3
  <2>4. CASE a \notin T \/ b \notin T
    BY <1>1, <1>2, <2>2, <2>3, <2>4 DEF T
  <2>5. CASE a = s /\ b \in T
    BY <1>1, <1>2, <1>4, <2>2, <2>3, <2>5 DEF T
  <2>6. CASE a \in section /\ b = s
    BY <1>1, <1>2, <1>4, <2>2, <2>3, <2>6 DEF T
  <2>7. CASE a \in section /\ b \in section
    BY <1>1, <1>2, <1>4, <2>2, <2>3, <2>7 DEF T
  <2>8. QED BY <2>4, <2>5, <2>6, <2>7 DEF T
<1>7. Lists(e, section') /\ Links(e, section', next')
  BY <1>1, <1>4, <1>6 DEF Links
<1>8. QED BY <1>1, <1>7 DEF InLine, e, T

LEMMA HeadPlace ==
  ASSUME TypeOK, NEW q, InLine(q), NEW h \in Heads
  PROVE  At(q, h) = 1
<1>1. /\ Cardinality(section) \in Nat /\ h \in section
      /\ \A s \in section : s \in Section /\ At(q, s) \in 1 .. Cardinality(section)
      /\ \A i \in 1 .. Cardinality(section) : q[i] \in section /\ At(q, q[i]) = i
      /\ \A a, b \in Section :
           next[<<a, b>>] > 0 <=> a \in section /\ b \in section /\ At(q, b) = At(q, a) + 1
  BY LineFacts DEF Heads
<1> SUFFICES ASSUME At(q, h) # 1 PROVE FALSE
  OBVIOUS
<1>2. At(q, h) - 1 \in 1 .. Cardinality(section) /\ At(q, h) = At(q, h) - 1 + 1
  BY <1>1
<1> DEFINE a == q[At(q, h) - 1]
<1>3. a \in section /\ At(q, h) = At(q, a) + 1
  BY <1>1, <1>2
<1>4. next[<<a, h>>] > 0 /\ a \in Section /\ h \in Section
  BY <1>1, <1>3
<1>5. <<a, h>> \in Into(next, h)
  BY <1>4 DEF Into, Place
<1>6. QED BY <1>5 DEF Heads



\* A move deletes and makes links: this leaves those of a list e.
LEMMA MovingCommits ==
  ASSUME TypeOK, NEW c \in Client, Commit(c), NEW q, InLine(q),
         NEW s \in section, NEW gone, NEW made, Moving(req[c], s, gone, made),
         NEW e, Lists(e, section),
         \A a, b \in section : <<a, b>> \in made => At(q, b) # At(q, a) + 1,
         \A a, b \in section :
           At(e, b) = At(e, a) + 1 <=>
             \/ <<a, b>> \in made
             \/ At(q, s) = At(q, a) + 1 /\ At(q, b) = At(q, s) + 1
             \/ /\ At(q, b) = At(q, a) + 1 /\ <<a, b>> \notin gone
                /\ At(q, a) # At(q, s) /\ At(q, b) # At(q, s)
  PROVE  InLine(e)' /\ section' = section
<1> DEFINE r == req[c]
           k == At(q, s)
<1>1. /\ r.gone = gone \cup LinksAt(s)
      /\ r.made = made \cup Join(Into(next, s), OutOf(next, s))
      /\ r.old = {} /\ r.new = {} /\ Swept(r) = {} /\ section' = section
      /\ s \in Section
  <2>1. s \in Section /\ s # None /\ r.unlink = None
    BY SectionsAssumption DEF TypeOK, Commit
  <2>2. /\ r.gone = gone \cup LinksAt(s) /\ r.old = {} /\ r.new = {}
        /\ r.made = made \cup Join(Into(next, s), OutOf(next, s))
    BY <2>1 DEF Moving
  <2>3. Swept(r) = {}
    BY <2>2 DEF Swept
  <2>4. QED BY <2>1, <2>2, <2>3 DEF Commit
<1>2. /\ \A a \in section : At(q, a) \in Nat /\ a \in Section
      /\ \A a, b \in section : At(q, a) = At(q, b) => a = b
      /\ \A a, b \in Section :
           /\ next[<<a, b>>] = 1 \/ next[<<a, b>>] = 0
           /\ next[<<a, b>>] > 0 <=> a \in section /\ b \in section /\ At(q, b) = At(q, a) + 1
  <2>1. /\ Cardinality(section) \in Nat
        /\ \A a \in section : /\ a \in Section /\ At(q, a) \in 1 .. Cardinality(section)
                              /\ q[At(q, a)] = a
    BY LineFacts
  <2>2. \A a, b \in section : At(q, a) = At(q, b) => a = b
    BY <2>1
  <2>3. QED BY <2>1, <2>2, LineFacts
<1> HIDE DEF k
<1>3. \A a, b \in section :
        /\ <<a, b>> \in r.made <=>
             <<a, b>> \in made \/ (k = At(q, a) + 1 /\ At(q, b) = k + 1)
        /\ next[<<a, b>>] = IF At(q, b) = At(q, a) + 1 THEN 1 ELSE 0
        /\ At(q, b) = At(q, a) + 1 =>
             (<<a, b>> \in r.gone <=> <<a, b>> \in gone \/ At(q, a) = k \/ At(q, b) = k)
  <2> SUFFICES ASSUME NEW a \in section, NEW b \in section
               PROVE  /\ <<a, b>> \in r.made <=>
                           <<a, b>> \in made \/ (k = At(q, a) + 1 /\ At(q, b) = k + 1)
                      /\ next[<<a, b>>] = IF At(q, b) = At(q, a) + 1 THEN 1 ELSE 0
                      /\ At(q, b) = At(q, a) + 1 =>
                           (<<a, b>> \in r.gone <=>
                              <<a, b>> \in gone \/ At(q, a) = k \/ At(q, b) = k)
    OBVIOUS
  <2>1. a \in Section /\ b \in Section
    BY <1>2
  <2>2. <<a, b>> \in r.made <=> <<a, b>> \in made \/ (k = At(q, a) + 1 /\ At(q, b) = k + 1)
    BY <1>1, <2>1, Joined DEF k
  <2>3. next[<<a, b>>] = IF At(q, b) = At(q, a) + 1 THEN 1 ELSE 0
    BY <1>2, <2>1
  <2>4. next[<<a, b>>] > 0 => (<<a, b>> \in LinksAt(s) <=> a = s \/ b = s)
    BY <2>1 DEF LinksAt, Into, OutOf, Place
  <2>5. (a = s <=> At(q, a) = k) /\ (b = s <=> At(q, b) = k)
    BY <1>2 DEF k
  <2> HIDE DEF r
  <2>6. QED BY <1>1, <2>2, <2>3, <2>4, <2>5
<1>4. \A p \in r.made : next[p] = 0
  <2> SUFFICES ASSUME NEW p \in r.made PROVE next[p] = 0
    OBVIOUS
  <2>1. p \in Place /\ {p[1], p[2]} \subseteq section
    BY <1>1 DEF TypeOK, Commit, Request
  <2>2. p = <<p[1], p[2]>>
    BY <2>1, Pairs
  <2> DEFINE a == p[1]
             b == p[2]
  <2>3. a \in section /\ b \in section /\ <<a, b>> \in r.made
    BY <2>1, <2>2
  <2>4. At(q, a) \in Nat /\ At(q, b) \in Nat /\ k \in Nat
    BY <1>2, <2>3 DEF k
  <2>5. At(q, b) # At(q, a) + 1
    <3> HIDE DEF a, b, r
    <3>1. QED BY <1>3, <2>3, <2>4
  <2>6. QED BY <1>3, <2>2, <2>3, <2>5
<1>5. ASSUME NEW a \in Section, NEW b \in Section
      PROVE  next'[<<a, b>>] =
               IF a \in section /\ b \in section /\ At(e, b) = At(e, a) + 1 THEN 1 ELSE 0
  <2>1. CASE a \notin section \/ b \notin section
    <3>1. next' \in [Place -> Nat] /\ (next'[<<a, b>>] > 0 => a \in section /\ b \in section)
      BY <1>1, CommitType DEF TypeOK, Place
    <3>2. QED BY <2>1, <3>1 DEF Place
  <2>2. CASE a \in section /\ b \in section
    <3>1. next'[<<a, b>>] = IF <<a, b>> \in r.made THEN 1
                            ELSE IF <<a, b>> \in r.gone THEN 0 ELSE next[<<a, b>>]
      BY <1>1, <1>4, Written
    <3>2. At(q, a) \in Nat /\ At(q, b) \in Nat /\ k \in Nat
      BY <1>2, <2>2 DEF k
    <3>3. At(e, b) = At(e, a) + 1 <=>
             \/ <<a, b>> \in made
             \/ k = At(q, a) + 1 /\ At(q, b) = k + 1
             \/ /\ At(q, b) = At(q, a) + 1 /\ <<a, b>> \notin gone
                /\ At(q, a) # k /\ At(q, b) # k
      BY <2>2 DEF k
    <3> HIDE DEF r
    <3>4. QED BY <1>3, <2>2, <3>1, <3>2, <3>3
  <2>3. QED BY <2>1, <2>2
<1>6. QED BY <1>1, <1>5 DEF InLine, Links

LEMMA FirstCommits ==
  ASSUME TypeOK, NEW c \in Client, Commit(c), NEW q, InLine(q),
         NEW s, NEW h, MovingFirst(req[c], s, h)
  PROVE  InLine(PutFirst(AsList!TakenOut(q, s), s))' /\ section' = section
<1> DEFINE rest == AsList!TakenOut(q, s)
           e    == PutFirst(rest, s)
           k    == At(q, s)
           T    == section \ {s}
<1>1. /\ s \in section /\ h \in Heads /\ h \in section /\ h # s
      /\ Moving(req[c], s, {}, {<<s, h>>}) /\ At(q, h) = 1
  BY HeadPlace DEF MovingFirst, Heads
<1>2. /\ Cardinality(section) \in Nat /\ Lists(q, section)
      /\ \A a \in section : At(q, a) \in Nat /\ At(q, a) > 0 /\ q[At(q, a)] = a
  BY LineFacts DEF InLine
<1>3. /\ Lists(rest, T) /\ Cardinality(T) = Cardinality(section) - 1
      /\ \A a \in T : At(rest, a) = IF At(q, a) < k THEN At(q, a) ELSE At(q, a) - 1
  <2>1. Cardinality(section) \in Nat /\ Lists(q, section) /\ s \in section
    BY <1>1, <1>2
  <2>2. QED BY ONLY <2>1, Removed
<1> HIDE DEF rest
<1>4. Cardinality(T) \in Nat /\ s \notin T
  <2>1. Cardinality(section) # 0
    BY <1>1, Sized, FS_EmptySet
  <2>2. QED BY <1>2, <1>3, <2>1
<1>5. Lists(e, T \cup {s}) /\ At(e, s) = 1 /\ \A a \in T : At(e, a) = At(rest, a) + 1
  <2> HIDE DEF T
  <2>1. QED BY ONLY <1>3, <1>4, Fronted
<1>6. Lists(e, section)
  <2>1. T \cup {s} = section
    BY <1>1
  <2>2. QED BY <1>5, <2>1
<1> HIDE DEF e, k
<1>7. \A a \in section : At(e, a) = IF At(q, a) = k THEN 1
                                    ELSE IF At(q, a) < k THEN At(q, a) + 1 ELSE At(q, a)
  <2> SUFFICES ASSUME NEW a \in section
               PROVE  At(e, a) = IF At(q, a) = k THEN 1
                                 ELSE IF At(q, a) < k THEN At(q, a) + 1 ELSE At(q, a)
    OBVIOUS
  <2>1. CASE a = s
    BY <1>5, <2>1 DEF k
  <2>2. CASE a # s
    <3>1. At(q, a) # k /\ At(q, a) \in Nat /\ k \in Nat
      BY <1>1, <1>2, <2>2 DEF k
    <3>2. QED BY <1>3, <1>5, <2>2, <3>1
  <2>3. QED BY <2>1, <2>2
<1>8. \A a, b \in section : <<a, b>> \in {<<s, h>>} <=> At(q, a) = k /\ At(q, b) = 1
  BY <1>1, <1>2 DEF k
<1>9. ASSUME NEW a \in section, NEW b \in section
      PROVE  /\ <<a, b>> \in {<<s, h>>} => At(q, b) # At(q, a) + 1
             /\ At(e, b) = At(e, a) + 1 <=>
                  \/ <<a, b>> \in {<<s, h>>}
                  \/ k = At(q, a) + 1 /\ At(q, b) = k + 1
                  \/ At(q, b) = At(q, a) + 1 /\ At(q, a) # k /\ At(q, b) # k
  <2>1. /\ At(q, a) \in Nat /\ At(q, b) \in Nat /\ k \in Nat
        /\ At(q, a) > 0 /\ At(q, b) > 0 /\ k > 1
    BY <1>1, <1>2 DEF k
  <2>2. /\ At(e, a) = IF At(q, a) = k THEN 1
                      ELSE IF At(q, a) < k THEN At(q, a) + 1 ELSE At(q, a)
        /\ At(e, b) = IF At(q, b) = k THEN 1
                      ELSE IF At(q, b) < k THEN At(q, b) + 1 ELSE At(q, b)
    BY <1>7
  <2>3. <<a, b>> \in {<<s, h>>} <=> At(q, a) = k /\ At(q, b) = 1
    BY <1>8
  <2>4. QED BY <2>1, <2>2, <2>3
<1> DEFINE gone == {}
           made == {<<s, h>>}
<1>10. /\ Moving(req[c], s, gone, made)
       /\ \A a, b \in section : <<a, b>> \in made => At(q, b) # At(q, a) + 1
       /\ \A a, b \in section :
            At(e, b) = At(e, a) + 1 <=>
              \/ <<a, b>> \in made
              \/ At(q, s) = At(q, a) + 1 /\ At(q, b) = At(q, s) + 1
              \/ /\ At(q, b) = At(q, a) + 1 /\ <<a, b>> \notin gone
                 /\ At(q, a) # At(q, s) /\ At(q, b) # At(q, s)
  BY <1>1, <1>9 DEF k
<1> HIDE DEF gone, made
<1>11. InLine(e)' /\ section' = section
  BY <1>1, <1>6, <1>10, MovingCommits
<1>12. QED BY <1>11 DEF e, rest


LEMMA BehindCommits ==
  ASSUME TypeOK, NEW c \in Client, Commit(c), NEW q, InLine(q),
         NEW s, NEW p, MovingBehind(req[c], s, p)
  PROVE  LET rest == AsList!TakenOut(q, s)
         IN  InLine(AsList!InsertAt(rest, At(rest, p) + 1, s))' /\ section' = section
<1> DEFINE rest == AsList!TakenOut(q, s)
           j    == At(rest, p) + 1
           e    == AsList!InsertAt(rest, j, s)
           k    == At(q, s)
           l    == At(q, p)
           T    == section \ {s}
           gone == OutOf(next, p)
           made == {<<p, s>>} \cup ({s} \X Behind(p))
<1>1. /\ s \in section /\ p \in section /\ p # s /\ next[<<p, s>>] = 0
      /\ Moving(req[c], s, gone, made)
  BY DEF MovingBehind
<1>2. /\ Cardinality(section) \in Nat /\ Lists(q, section)
      /\ \A a \in section : /\ At(q, a) \in 1 .. Cardinality(section) /\ q[At(q, a)] = a
                            /\ At(q, a) \in Nat /\ a \in Section
      /\ \A a, b \in Section :
           next[<<a, b>>] > 0 <=> a \in section /\ b \in section /\ At(q, b) = At(q, a) + 1
  BY LineFacts DEF InLine
<1>3. /\ Lists(rest, T) /\ Cardinality(T) = Cardinality(section) - 1
      /\ \A a \in T : At(rest, a) = IF At(q, a) < k THEN At(q, a) ELSE At(q, a) - 1
  <2>1. Cardinality(section) \in Nat /\ Lists(q, section) /\ s \in section
    BY <1>1, <1>2
  <2>2. QED BY ONLY <2>1, Removed
<1> HIDE DEF rest, gone, made
<1>4. /\ Cardinality(T) \in Nat /\ s \notin T /\ p \in T
      /\ k \in 1 .. Cardinality(section) /\ l \in 1 .. Cardinality(section)
      /\ l # k /\ k # l + 1
  <2>1. k \in 1 .. Cardinality(section) /\ l \in 1 .. Cardinality(section) /\ l # k
    BY <1>1, <1>2
  <2>2. k # l + 1
    <3>1. p \in Section /\ s \in Section /\ ~ next[<<p, s>>] > 0
      BY <1>1, <1>2
    <3>2. QED BY <1>1, <1>2, <3>1
  <2>3. QED BY <1>1, <1>2, <1>3, <2>1, <2>2
<1>5. j = (IF l < k THEN l ELSE l - 1) + 1 /\ j \in 1 .. Cardinality(T) + 1
  <2>1. j = (IF l < k THEN l ELSE l - 1) + 1
    BY <1>3, <1>4
  <2>2. QED BY <1>2, <1>3, <1>4, <2>1
<1>6. /\ Lists(e, T \cup {s}) /\ At(e, s) = j
      /\ \A a \in T : At(e, a) = IF At(rest, a) < j THEN At(rest, a) ELSE At(rest, a) + 1
  <2> HIDE DEF T, j
  <2>1. QED BY ONLY <1>3, <1>4, <1>5, Inserted
<1>7. Lists(e, section)
  <2>1. T \cup {s} = section
    BY <1>1
  <2>2. QED BY <1>6, <2>1
<1> HIDE DEF e, k, l, j
<1> DEFINE rank(x) == IF x = k THEN j
                      ELSE LET y == IF x < k THEN x ELSE x - 1
                           IN  IF y < j THEN y ELSE y + 1
<1>8. \A a \in section : At(e, a) = rank(At(q, a))
  <2> SUFFICES ASSUME NEW a \in section PROVE At(e, a) = rank(At(q, a))
    OBVIOUS
  <2>1. CASE a = s
    BY <1>6, <2>1 DEF k
  <2>2. CASE a # s
    <3>1. At(q, a) # k /\ a \in T
      BY <1>1, <1>2, <2>2 DEF k
    <3>2. QED BY <1>3, <1>6, <3>1
  <2>3. QED BY <2>1, <2>2
<1>9. \A a, b \in section :
        /\ <<a, b>> \in made <=> (At(q, a) = l /\ At(q, b) = k) \/ (At(q, a) = k /\ At(q, b) = l + 1)
        /\ <<a, b>> \in gone <=> At(q, a) = l /\ At(q, b) = l + 1
  <2> SUFFICES ASSUME NEW a \in section, NEW b \in section
               PROVE  /\ <<a, b>> \in made <=> \/ At(q, a) = l /\ At(q, b) = k
                                               \/ At(q, a) = k /\ At(q, b) = l + 1
                      /\ <<a, b>> \in gone <=> At(q, a) = l /\ At(q, b) = l + 1
    OBVIOUS
  <2>1. /\ a = s <=> At(q, a) = k
        /\ b = s <=> At(q, b) = k
        /\ a = p <=> At(q, a) = l
    BY <1>1, <1>2 DEF k, l
  <2>2. a \in Section /\ b \in Section /\ p \in Section
    BY <1>1, <1>2
  <2>3. next[<<p, b>>] > 0 <=> At(q, b) = l + 1
    BY <1>1, <1>2, <2>2 DEF l
  <2>4. <<a, b>> \in gone <=> a = p /\ next[<<p, b>>] > 0
    BY <2>2 DEF gone, OutOf, Place
  <2>5. b \in Behind(p) <=> next[<<p, b>>] > 0
    <3>1. ASSUME b \in Behind(p) PROVE next[<<p, b>>] > 0
      <4>1. PICK o \in OutOf(next, p) : o[2] = b
        BY <3>1 DEF Behind
      <4>2. o = <<p, b>> /\ next[o] > 0
        BY <4>1, Pairs DEF OutOf
      <4>3. QED BY <4>2
    <3>2. ASSUME next[<<p, b>>] > 0 PROVE b \in Behind(p)
      <4>1. <<p, b>> \in OutOf(next, p) /\ <<p, b>>[2] = b
        BY <2>2, <3>2 DEF OutOf, Place
      <4>2. QED BY <4>1 DEF Behind
    <3>3. QED BY <3>1, <3>2
  <2>6. <<a, b>> \in made <=> (a = p /\ b = s) \/ (a = s /\ b \in Behind(p))
    BY DEF made
  <2>7. QED BY <2>1, <2>3, <2>4, <2>5, <2>6
<1>10. ASSUME NEW a \in section, NEW b \in section
       PROVE  /\ <<a, b>> \in made => At(q, b) # At(q, a) + 1
              /\ At(e, b) = At(e, a) + 1 <=>
                   \/ <<a, b>> \in made
                   \/ k = At(q, a) + 1 /\ At(q, b) = k + 1
                   \/ /\ At(q, b) = At(q, a) + 1 /\ <<a, b>> \notin gone
                      /\ At(q, a) # k /\ At(q, b) # k
  <2> DEFINE x == At(q, a)
             y == At(q, b)
  <2>1. x \in Nat /\ y \in Nat /\ k \in Nat /\ l \in Nat /\ l # k /\ k # l + 1
    BY <1>2, <1>4
  <2>2. At(e, a) = rank(x) /\ At(e, b) = rank(y)
    BY <1>8
  <2>3. /\ <<a, b>> \in made <=> (x = l /\ y = k) \/ (x = k /\ y = l + 1)
        /\ <<a, b>> \in gone <=> x = l /\ y = l + 1
    BY <1>9
  <2> HIDE DEF x, y
  <2>4. /\ (x = l /\ y = k) \/ (x = k /\ y = l + 1) => y # x + 1
        /\ rank(y) = rank(x) + 1 <=>
             \/ (x = l /\ y = k) \/ (x = k /\ y = l + 1)
             \/ k = x + 1 /\ y = k + 1
             \/ y = x + 1 /\ ~ (x = l /\ y = l + 1) /\ x # k /\ y # k
    BY <1>5, <2>1
  <2> HIDE DEF rank
  <2>5. QED BY <2>2, <2>3, <2>4 DEF x, y
<1>11. InLine(e)' /\ section' = section
  <2>1. /\ \A a, b \in section : <<a, b>> \in made => At(q, b) # At(q, a) + 1
        /\ \A a, b \in section :
             At(e, b) = At(e, a) + 1 <=>
               \/ <<a, b>> \in made
               \/ At(q, s) = At(q, a) + 1 /\ At(q, b) = At(q, s) + 1
               \/ /\ At(q, b) = At(q, a) + 1 /\ <<a, b>> \notin gone
                  /\ At(q, a) # At(q, s) /\ At(q, b) # At(q, s)
    BY <1>10 DEF k
  <2>2. QED BY <1>1, <1>7, <2>1, MovingCommits
<1>12. QED BY <1>11 DEF e, j, rest


-----------------------------------------------------------------------------
(* What the other transactions are going to do still fits.                 *)

\* Links that do not hang on the section that is taken out stay.
LEMMA Kept ==
  ASSUME TypeOK, NEW c \in Client, Commit(c), NEW q, InLine(q),
         NEW s \in section, Taking(req[c], s), NEW t \in Section, t # s
  PROVE  /\ Into(next, t) \cap LinksAt(s) = {} => Into(next', t) = Into(next, t)
         /\ OutOf(next, t) \cap LinksAt(s) = {} => OutOf(next', t) = OutOf(next, t)
<1> DEFINE r == req[c]
<1>1. /\ r.gone = LinksAt(s) /\ r.made = Join(Into(next, s), OutOf(next, s)) /\ r.old = {s}
      /\ s \in Section
      /\ \A a, b \in Section : a = s \/ b = s => next'[<<a, b>>] = 0
  <2>1. s \in Section
    BY DEF TypeOK
  <2>2. QED BY <2>1, TakingSeen
<1>2. /\ \A a \in section : At(q, a) \in Nat
      /\ \A a, b \in Section :
           /\ next[<<a, b>>] = 1 \/ next[<<a, b>>] = 0
           /\ next[<<a, b>>] > 0 <=> a \in section /\ b \in section /\ At(q, b) = At(q, a) + 1
  BY LineFacts
<1>3. ASSUME NEW a \in Section, NEW b \in Section, a # s, b # s,
             ~ (next[<<a, s>>] > 0 /\ next[<<s, b>>] > 0)
      PROVE  next'[<<a, b>>] = next[<<a, b>>]
  <2>1. <<a, b>> \notin r.made
    BY <1>1, <1>2, <1>3, Joined
  <2>2. <<a, b>> \notin r.gone /\ <<a, b>> \notin Swept(r)
    BY <1>1, <1>3 DEF LinksAt, Into, OutOf, Swept
  <2>3. \A p \in r.made : next[p] = 0
    <3> SUFFICES ASSUME NEW p \in r.made PROVE next[p] = 0
      OBVIOUS
    <3>1. p = <<p[1], p[2]>> /\ p[1] \in Section /\ p[2] \in Section
      BY Pairs DEF TypeOK, Commit, Request
    <3>2. /\ p[1] \in section /\ p[2] \in section
          /\ At(q, s) = At(q, p[1]) + 1 /\ At(q, p[2]) = At(q, s) + 1
      BY <1>1, <3>1, Joined
    <3>3. ~ At(q, p[2]) = At(q, p[1]) + 1
      BY <1>2, <3>2
    <3>4. QED BY <1>2, <3>1, <3>3
  <2>4. QED BY <2>1, <2>2, <2>3, Written
<1>4. ASSUME Into(next, t) \cap LinksAt(s) = {} PROVE Into(next', t) = Into(next, t)
  <2>1. ~ next[<<s, t>>] > 0
    BY <1>1, <1>4 DEF Into, OutOf, LinksAt, Place
  <2>2. ASSUME NEW a \in Section PROVE next'[<<a, t>>] > 0 <=> next[<<a, t>>] > 0
    <3>1. CASE a = s
      BY <1>1, <2>1, <3>1
    <3>2. CASE a # s
      BY <1>3, <2>1, <3>2
    <3>3. QED BY <3>1, <3>2
  <2>3. \A p \in Place : p[2] = t => (next'[p] > 0 <=> next[p] > 0)
    BY <2>2, Pairs
  <2>4. QED BY <2>3 DEF Into
<1>5. ASSUME OutOf(next, t) \cap LinksAt(s) = {} PROVE OutOf(next', t) = OutOf(next, t)
  <2>1. ~ next[<<t, s>>] > 0
    BY <1>1, <1>5 DEF Into, OutOf, LinksAt, Place
  <2>2. ASSUME NEW b \in Section PROVE next'[<<t, b>>] > 0 <=> next[<<t, b>>] > 0
    <3>1. CASE b = s
      BY <1>1, <2>1, <3>1
    <3>2. CASE b # s
      BY <1>3, <2>1, <3>2
    <3>3. QED BY <3>1, <3>2
  <2>3. \A p \in Place : p[1] = t => (next'[p] > 0 <=> next[p] > 0)
    BY <2>2, Pairs
  <2>4. QED BY <2>3 DEF OutOf
<1>6. QED BY <1>4, <1>5

\* Also what is last, unless that is taken out.
LEMMA LastKept ==
  ASSUME TypeOK, NEW c \in Client, Commit(c), NEW q, InLine(q),
         NEW s \in section, Taking(req[c], s), s \notin LastOnes
  PROVE  LastOnes' = LastOnes
<1> DEFINE r == req[c]
<1>1. /\ r.made = Join(Into(next, s), OutOf(next, s)) /\ s \in Section /\ r.old = {s}
      /\ section' = section \ {s} /\ section \subseteq Section
      /\ \A a, b \in Section : a = s \/ b = s => next'[<<a, b>>] = 0
  <2>1. s \in Section /\ section \subseteq Section
    BY DEF TypeOK
  <2>2. QED BY <2>1, TakingSeen
<1>2. PICK b \in Section : next[<<s, b>>] > 0
  <2>1. PICK p \in OutOf(next, s) : TRUE
    BY DEF LastOnes
  <2>2. p = <<s, p[2]>> /\ p[2] \in Section /\ next[p] > 0
    BY Pairs DEF OutOf
  <2>3. QED BY <2>2
<1>3. ASSUME NEW a \in section, a # s
      PROVE  OutOf(next', a) = {} <=> OutOf(next, a) = {}
  <2>1. CASE ~ next[<<a, s>>] > 0
    <3>1. OutOf(next, a) \cap LinksAt(s) = {}
      <4> SUFFICES ASSUME NEW p \in OutOf(next, a), p \in LinksAt(s) PROVE FALSE
        OBVIOUS
      <4>1. p = <<a, s>> /\ next[p] > 0
        BY <1>3, Pairs DEF OutOf, LinksAt, Into
      <4>2. QED BY <2>1, <4>1
    <3>2. OutOf(next', a) = OutOf(next, a)
      BY <1>1, <1>3, <3>1, Kept
    <3>3. QED BY <3>2
  <2>2. CASE next[<<a, s>>] > 0
    <3>1. <<a, s>> \in Into(next, s) /\ <<s, b>> \in OutOf(next, s) /\ <<a, s>> \in OutOf(next, a)
      BY <1>1, <1>2, <2>2 DEF Into, OutOf, Place
    <3>2. <<a, b>> \in r.made
      <4>1. <<a, s>>[1] = a /\ <<s, b>>[2] = b
        OBVIOUS
      <4>2. QED BY <1>1, <3>1, <4>1 DEF Join
    <3>3. b # s /\ <<a, b>> \in Place /\ <<a, b>> \notin Swept(r)
      BY <1>1, <1>2, <1>3, NoLoop DEF Place, Swept
    <3>4. next'[<<a, b>>] = Plus(Minus(next, r.gone), r.made)[<<a, b>>]
      BY <3>3 DEF Commit
    <3>5. next[<<a, b>>] \in Nat /\ (<<a, b>> \in r.gone => next[<<a, b>>] > 0)
      BY <3>3 DEF TypeOK, Commit
    <3>6. next'[<<a, b>>] > 0
      BY <3>2, <3>3, <3>4, <3>5 DEF Plus, Minus
    <3>7. <<a, b>> \in OutOf(next', a)
      BY <3>3, <3>6 DEF OutOf
    <3>8. QED BY <3>1, <3>7
  <2>3. QED BY <2>1, <2>2
<1>4. LastOnes' = {a \in section \ {s} : OutOf(next', a) = {}}
  BY <1>1 DEF LastOnes
<1>5. QED BY <1>3, <1>4 DEF LastOnes

LEMMA OthersFit ==
  ASSUME OInv, NEW c \in Client, Commit(c), NEW o \in Request, Fits(o),
         ~ Holds(o, req[c].gone \cup Swept(req[c]), req[c].old),
         o.old = {} => req[c].heir # None,
         req[c].old = {} => o.heir # None
  PROVE  Fits(o)'
<1>1. TypeOK /\ \E q : InLine(q)
  BY DEF OInv
<1>2. PICK q : InLine(q)
  BY <1>1
<1>3. CASE o.heir # None
  <2>1. PICK t \in Section : Taking(o, t)
    BY <1>3 DEF Fits, Changing, Adding, MovingFirst, MovingBehind, Moving
  <2>2. t \in section'
    BY <2>1 DEF Taking, Commit, Holds
  <2>3. Taking(o, t)'
    BY <1>3, <2>1, <2>2 DEF Taking
  <2>4. QED BY <2>3 DEF Fits
<1>4. CASE o.heir = None
  <2>1. PICK s \in Section : Taking(req[c], s)
    <3>1. Fits(req[c]) /\ req[c].old # {}
      BY <1>4, OpenFits DEF Commit
    <3>2. QED BY <3>1 DEF Fits, Changing, Adding, MovingFirst, MovingBehind, Moving
  <2>2. /\ req[c].gone = LinksAt(s) /\ req[c].old = {s} /\ section' = section \ {s}
        /\ \A a, b \in Section : a = s \/ b = s => next'[<<a, b>>] = 0
    BY <1>1, <1>2, <2>1, TakingSeen
  <2>3. s \in section
    BY <2>1 DEF Taking
  <2>4. /\ \A p \in o.gone : p \notin LinksAt(s)
        /\ s # o.unlink /\ s \notin o.old /\ \A p \in o.made : s # p[1] /\ s # p[2]
    BY <2>2 DEF Holds
  <2>5. ASSUME NEW t \in Section, t # s
        PROVE  /\ LinksAt(t) \subseteq o.gone =>
                    /\ Into(next', t) = Into(next, t) /\ OutOf(next', t) = OutOf(next, t)
                    /\ LinksAt(t)' = LinksAt(t)
               /\ OutOf(next, t) \subseteq o.gone => OutOf(next', t) = OutOf(next, t)
    <3>1. /\ Into(next, t) \cap LinksAt(s) = {} => Into(next', t) = Into(next, t)
          /\ OutOf(next, t) \cap LinksAt(s) = {} => OutOf(next', t) = OutOf(next, t)
      BY <1>1, <1>2, <2>1, <2>3, <2>5, Kept
    <3>2. QED BY <2>4, <3>1 DEF LinksAt
  <2>6. CASE \E t \in Section : Taking(o, t)
    <3>1. PICK t \in Section : Taking(o, t)
      BY <2>6
    <3>2. t # s /\ (LinksAt(t) \subseteq o.gone => LinksAt(t)' \subseteq o.gone)
      BY <2>4, <2>5, <3>1 DEF Taking
    <3>3. Taking(o, t)'
      BY <2>2, <3>1, <3>2 DEF Taking
    <3>4. QED BY <3>3 DEF Fits
  <2>7. CASE \E t \in Section : Adding(o, t)
    <3>1. PICK t \in Section : Adding(o, t)
      BY <2>7
    <3>2. s \notin LastOnes
      <4> SUFFICES ASSUME s \in LastOnes PROVE FALSE
        OBVIOUS
      <4>1. <<s, t>> \in o.made /\ <<s, t>>[1] = s
        BY <3>1 DEF Adding
      <4>2. QED BY <2>4, <4>1
    <3>3. LastOnes' = LastOnes
      BY <1>1, <1>2, <2>1, <2>3, <3>2, LastKept
    <3>4. Adding(o, t)'
      BY <2>2, <3>1, <3>3 DEF Adding
    <3>5. QED BY <3>4 DEF Fits, Changing
  <2>8. CASE \E t, h \in Section : MovingFirst(o, t, h)
    <3>1. PICK t \in Section, h \in Section : MovingFirst(o, t, h)
      BY <2>8
    <3>2. /\ t \in section /\ h \in section /\ h # t /\ Into(next, h) = {}
          /\ Moving(o, t, {}, {<<t, h>>})
      BY <3>1 DEF MovingFirst, Heads
    <3>3. <<t, h>> \in o.made /\ <<t, h>>[1] = t /\ <<t, h>>[2] = h
      BY <3>2 DEF Moving
    <3>4. t # s /\ h # s
      BY <2>4, <3>3
    <3>5. Into(next', h) = {}
      BY <1>1, <1>2, <2>1, <2>3, <3>2, <3>4, Kept
    <3>6. Moving(o, t, {}, {<<t, h>>})'
      BY <2>5, <3>2, <3>4 DEF Moving
    <3>7. MovingFirst(o, t, h)'
      BY <2>2, <3>2, <3>4, <3>5, <3>6 DEF MovingFirst, Heads
    <3>8. QED BY <3>7 DEF Fits, Changing
  <2>9. CASE \E t, p \in Section : MovingBehind(o, t, p)
    <3>1. PICK t \in Section, p \in Section : MovingBehind(o, t, p)
      BY <2>9
    <3>2. /\ t \in section /\ p \in section /\ t # p /\ next[<<p, t>>] = 0
          /\ Moving(o, t, OutOf(next, p), {<<p, t>>} \cup ({t} \X Behind(p)))
      BY <3>1 DEF MovingBehind
    <3>3. /\ <<p, t>> \in o.made /\ <<p, t>>[1] = p /\ <<p, t>>[2] = t
          /\ OutOf(next, p) \subseteq o.gone
      BY <3>2 DEF Moving
    <3>4. t # s /\ p # s
      BY <2>4, <3>3
    <3>5. OutOf(next', p) = OutOf(next, p) /\ Behind(p)' = Behind(p)
      BY <2>5, <3>3, <3>4 DEF Behind
    <3>6. next'[<<p, t>>] = 0
      <4>1. <<p, t>> \in Place /\ <<p, t>> \notin OutOf(next, p)
        BY <3>2 DEF Place, OutOf
      <4>2. ~ next'[<<p, t>>] > 0
        BY <3>5, <4>1 DEF OutOf
      <4>3. next' \in [Place -> Nat]
        BY <1>1, CommitType DEF TypeOK
      <4>4. QED BY <4>1, <4>2, <4>3
    <3>7. Moving(o, t, OutOf(next, p), {<<p, t>>} \cup ({t} \X Behind(p)))'
      BY <2>5, <3>2, <3>4, <3>5 DEF Moving
    <3>8. MovingBehind(o, t, p)'
      BY <2>2, <3>2, <3>4, <3>6, <3>7 DEF MovingBehind
    <3>9. QED BY <3>8 DEF Fits, Changing
  <2>10. QED BY <2>6, <2>7, <2>8, <2>9 DEF Fits, Changing
<1>5. QED BY <1>3, <1>4


-----------------------------------------------------------------------------
(* The steps of NextBeside.                                                *)

LEMMA ListNow == \A q : TypeOK /\ InLine(q) => TheList = q /\ InOrder
BY ListIs DEF InLine

LEMMA ListThen == (\A q : TypeOK /\ InLine(q) => TheList = q /\ InOrder)'
BY ListNow, PTL

LEMMA BesideIsNext == [NextBeside]_vars => [Next]_vars
BY DEF NextBeside, Next, Moves, Drop

\* While no commit changes the links, what fits goes on fitting.
LEMMA StillFits ==
  ASSUME UNCHANGED <<section, next>>
  PROVE  \A r : Fits(r) => Fits(r)'
<1>1. \A s : LinksAt(s)' = LinksAt(s)
  BY DEF LinksAt
<1>2. LastOnes' = LastOnes /\ Heads' = Heads /\ \A p : Behind(p)' = Behind(p)
  BY DEF LastOnes, Heads, Behind
<1>3. \A r, s : (Taking(r, s) => Taking(r, s)') /\ (Adding(r, s) => Adding(r, s)')
  BY <1>1, <1>2 DEF Taking, Adding
<1>4. \A r, s, p : MovingFirst(r, s, p) => MovingFirst(r, s, p)'
  BY <1>1, <1>2 DEF MovingFirst, Moving
<1>5. \A r, s, p : MovingBehind(r, s, p) => MovingBehind(r, s, p)'
  BY <1>1, <1>2 DEF MovingBehind, Moving
<1>6. QED BY <1>3, <1>4, <1>5 DEF Fits, Changing

LEMMA StillInLine ==
  ASSUME OInv, UNCHANGED <<section, next>>
  PROVE  \E q \in Seq(Section) : InLine(q)'
BY DEF OInv, InLine

\* A transaction that begins, or goes on without a commit.
LEMMA Continues ==
  ASSUME OInv, TypeOK', UNCHANGED <<section, next>>, NEW c \in Client, NEW r,
         req' = [req EXCEPT ![c] = r], Fits(r),
         \A d \in Client \ {c} : req[d] # Idle =>
           (r.old = {} => req[d].heir # None) /\ (req[d].old = {} => r.heir # None)
  PROVE  OInv'
<1>1. req \in [Client -> Request \cup {Idle}]
  BY DEF OInv, TypeOK
<1>2. \A o \in Range(req') \ {Idle} : Fits(o)
  BY <1>1 DEF OInv, Range
<1>3. \A o \in Range(req') \ {Idle} : Fits(o)'
  BY <1>2, StillFits
<1>4. Apart'
  BY <1>1 DEF OInv, Apart
<1>5. (\E q \in Seq(Section) : InLine(q))'
  BY StillInLine
<1>6. QED BY <1>3, <1>4, <1>5 DEF OInv

LEMMA AbortOrder ==
  ASSUME OInv, TypeOK', NEW c \in Client, Abort(c)
  PROVE  OInv'
<1>1. req \in [Client -> Request \cup {Idle}] /\ UNCHANGED <<section, next>>
      /\ req' = [req EXCEPT ![c] = Idle]
  BY DEF OInv, TypeOK, Abort
<1>2. \A o \in Range(req') \ {Idle} : Fits(o)
  BY <1>1 DEF OInv, Range
<1>3. \A o \in Range(req') \ {Idle} : Fits(o)'
  BY <1>1, <1>2, StillFits
<1>4. Apart'
  BY <1>1 DEF OInv, Apart
<1>5. (\E q \in Seq(Section) : InLine(q))'
  BY <1>1, StillInLine
<1>6. QED BY <1>3, <1>4, <1>5 DEF OInv


\* What SectionList does to a list.
OneStep(q, e) ==
  \E s \in Section :
    LET rest == AsList!TakenOut(q, s)
    IN  \/ s \notin AsList!ToSet(q) /\ e = Append(q, s)
        \/ s \in AsList!ToSet(q) /\ (e = rest \/ e = <<s>> \o rest)
        \/ \E p \in AsList!ToSet(q) \ {s} :
             s \in AsList!ToSet(q) /\ e = AsList!InsertAt(rest, At(rest, p) + 1, s)

LEMMA Listed ==
  ASSUME TypeOK, NEW q, InLine(q)
  PROVE  AsList!ToSet(q) = section
<1>1. /\ q \in [1 .. Cardinality(section) -> section]
      /\ \A s \in section : \E i \in 1 .. Cardinality(section) : q[i] = s
  BY DEF InLine, Lists
<1>2. AsList!ToSet(q) = {q[i] : i \in DOMAIN q}
  BY DEF AsList!ToSet
<1>3. QED BY <1>1, <1>2

LEMMA CommitLine ==
  ASSUME OInv, NEW c \in Client, Commit(c), NEW q, InLine(q)
  PROVE  \E e : InLine(e)' /\ OneStep(q, e)
<1>1. TypeOK /\ AsList!ToSet(q) = section /\ section \subseteq Section /\ Fits(req[c])
  BY Listed, OpenFits DEF OInv, TypeOK, Commit
<1>2. CASE \E s \in Section : Taking(req[c], s)
  <2>1. PICK s \in Section : Taking(req[c], s)
    BY <1>2
  <2> DEFINE e == AsList!TakenOut(q, s)
  <2>2. s \in section
    BY <2>1 DEF Taking
  <2>3. InLine(e)'
    BY <1>1, <2>1, <2>2, TakingCommits
  <2>4. OneStep(q, e)
    BY <1>1, <2>2 DEF OneStep
  <2>5. QED BY <2>3, <2>4
<1>3. CASE \E s \in Section : Adding(req[c], s)
  <2>1. PICK s \in Section : Adding(req[c], s)
    BY <1>3
  <2> DEFINE e == PutLast(q, s)
  <2>2. InLine(e)'
    BY <1>1, <2>1, AddingCommits
  <2>3. OneStep(q, e)
    BY <1>1, <2>1 DEF OneStep, Adding, PutLast
  <2>4. QED BY <2>2, <2>3
<1>4. CASE \E s, h \in Section : MovingFirst(req[c], s, h)
  <2>1. PICK s \in Section, h \in Section : MovingFirst(req[c], s, h)
    BY <1>4
  <2> DEFINE e == PutFirst(AsList!TakenOut(q, s), s)
  <2>2. InLine(e)'
    BY <1>1, <2>1, FirstCommits
  <2>3. OneStep(q, e)
    BY <1>1, <2>1 DEF OneStep, MovingFirst, PutFirst
  <2>4. QED BY <2>2, <2>3
<1>5. CASE \E s, p \in Section : MovingBehind(req[c], s, p)
  <2>1. PICK s \in Section, p \in Section : MovingBehind(req[c], s, p)
    BY <1>5
  <2> DEFINE rest == AsList!TakenOut(q, s)
             e    == AsList!InsertAt(rest, At(rest, p) + 1, s)
  <2>2. InLine(e)'
    BY <1>1, <2>1, BehindCommits
  <2>3. OneStep(q, e)
    BY <1>1, <2>1 DEF OneStep, MovingBehind
  <2>4. QED BY <2>2, <2>3
<1>6. QED BY <1>1, <1>2, <1>3, <1>4, <1>5 DEF Fits, Changing

LEMMA CommitOrder ==
  ASSUME OInv, TypeOK', NEW c \in Client, Commit(c)
  PROVE  OInv'
<1>1. /\ req \in [Client -> Request \cup {Idle}] /\ req[c] # Idle /\ Apart
      /\ req' = [d \in Client |->
                   IF d = c \/ (req[d] # Idle /\ Holds(req[d], req[c].gone \cup Swept(req[c]), req[c].old))
                   THEN Idle ELSE req[d]]
  BY DEF OInv, TypeOK, Commit
<1>2. ASSUME NEW o \in Range(req') \ {Idle} PROVE Fits(o)'
  <2>1. PICK d \in Client : o = req'[d] /\ req'[d] # Idle
    BY <1>1 DEF Range
  <2>2. /\ d # c /\ req[d] # Idle /\ o = req[d] /\ o \in Request
        /\ ~ Holds(o, req[c].gone \cup Swept(req[c]), req[c].old)
    BY <1>1, <2>1
  <2>3. (o.old = {} => req[c].heir # None) /\ (req[c].old = {} => o.heir # None)
    BY <1>1, <2>2 DEF Apart
  <2>4. Fits(o)
    BY <2>2, OpenFits
  <2>5. QED BY <2>2, <2>3, <2>4, OthersFit
<1>3. Apart'
  <2> SUFFICES ASSUME NEW d \in Client, NEW f \in Client, d # f,
                      req'[d] # Idle, req'[f] # Idle, req'[d].old = {}
               PROVE  req'[f].heir # None
    BY DEF Apart
  <2>1. req'[d] = req[d] /\ req'[f] = req[f]
    BY <1>1
  <2>2. QED BY <1>1, <2>1 DEF Apart
<1>4. (\E q \in Seq(Section) : InLine(q))'
  <2>1. PICK q : InLine(q)
    BY DEF OInv
  <2>2. PICK e : InLine(e)'
    BY <2>1, CommitLine
  <2>3. Lists(e, section') /\ section' \subseteq Section
    BY <2>2 DEF InLine, TypeOK
  <2>4. Cardinality(section') \in Nat
    BY <2>3, SectionsAssumption, FS_Subset, FS_CardinalityType
  <2>5. e \in Seq(section')
    BY <2>3, <2>4, ListSeq
  <2>6. e \in Seq(Section)
    BY <2>3, <2>5, SeqMonotonic
  <2>7. QED BY <2>2, <2>6
<1>5. QED BY <1>2, <1>3, <1>4 DEF OInv

LEMMA NextOrder ==
  ASSUME OInv, [NextBeside]_vars
  PROVE  OInv'
<1>1. TypeOK'
  BY BesideIsNext, NextType DEF OInv
<1>2. CASE UNCHANGED vars
  <2>1. UNCHANGED <<section, next, req>>
    BY <1>2 DEF vars
  <2>2. \A o \in Range(req') \ {Idle} : Fits(o)'
    BY <2>1, StillFits DEF OInv
  <2>3. Apart'
    BY <2>1 DEF OInv, Apart
  <2>4. QED BY <1>1, <2>1, <2>2, <2>3, StillInLine DEF OInv
<1>3. CASE NextBeside
  <2>1. PICK c \in Client :
          \/ Beside(c, Merging) /\ (AddSection(c) \/ Moves(c))
          \/ Beside(c, Dropping) /\ \E s \in Section : DeleteSection(c, s)
          \/ \E s \in Section : MergeSections(c, s)
          \/ Proceed(c)
    BY <1>3 DEF NextBeside
  <2>2. \A d \in Client : req[d] # Idle /\ req[d].old = {} => req[d].heir = None
    BY OpenFits DEF Fits, Changing, Taking, Adding, MovingFirst, MovingBehind, Moving
  <2>3. ASSUME NEW r, Begin(c, r), Fits(r),
               \A d \in Client \ {c} : req[d] # Idle =>
                 (r.old = {} => req[d].heir # None) /\ (req[d].old = {} => r.heir # None)
        PROVE  OInv'
    BY <1>1, <2>3, Continues DEF Begin
  <2>4. CASE Beside(c, Merging) /\ (AddSection(c) \/ Moves(c))
    <3>1. PICK r : Begin(c, r) /\ Fits(r) /\ r.old = {}
      BY <2>4, AddFits, MovesFits
    <3>2. \A d \in Client \ {c} : req[d] # Idle => req[d].heir # None /\ req[d].old # {}
      BY <2>2, <2>4 DEF Beside, Merging
    <3>3. QED BY <2>3, <3>1, <3>2
  <2>5. CASE Beside(c, Dropping) /\ \E s \in Section : DeleteSection(c, s)
    <3>1. PICK r : Begin(c, r) /\ Fits(r) /\ r.old # {}
      BY <2>5, DropFits
    <3>2. \A d \in Client \ {c} : req[d] # Idle => req[d].old # {}
      BY <2>5 DEF Beside, Dropping
    <3>3. QED BY <2>3, <3>1, <3>2
  <2>6. CASE \E s \in Section : MergeSections(c, s)
    <3>1. PICK r : Begin(c, r) /\ Fits(r) /\ r.old # {} /\ r.heir # None
      BY <2>6, DropFits
    <3>2. QED BY <2>3, <3>1
  <2>7. CASE RemoveFromSequence(c)
    <3>1. PICK r : /\ req' = [req EXCEPT ![c] = r] /\ UNCHANGED <<section, next>>
                   /\ Fits(r) /\ r.old = req[c].old /\ r.heir = req[c].heir
      BY <2>7, UnlinkFits
    <3>2. \A d \in Client \ {c} : req[d] # Idle =>
            (r.old = {} => req[d].heir # None) /\ (req[d].old = {} => r.heir # None)
      BY <2>7, <3>1 DEF OInv, Apart, RemoveFromSequence
    <3>3. QED BY <1>1, <3>1, <3>2, Continues
  <2>8. CASE Commit(c)
    BY <1>1, <2>8, CommitOrder
  <2>9. CASE Abort(c)
    BY <1>1, <2>9, AbortOrder
  <2>10. QED BY <2>1, <2>4, <2>5, <2>6, <2>7, <2>8, <2>9 DEF Proceed
<1>4. QED BY <1>2, <1>3

LEMMA InitOrder == Init => OInv
<1> SUFFICES ASSUME Init PROVE OInv
  OBVIOUS
<1>1. TypeOK
  BY DEF Init, TypeOK
<1>2. section = {} /\ Cardinality(section) = 0
  BY FS_EmptySet DEF Init
<1>3. <<>> \in Seq(Section) /\ InLine(<<>>)
  <2>1. Lists(<<>>, section)
    BY <1>2 DEF Lists
  <2>2. Links(<<>>, section, next)
    BY <1>2 DEF Init, Links, Place
  <2>3. QED BY <2>1, <2>2 DEF InLine
<1>4. Range(req) \ {Idle} = {} /\ Apart
  BY DEF Init, Range, Apart
<1>5. QED BY <1>1, <1>3, <1>4 DEF OInv

LEMMA OrderInv == SpecBeside => []OInv
BY InitOrder, NextOrder, PTL DEF SpecBeside

LEMMA ReadInOrder == OInv => InOrder
BY ListNow DEF OInv

\* Deletions and merges of any number of clients beside each other, and merges
\* beside one upload or one move, whatever each of them has read before the
\* others committed: removeFromSequence and the commits leave one chain of NEXT
\* links through all sections.
THEOREM BesideStaysInOrder == SpecBeside => []InOrder
BY OrderInv, ReadInOrder, PTL

\* The same for each single step: none takes a tradition out of order.
THEOREM BesideKeepsOrder == SpecBeside => OrderKept
BY BesideStaysInOrder, PTL DEF OrderKept

\* Every commit is one change of the list that produceSectionList returns, the
\* change that its request asked for; no other step changes the list.
THEOREM BesideIsList == SpecBeside => ImplementsList
<1>1. Init => AsList!Init
  <2> SUFFICES ASSUME Init PROVE AsList!Init
    OBVIOUS
  <2>1. PICK q : InLine(q)
    BY InitOrder DEF OInv
  <2>2. TheList = q
    BY <2>1, InitOrder, ListNow DEF OInv
  <2>3. q \in Seq(section) /\ Len(q) = 0
    BY <2>1, FS_EmptySet, ListSeq DEF InLine, Init
  <2>4. QED BY <2>2, <2>3 DEF AsList!Init
<1>2. OInv /\ OInv' /\ [NextBeside]_vars => [AsList!Next]_TheList
  <2> SUFFICES ASSUME OInv, OInv', [NextBeside]_vars PROVE [AsList!Next]_TheList
    OBVIOUS
  <2>1. PICK q : InLine(q)
    BY DEF OInv
  <2>2. TheList = q
    BY <2>1, ListNow DEF OInv
  <2>3. CASE \E c \in Client : Commit(c)
    <3>1. PICK e : InLine(e)' /\ OneStep(q, e)
      BY <2>1, <2>3, CommitLine
    <3>2. TheList' = e
      BY <3>1, ListThen DEF OInv
    <3>3. OneStep(TheList, TheList')
      BY <2>2, <3>1, <3>2
    <3>4. AsList!Next
      <4>1. PICK s \in Section :
              LET rest == AsList!TakenOut(TheList, s)
              IN  \/ ~ AsList!Has(s) /\ TheList' = Append(TheList, s)
                  \/ AsList!Has(s) /\ (TheList' = rest \/ TheList' = <<s>> \o rest)
                  \/ \E p \in AsList!ToSet(TheList) \ {s} :
                       /\ AsList!Has(s) /\ AsList!Has(p)
                       /\ TheList' = AsList!InsertAt(rest, At(rest, p) + 1, s)
        BY <3>3 DEF OneStep, AsList!Has
      <4>2. CASE \E p \in AsList!ToSet(TheList) \ {s} : AsList!MoveBehind(s, p)
        <5>1. AsList!ToSet(TheList) \subseteq Section
          BY <2>1, <2>2, Listed DEF OInv, TypeOK
        <5>2. QED BY <4>2, <5>1 DEF AsList!Next
      <4>3. CASE AsList!Upload(s) \/ AsList!TakeOut(s) \/ AsList!MoveFirst(s)
        BY <4>3 DEF AsList!Next
      <4>4. (\E p \in AsList!ToSet(TheList) \ {s} : AsList!MoveBehind(s, p))
              \/ AsList!Upload(s) \/ AsList!TakeOut(s) \/ AsList!MoveFirst(s)
        BY <4>1 DEF At, AsList!Upload, AsList!TakeOut, AsList!MoveFirst, AsList!MoveBehind,
           AsList!At
      <4>5. QED BY <4>2, <4>3, <4>4
    <3>5. QED BY <3>4
  <2>4. CASE UNCHANGED <<section, next>>
    <3>1. TheList' = TheList
      BY <2>4 DEF TheList, Listings, Heads, Behind
    <3>2. QED BY <3>1
  <2>5. QED
    BY <2>3, <2>4 DEF NextBeside, vars, AddSection, Moves, Move, OrderFirst, OrderAfter,
       DeleteSection, MergeSections, Begin, Proceed, RemoveFromSequence, Abort
<1>3. QED BY <1>1, <1>2, OrderInv, PTL DEF SpecBeside, ImplementsList, AsList!Spec


\* One request after the other: uploads, deletions, merges and moves, a section
\* never to where it is, are those of a plain list of sections.
THEOREM SerialIsList ==
  ASSUME \A c, d \in Client : c = d
  PROVE  SpecInOrder => []InOrder /\ ImplementsList
<1>1. [NextInOrder]_vars => [NextBeside]_vars
  BY DEF NextInOrder, NextBeside, Beside, Drop
<1>2. SpecInOrder => SpecBeside
  BY <1>1, PTL DEF SpecInOrder, SpecBeside
<1>3. QED BY <1>2, BesideStaysInOrder, BesideIsList, PTL

=============================================================================
