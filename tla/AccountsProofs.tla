--------------------------- MODULE AccountsProofs ---------------------------
(***************************************************************************)
(* Links join what is there and no tradition has two owners, however many  *)
(* requests run beside each other; and what requests that keep out of each *)
(* other's way preserve.                                                   *)
(***************************************************************************)
EXTENDS AccountsProps, TLAPS

Nodes ==
  /\ DOMAIN user \subseteq UserNode /\ user \in [DOMAIN user -> UserId]
  /\ DOMAIN tradition \subseteq Trad /\ tradition \in [DOMAIN tradition -> Trad \cup FileId]
  /\ owns \subseteq (DOMAIN user) \X (DOMAIN tradition)

\* What a request with open eyes may rely on until it commits.
Sound(r) ==
  /\ r \in Request
  /\ r.links \subseteq owns
  /\ r.step \notin {"give", "deleteTradition"} => r.links = {}
  /\ r.step \in {"createUser", "make", "link"} => r.name \in UserId
  /\ r.step = "deleteUser" => r.node \in DOMAIN user
  /\ r.step = "give" =>
       /\ r.node \in DOMAIN user /\ r.trad \in DOMAIN tradition
       /\ \E m \in UserNode : r.links = {<<m, r.trad>>}
  /\ r.step = "deleteTradition" => r.trad \in DOMAIN tradition /\ r.links = OwnersOf(r.trad)
  /\ r.step = "link" => r.trad \in Trad /\ OwnersOf(r.trad) = {}
  /\ r.step = "save" => r.id \in Trad \cup FileId

\* Nobody else links the tradition that an upload is about to link.
LinksApart == \A c, d \in Client : At(c, "link") /\ At(d, "link") /\ c # d => req[c].trad # req[d].trad

IInv ==
  /\ Nodes /\ OneOwner /\ LinksApart
  /\ req \in [Client -> Request \cup {Idle}]
  /\ \A c \in Client : req[c] # Idle => Sound(req[c])

LEMMA Typed == IInv => TypeOK
BY DEF IInv, Nodes, Sound, TypeOK

LEMMA InitInv == Init => IInv
BY DEF Init, IInv, Nodes, OneOwner, LinksApart, At, Idle

\* A step that changes one request and nothing else.
LEMMA GotoInv ==
  ASSUME IInv, NEW c \in Client, NEW r, Goto(c, r), UNCHANGED <<user, tradition, owns>>,
         r = Idle \/ (Sound(r) /\ r.step # "link")
  PROVE  IInv'
<1>1. Nodes' /\ OneOwner'
  BY DEF IInv, Nodes, OneOwner
<1>2. req' \in [Client -> Request \cup {Idle}]
  BY DEF Goto, IInv, Sound
<1>3. \A d \in Client : req'[d] = IF d = c THEN r ELSE req[d]
  BY DEF Goto, IInv
<1>5. \A d \in Client : (req[d] # Idle => Sound(req[d]))'
  <2> SUFFICES ASSUME NEW d \in Client, req'[d] # Idle PROVE Sound(req[d])'
    OBVIOUS
  <2>1. Sound(IF d = c THEN r ELSE req[d])
    BY <1>3 DEF IInv
  <2>2. QED BY <2>1, <1>3 DEF Sound, OwnersOf
<1>6. LinksApart'
  BY <1>3 DEF LinksApart, At, IInv
<1>7. QED BY <1>1, <1>2, <1>5, <1>6 DEF IInv

\* A step that ends some requests, the others keep what they rely on.
LEMMA EndInv ==
  ASSUME IInv, Nodes', OneOwner', NEW c \in Client,
         DOMAIN req' = Client, req' = [d \in Client |-> req'[d]],
         \A d \in Client : req'[d] = Idle \/ (d # c /\ req'[d] = req[d] /\ (Sound(req[d]) => Sound(req[d])'))
  PROVE  IInv'
<1>1. req' \in [Client -> Request \cup {Idle}]
  BY DEF IInv
<1>2. \A d \in Client : (req[d] # Idle => Sound(req[d]))'
  BY DEF IInv
<1>3. LinksApart'
  BY DEF LinksApart, At, IInv
<1>4. QED BY <1>1, <1>2, <1>3 DEF IInv

LEMMA SendInv ==
  ASSUME IInv, NEW c \in Client, Send(c)
  PROVE  IInv'
<1>1. ASSUME NEW u \in UserId, PutUser(c, u) PROVE IInv'
  <2> DEFINE r == [Ask("createUser") EXCEPT !.name = u]
  <2>1. Sound(r) /\ r.step # "link"
    BY DEF Sound, Request, Ask, Step
  <2>2. Goto(c, r) /\ UNCHANGED <<user, tradition, owns>>
    BY <1>1 DEF PutUser, Begin
  <2> HIDE DEF r
  <2>3. QED BY <2>1, <2>2, GotoInv
<1>2. ASSUME NEW u \in UserId, DeleteUser(c, u) PROVE IInv'
  <2>0. PICK n \in UserNode :
          FoundUser(u, n) /\ Begin(c, [Ask("deleteUser") EXCEPT !.name = u, !.node = n])
    BY <1>2 DEF DeleteUser
  <2> DEFINE r == [Ask("deleteUser") EXCEPT !.name = u, !.node = n]
  <2>1. Sound(r) /\ r.step # "link"
    BY <2>0 DEF Sound, Request, Ask, Step, FoundUser, Users
  <2>2. Goto(c, r) /\ UNCHANGED <<user, tradition, owns>>
    BY <2>0 DEF Begin
  <2> HIDE DEF r
  <2>3. QED BY <2>1, <2>2, GotoInv
<1>3. ASSUME NEW u \in UserId, NEW f \in FileId \cup {Empty, Text}, Upload(c, u, f) PROVE IInv'
  <2> DEFINE r == [Ask("make") EXCEPT !.name = u, !.file = f]
  <2>1. Sound(r) /\ r.step # "link"
    BY DEF Sound, Request, Ask, Step
  <2>2. Goto(c, r) /\ UNCHANGED <<user, tradition, owns>>
    BY <1>3 DEF Upload, Begin
  <2> HIDE DEF r
  <2>3. QED BY <2>1, <2>2, GotoInv
<1>4. ASSUME NEW i \in Trad \cup FileId, DeleteTradition(c, i) PROVE IInv'
  <2>0. PICK t \in Trad : /\ FoundTradition(i, t)
                          /\ Begin(c, [Ask("deleteTradition") EXCEPT !.trad = t, !.links = OwnersOf(t)])
    BY <1>4 DEF DeleteTradition
  <2> DEFINE r == [Ask("deleteTradition") EXCEPT !.trad = t, !.links = OwnersOf(t)]
  <2>1. OwnersOf(t) \subseteq owns /\ owns \subseteq Link /\ t \in DOMAIN tradition
    BY <2>0 DEF OwnersOf, IInv, Nodes, Link, FoundTradition, Traditions
  <2>2. Sound(r) /\ r.step # "link"
    BY <2>1 DEF Sound, Request, Ask, Step
  <2>3. Goto(c, r) /\ UNCHANGED <<user, tradition, owns>>
    BY <2>0 DEF Begin
  <2> HIDE DEF r
  <2>4. QED BY <2>2, <2>3, GotoInv
<1>5. ASSUME NEW i \in Trad \cup FileId, NEW u \in UserId, ChangeOwner(c, i, u) PROVE IInv'
  <2>0. PICK t \in Trad, n \in UserNode :
          /\ FoundTradition(i, t) /\ FoundUser(u, n)
          /\ \E m \in UserNode :
               /\ OwnersOf(t) = {<<m, t>>}
               /\ Begin(c, [Ask("give") EXCEPT !.name = u, !.node = n, !.trad = t, !.links = {<<m, t>>}])
    BY <1>5 DEF ChangeOwner
  <2>1. PICK m \in UserNode :
          /\ OwnersOf(t) = {<<m, t>>}
          /\ Begin(c, [Ask("give") EXCEPT !.name = u, !.node = n, !.trad = t, !.links = {<<m, t>>}])
    BY <2>0
  <2> DEFINE r == [Ask("give") EXCEPT !.name = u, !.node = n, !.trad = t, !.links = {<<m, t>>}]
  <2>2. /\ {<<m, t>>} \subseteq owns /\ {<<m, t>>} \subseteq Link
        /\ t \in DOMAIN tradition /\ n \in DOMAIN user
    BY <2>0, <2>1 DEF OwnersOf, Link, FoundTradition, Traditions, FoundUser, Users
  <2>3. Sound(r) /\ r.step # "link"
    BY <2>2 DEF Sound, Request, Ask, Step
  <2>4. Goto(c, r) /\ UNCHANGED <<user, tradition, owns>>
    BY <2>1 DEF Begin
  <2> HIDE DEF r
  <2>5. QED BY <2>3, <2>4, GotoInv
<1>6. QED BY <1>1, <1>2, <1>3, <1>4, <1>5 DEF Send

LEMMA CreateUserInv ==
  ASSUME IInv, NEW c \in Client, CreateUser(c)
  PROVE  IInv'
<1>1. PICK n \in UserNode \ DOMAIN user :
        user' = [m \in DOMAIN user \cup {n} |-> IF m = n THEN req[c].name ELSE user[m]]
  BY DEF CreateUser
<1>2. Sound(req[c]) /\ req[c].name \in UserId
  BY DEF CreateUser, At, IInv, Sound
<1>3. Nodes' /\ OneOwner'
  BY <1>1, <1>2 DEF CreateUser, IInv, Nodes, OneOwner
<1>4. \A d \in Client : Sound(req[d]) /\ req'[d] = req[d] => Sound(req[d])'
  BY <1>1 DEF CreateUser, Sound, OwnersOf
<1>5. QED BY <1>3, <1>4, EndInv DEF CreateUser, Goto, IInv

LEMMA MakeTraditionInv ==
  ASSUME IInv, NEW c \in Client, MakeTradition(c)
  PROVE  IInv'
<1>1. PICK t \in Trad \ (DOMAIN tradition \cup {req[d].trad : d \in {e \in Client : req[e] # Idle}}) :
        /\ tradition' = [s \in DOMAIN tradition \cup {t} |-> IF s = t THEN t ELSE tradition[s]]
        /\ Goto(c, [req[c] EXCEPT !.step = "link", !.trad = t])
  BY DEF MakeTradition
<1> DEFINE r == [req[c] EXCEPT !.step = "link", !.trad = t]
<1>2. Sound(req[c]) /\ req[c].step = "make"
  BY DEF MakeTradition, At, IInv
<1>3. Nodes' /\ OneOwner'
  BY <1>1 DEF MakeTradition, IInv, Nodes, OneOwner
<1>4. OwnersOf(t) = {} /\ owns' = owns /\ user' = user
  BY <1>1 DEF MakeTradition, IInv, Nodes, OwnersOf
<1>5. /\ r \in Request /\ r.step = "link" /\ r.trad = t /\ r.name \in UserId
      /\ r.links = req[c].links
  BY <1>1, <1>2 DEF Sound, Request, Step
<1>6. req' = [req EXCEPT ![c] = r]
  BY <1>1 DEF Goto
<1> HIDE DEF r
<1>7. \A q : q = r => Sound(q)'
  BY <1>2, <1>4, <1>5, <1>1 DEF Sound, OwnersOf
<1>8. \A d \in Client : req'[d] = IF d = c THEN r ELSE req[d]
  BY <1>6 DEF IInv
<1>9. req' \in [Client -> Request \cup {Idle}]
  BY <1>5, <1>6 DEF IInv
<1>10. \A d \in Client : (req[d] # Idle => Sound(req[d]))'
  <2> SUFFICES ASSUME NEW d \in Client, req'[d] # Idle PROVE Sound(req[d])'
    OBVIOUS
  <2>1. CASE d = c
    BY <2>1, <1>7, <1>8 DEF Sound
  <2>2. CASE d # c
    <3>1. req'[d] = req[d] /\ Sound(req[d])
      BY <2>2, <1>8 DEF IInv
    <3>2. QED BY <3>1, <1>1, <1>4 DEF Sound, OwnersOf
  <2>3. QED BY <2>1, <2>2
<1>11. LinksApart'
  BY <1>1, <1>5, <1>8 DEF LinksApart, At, IInv
<1>12. QED BY <1>3, <1>9, <1>10, <1>11 DEF IInv

LEMMA LinkUserInv ==
  ASSUME IInv, NEW c \in Client, LinkUser(c)
  PROVE  IInv'
<1> DEFINE t == req[c].trad
           r == [req[c] EXCEPT !.step = "parse"]
<1>1. PICK n \in UserNode : FoundUser(req[c].name, n) /\ owns' = owns \cup {<<n, t>>}
  BY DEF LinkUser
<1>2. /\ Sound(req[c]) /\ req[c].step = "link" /\ t \in DOMAIN tradition /\ OwnersOf(t) = {}
      /\ n \in DOMAIN user
  BY <1>1 DEF LinkUser, At, IInv, FoundUser, Users, Sound
<1>3. Nodes' /\ OneOwner'
  BY <1>1, <1>2 DEF LinkUser, IInv, Nodes, OneOwner, OwnersOf
<1>4. r \in Request /\ r.step = "parse" /\ r.links \subseteq owns
  BY <1>2 DEF Sound, Request, Step
<1>5. \A d \in Client : req'[d] =
        IF d = c THEN IF req[c].file = Empty THEN Idle ELSE r
        ELSE IF At(d, "deleteTradition") /\ req[d].trad = t THEN Idle ELSE req[d]
  BY DEF LinkUser
<1> HIDE DEF r
<1>6. req' \in [Client -> Request \cup {Idle}]
  BY <1>4, <1>5 DEF LinkUser, IInv
<1>7. \A d \in Client : (req[d] # Idle => Sound(req[d]))'
  <2> SUFFICES ASSUME NEW d \in Client, req'[d] # Idle PROVE Sound(req[d])'
    OBVIOUS
  <2>1. CASE d = c
    <3>1. req'[d] = r /\ r.links = {}
      BY <2>1, <1>2, <1>4, <1>5 DEF Sound, r
    <3>2. QED BY <1>4, <3>1 DEF Sound
  <2>2. CASE d # c
    <3>1. req'[d] = req[d] /\ Sound(req[d]) /\ ~(At(d, "deleteTradition") /\ req[d].trad = t)
      BY <2>2, <1>5 DEF IInv
    <3>2. req[d].step = "link" => req[d].trad # t
      BY <3>1, <2>2 DEF IInv, LinksApart, At, LinkUser
    <3>3. req[d].step \in {"link", "deleteTradition"} => (OwnersOf(req[d].trad))' = OwnersOf(req[d].trad)
      BY <1>1, <3>1, <3>2 DEF OwnersOf, At
    <3>4. QED BY <1>1, <3>1, <3>3 DEF Sound, LinkUser
  <2>3. QED BY <2>1, <2>2
<1>8. LinksApart'
  BY <1>4, <1>5 DEF LinksApart, At, IInv
<1>9. QED BY <1>3, <1>6, <1>7, <1>8 DEF IInv

\* The requests that end with nothing done.
LEMMA FailInv ==
  ASSUME IInv, NEW c \in Client, LinkFails(c) \/ ParseRefused(c) \/ ParseThrown(c) \/ Abort(c)
  PROVE  IInv'
BY GotoInv DEF LinkFails, ParseRefused, ParseThrown, Abort

LEMMA ParseInv ==
  ASSUME IInv, NEW c \in Client, Parse(c)
  PROVE  IInv'
<1> DEFINE id == IF KeepsId(req[c].file) THEN req[c].file ELSE tradition[req[c].trad]
           r  == [req[c] EXCEPT !.step = "save", !.id = id]
<1>1. Sound(req[c]) /\ req[c].step = "parse" /\ id \in Trad \cup FileId
  BY DEF Parse, At, IInv, Nodes, KeepsId
<1>2. Sound(r) /\ r.step # "link"
  BY <1>1 DEF Sound, Request, Step
<1>3. Goto(c, r) /\ UNCHANGED <<user, tradition, owns>>
  BY DEF Parse
<1> HIDE DEF r
<1>4. QED BY <1>2, <1>3, GotoInv

LEMMA SaveFileInv ==
  ASSUME IInv, NEW c \in Client, SaveFile(c)
  PROVE  IInv'
<1>1. Sound(req[c]) /\ req[c].step = "save" /\ req[c].id \in Trad \cup FileId
  BY DEF SaveFile, At, IInv, Sound
<1>2. Nodes' /\ OneOwner' /\ DOMAIN tradition' = DOMAIN tradition
  BY <1>1 DEF SaveFile, IInv, Nodes, OneOwner
<1>3. \A d \in Client : Sound(req[d]) /\ req'[d] = req[d] => Sound(req[d])'
  BY <1>2 DEF SaveFile, Sound, OwnersOf
<1>4. QED BY <1>2, <1>3, EndInv DEF SaveFile

\* Who has not looked at what is gone now goes on as before.
LEMMA FinishInv ==
  ASSUME IInv, NEW c \in Client, NEW links, NEW nodes, NEW trads, Finish(c, links, nodes, trads),
         Nodes', OneOwner', links \subseteq owns,
         \A d \in Client : /\ d # c /\ req[d] # Idle /\ ~Holds(req[d], links, nodes, trads)
                           /\ req'[d] = req[d] /\ Sound(req[d])
                           => Sound(req[d])'
  PROVE  IInv'
<1>1. \A d \in Client : req'[d] = IF d = c \/ Holds(req[d], links, nodes, trads) THEN Idle ELSE req[d]
  BY DEF Finish
<1>2. req' = [d \in Client |-> req'[d]]
  BY DEF Finish
<1>3. QED BY <1>1, <1>2, EndInv

LEMMA UserDeletedInv ==
  ASSUME IInv, NEW c \in Client, UserDeleted(c)
  PROVE  IInv'
<1> DEFINE n == req[c].node
<1>1. /\ user' = [m \in DOMAIN user \ {n} |-> user[m]]
      /\ owns' = owns \ OwnedBy(n) /\ Finish(c, OwnedBy(n), {n}, {}) /\ tradition' = tradition
  BY DEF UserDeleted
<1>2. Nodes' /\ OneOwner' /\ OwnedBy(n) \subseteq owns
  BY <1>1 DEF IInv, Nodes, OneOwner, OwnedBy
<1>3. ASSUME NEW d \in Client, req[d] # Idle, ~Holds(req[d], OwnedBy(n), {n}, {}),
             req'[d] = req[d], Sound(req[d])
      PROVE  Sound(req[d])'
  <2> DEFINE q == req[d]
  <2>1. q.step \in {"deleteUser", "give", "deleteTradition"} => q.links \cap OwnedBy(n) = {} /\ q.node # n
    BY <1>3 DEF Holds
  <2>2. q.links \cap OwnedBy(n) = {}
    BY <1>3, <2>1 DEF Sound
  <2>3. QED BY <1>1, <1>3, <2>1, <2>2 DEF Sound, OwnersOf
<1>4. QED BY <1>1, <1>2, <1>3, FinishInv

LEMMA GivenInv ==
  ASSUME IInv, NEW c \in Client, Given(c)
  PROVE  IInv'
<1> DEFINE t == req[c].trad
           links == req[c].links
<1>1. PICK m \in UserNode : links = {<<m, t>>}
  BY DEF Given, At, IInv, Sound
<1>2. /\ links \subseteq owns /\ t \in DOMAIN tradition /\ req[c].node \in DOMAIN user
      /\ owns' = (owns \ links) \cup {<<req[c].node, t>>}
      /\ Finish(c, links, {}, {}) /\ UNCHANGED <<user, tradition>>
  BY DEF Given, At, IInv, Sound
<1>3. OwnersOf(t) = links
  BY <1>1, <1>2 DEF IInv, OneOwner, OwnersOf
<1>4. Nodes' /\ OneOwner'
  BY <1>1, <1>2 DEF IInv, Nodes, OneOwner
<1>5. ASSUME NEW d \in Client, d # c, req[d] # Idle, ~Holds(req[d], links, {}, {}),
             req'[d] = req[d], Sound(req[d])
      PROVE  Sound(req[d])'
  <2> DEFINE q == req[d]
  <2>1. q.links \cap links = {}
    BY <1>5 DEF Holds, Sound
  <2>2. q.step \in {"link", "deleteTradition"} => q.trad # t
    BY <1>1, <1>3, <1>5, <2>1 DEF Sound
  <2>3. q.step \in {"link", "deleteTradition"} => (OwnersOf(q.trad))' = OwnersOf(q.trad)
    BY <1>1, <1>2, <1>5, <2>2 DEF OwnersOf
  <2>4. QED BY <1>2, <1>5, <2>1, <2>3 DEF Sound
<1>6. QED BY <1>2, <1>4, <1>5, FinishInv

LEMMA TraditionDeletedInv ==
  ASSUME IInv, NEW c \in Client, TraditionDeleted(c)
  PROVE  IInv'
<1> DEFINE t == req[c].trad
           links == req[c].links
<1>1. /\ links = OwnersOf(t) /\ owns' = owns \ links /\ user' = user
      /\ tradition' = [s \in DOMAIN tradition \ {t} |-> tradition[s]]
      /\ Finish(c, links, {}, {t})
  BY DEF TraditionDeleted, At, IInv, Sound
<1>2. Nodes' /\ OneOwner' /\ links \subseteq owns
  BY <1>1 DEF IInv, Nodes, OneOwner, OwnersOf
<1>3. ASSUME NEW d \in Client, req[d] # Idle, ~Holds(req[d], links, {}, {t}),
             req'[d] = req[d], Sound(req[d])
      PROVE  Sound(req[d])'
  <2> DEFINE q == req[d]
  <2>1. q.links \cap links = {}
    BY <1>3 DEF Holds, Sound
  <2>2. q.step \in {"give", "deleteTradition"} => q.trad # t
    BY <1>3 DEF Holds
  <2>3. QED BY <1>1, <1>3, <2>1, <2>2 DEF Sound, OwnersOf
<1>4. QED BY <1>1, <1>2, <1>3, FinishInv

LEMMA RestartInv == IInv /\ Restart => IInv'
BY DEF Restart, IInv, Nodes, OneOwner, LinksApart, At

LEMMA StepInv == IInv /\ [Next]_vars => IInv'
<1> SUFFICES ASSUME IInv, [Next]_vars PROVE IInv'
  OBVIOUS
<1>1. CASE Restart
  BY <1>1, RestartInv
<1>2. ASSUME NEW c \in Client, Send(c) \/ Proceed(c) \/ Abort(c) PROVE IInv'
  BY <1>2, SendInv, CreateUserInv, MakeTraditionInv, LinkUserInv, FailInv, ParseInv, SaveFileInv,
     UserDeletedInv, GivenInv, TraditionDeletedInv DEF Proceed
<1>3. CASE UNCHANGED vars
  BY <1>3 DEF vars, IInv, Nodes, OneOwner, LinksApart, At, Sound, OwnersOf
<1>4. QED BY <1>1, <1>2, <1>3 DEF Next

THEOREM Inductive == Spec => []IInv
BY InitInv, StepInv, PTL DEF Spec

\* Links join users and traditions that are there, and what a request has
\* looked up stays until it commits, for any number of users, traditions and
\* requests beside each other (deleteUser, deleteTradition, changeTraditionMetadata).
THEOREM TypeCorrect == Spec => []TypeOK
BY Inductive, Typed, PTL

\* No tradition ever has two owners, whatever runs beside an upload or a change
\* of the owner (linkUserToTradition, changeTraditionMetadata).
THEOREM OneOwnerAlways == Spec => []OneOwner
<1>1. IInv => OneOwner
  BY DEF IInv
<1>2. QED BY <1>1, Inductive, PTL

-----------------------------------------------------------------------------
(* Requests that keep out of each other's way.                              *)

UsersUnique == \A m, n \in DOMAIN user : user[m] = user[n] => m = n

\* Nobody makes the user that this request makes, and nobody makes an owner of
\* the user that it deletes.
UserClear(c) ==
  /\ At(c, "createUser") =>
       /\ req[c].name \in UserId /\ Users(req[c].name) = {}
       /\ \A d \in Client : d # c /\ At(d, "createUser") => req[d].name # req[c].name
  /\ At(c, "deleteUser") =>
       /\ req[c].node \in DOMAIN user /\ user[req[c].node] = req[c].name
       /\ OwnedBy(req[c].node) = {}
       /\ \A d \in Client : d # c /\ req[d] # Idle => req[d].name # req[c].name
  /\ At(c, "give") => req[c].node \in DOMAIN user /\ user[req[c].node] = req[c].name

UserInv ==
  /\ user \in [DOMAIN user -> UserId] /\ UsersUnique
  /\ \A c \in Client : UserClear(c)

UserSteps == {"createUser", "deleteUser", "give"}

\* A request goes on or ends, users stay or go, and nobody who is about to be
\* deleted has become an owner.
LEMMA UserKept ==
  ASSUME UserInv, NEW c \in Client, DOMAIN user' \subseteq DOMAIN user,
         user' = [m \in DOMAIN user' |-> user[m]],
         \A d \in Client : \/ req'[d] = Idle \/ req'[d] = req[d]
                           \/ /\ d = c /\ req[d] # Idle /\ req'[d].name = req[d].name
                              /\ req'[d].step \notin UserSteps,
         \A d \in Client : /\ At(d, "deleteUser")' => req[d].node \in DOMAIN user' /\ (OwnedBy(req[d].node))' = {}
                           /\ At(d, "give")' => req[d].node \in DOMAIN user'
  PROVE  UserInv'
<1>1. user' \in [DOMAIN user' -> UserId] /\ UsersUnique'
  BY DEF UserInv, UsersUnique
<1>2. ASSUME NEW d \in Client PROVE UserClear(d)'
  <2>0. CASE req'[d] = Idle \/ (req'[d] # Idle /\ req'[d].step \notin UserSteps)
    BY <2>0 DEF UserClear, At, UserSteps
  <2>1. CASE req'[d] = req[d] /\ req[d] # Idle
    <3>1. UserClear(d)
      BY DEF UserInv
    <3>2. At(d, "createUser")' => (Users(req[d].name))' = {}
      BY <2>1, <3>1 DEF UserClear, At, Users
    <3>3. \A e \in Client : req'[e] # Idle =>
            /\ req[e] # Idle /\ req'[e].name = req[e].name
            /\ At(e, "createUser")' => At(e, "createUser")
      BY DEF At, UserSteps
    <3>4. At(d, "deleteUser")' => (OwnedBy(req[d].node))' = {}
      BY <2>1
    <3>5. QED BY <2>1, <3>1, <3>2, <3>3, <3>4 DEF UserClear, At
  <2>2. QED BY <2>0, <2>1
<1>3. QED BY <1>1, <1>2 DEF UserInv

LEMMA UserSend ==
  ASSUME IInv, UserInv, NEW c \in Client, SendApart(c)
  PROVE  UserInv'
<1>0. \A r : Begin(c, r) => /\ req[c] = Idle /\ UNCHANGED <<user, owns>>
                            /\ \A d \in Client : req'[d] = IF d = c THEN r ELSE req[d]
  BY DEF Begin, Goto, IInv
<1>1. ASSUME NEW u \in UserId, PutUser(c, u), No(LAMBDA r : r.step = "createUser" /\ r.name = u)
      PROVE  UserInv'
  <2> DEFINE r == [Ask("createUser") EXCEPT !.name = u]
  <2>1. Begin(c, r) /\ Users(u) = {} /\ r.step = "createUser" /\ r.name = u
    BY <1>1 DEF PutUser, Unknown, Ask
  <2>2. \A d \in Client : At(d, "createUser") => req[d].name # u
    BY <1>1 DEF No, At
  <2>3. \A d \in Client : At(d, "deleteUser") => req[d].name # u
    BY <2>1 DEF UserInv, UserClear, Users
  <2> HIDE DEF r
  <2>4. ASSUME NEW d \in Client PROVE UserClear(d)'
    BY <1>0, <2>1, <2>2, <2>3 DEF UserInv, UserClear, At, Users, OwnedBy
  <2>5. QED BY <1>0, <2>1, <2>4 DEF UserInv, UsersUnique
<1>2. ASSUME NEW u \in UserId, DeleteUser(c, u), No(LAMBDA r : r.name = u)
      PROVE  UserInv'
  <2>0. PICK n \in UserNode : /\ FoundUser(u, n) /\ OwnsNothing(n)
                              /\ Begin(c, [Ask("deleteUser") EXCEPT !.name = u, !.node = n])
    BY <1>2 DEF DeleteUser
  <2> DEFINE r == [Ask("deleteUser") EXCEPT !.name = u, !.node = n]
  <2>1. Begin(c, r) /\ r.step = "deleteUser" /\ r.name = u /\ r.node = n
    BY <2>0 DEF Ask
  <2>2. n \in DOMAIN user /\ user[n] = u /\ OwnedBy(n) = {}
    BY <2>0 DEF FoundUser, Users, OwnsNothing
  <2>3. \A d \in Client : req[d] # Idle => req[d].name # u
    BY <1>2 DEF No
  <2> HIDE DEF r
  <2>4. ASSUME NEW d \in Client PROVE UserClear(d)'
    BY <1>0, <2>1, <2>2, <2>3 DEF UserInv, UserClear, At, Users, OwnedBy
  <2>5. QED BY <1>0, <2>1, <2>4 DEF UserInv, UsersUnique
<1>3. ASSUME NEW r, Begin(c, r), r.step \notin UserSteps \/ (r.step = "give" /\ r.node \in DOMAIN user /\ user[r.node] = r.name),
             \A d \in Client : At(d, "deleteUser") => req[d].name # r.name
      PROVE  UserInv'
  <2>1. ASSUME NEW d \in Client PROVE UserClear(d)'
    BY <1>0, <1>3 DEF UserInv, UserClear, At, Users, OwnedBy, UserSteps
  <2>2. QED BY <1>0, <1>3, <2>1 DEF UserInv, UsersUnique
<1>4. ASSUME NEW u \in UserId, NEW f \in FileId \cup {Empty, Text}, Upload(c, u, f),
             No(LAMBDA r : r.step = "deleteUser" /\ r.name = u)
      PROVE  UserInv'
  <2> DEFINE r == [Ask("make") EXCEPT !.name = u, !.file = f]
  <2>1. Begin(c, r) /\ r.step = "make" /\ r.name = u
    BY <1>4 DEF Upload, Ask
  <2>2. \A d \in Client : At(d, "deleteUser") => req[d].name # u
    BY <1>4 DEF No, At
  <2> HIDE DEF r
  <2>3. QED BY <1>3, <2>1, <2>2 DEF UserSteps
<1>5. ASSUME NEW u \in UserId, NEW i \in Trad \cup FileId, ChangeOwner(c, i, u),
             No(LAMBDA r : r.step = "deleteUser" /\ r.name = u)
      PROVE  UserInv'
  <2>0. PICK t \in Trad, n \in UserNode, m \in UserNode :
          /\ FoundUser(u, n)
          /\ Begin(c, [Ask("give") EXCEPT !.name = u, !.node = n, !.trad = t, !.links = {<<m, t>>}])
    BY <1>5 DEF ChangeOwner
  <2> DEFINE r == [Ask("give") EXCEPT !.name = u, !.node = n, !.trad = t, !.links = {<<m, t>>}]
  <2>1. Begin(c, r) /\ r.step = "give" /\ r.name = u /\ r.node = n /\ n \in DOMAIN user /\ user[n] = u
    BY <2>0 DEF Ask, FoundUser, Users
  <2>2. \A d \in Client : At(d, "deleteUser") => req[d].name # u
    BY <1>5 DEF No, At
  <2> HIDE DEF r
  <2>3. QED BY <1>3, <2>1, <2>2
<1>6. ASSUME NEW i \in Trad \cup FileId, DeleteTradition(c, i) PROVE UserInv'
  <2>0. PICK t \in Trad : Begin(c, [Ask("deleteTradition") EXCEPT !.trad = t, !.links = OwnersOf(t)])
    BY <1>6 DEF DeleteTradition
  <2> DEFINE r == [Ask("deleteTradition") EXCEPT !.trad = t, !.links = OwnersOf(t)]
  <2>1. Begin(c, r) /\ r.step = "deleteTradition" /\ r.name = None
    BY <2>0 DEF Ask
  <2>2. \A d \in Client : At(d, "deleteUser") => req[d].name # None
    BY AccountsAssumption DEF UserInv, UserClear
  <2> HIDE DEF r
  <2>3. QED BY <1>3, <2>1, <2>2 DEF UserSteps
<1>7. QED BY <1>1, <1>2, <1>4, <1>5, <1>6 DEF SendApart

LEMMA UserProceed ==
  ASSUME IInv, UserInv, NEW c \in Client, Proceed(c) \/ Abort(c) \/ Restart
  PROVE  UserInv'
<1>0. user = [m \in DOMAIN user |-> user[m]] /\ DOMAIN req = Client
  BY DEF UserInv, IInv
<1>1. \A d \in Client : UserClear(d)
  BY DEF UserInv
<1>2. CASE CreateUser(c)
  <2>1. PICK n \in UserNode \ DOMAIN user :
          user' = [m \in DOMAIN user \cup {n} |-> IF m = n THEN req[c].name ELSE user[m]]
    BY <1>2 DEF CreateUser
  <2>2. Users(req[c].name) = {} /\ req[c].name \in UserId
    BY <1>1, <1>2 DEF CreateUser, UserClear
  <2>3. user' \in [DOMAIN user' -> UserId] /\ UsersUnique'
    BY <2>1, <2>2 DEF UserInv, UsersUnique, Users
  <2>4. ASSUME NEW d \in Client PROVE UserClear(d)'
    <3>1. \A e \in Client : req'[e] = IF e = c THEN Idle ELSE req[e]
      BY <1>0, <1>2 DEF CreateUser, Goto
    <3>2. CASE d = c
      BY <3>1, <3>2 DEF UserClear, At
    <3>3. CASE d # c
      <4>1. At(d, "createUser") => (Users(req[d].name))' = {}
        BY <1>1, <1>2, <2>1, <3>1, <3>3 DEF UserClear, Users, CreateUser
      <4>2. QED BY <1>1, <1>2, <2>1, <3>1, <3>3, <4>1 DEF UserClear, At, OwnedBy, CreateUser
    <3>4. QED BY <3>2, <3>3
  <2>5. QED BY <2>3, <2>4 DEF UserInv
<1>3. CASE MakeTradition(c) \/ Parse(c) \/ LinkFails(c) \/ ParseRefused(c) \/ ParseThrown(c) \/ Abort(c)
  <2>1. UNCHANGED <<user, owns>> /\ req[c] # Idle
    BY <1>3 DEF MakeTradition, Parse, LinkFails, ParseRefused, ParseThrown, Abort, At
  <2>2. \A d \in Client : \/ req'[d] = Idle \/ req'[d] = req[d]
                          \/ /\ d = c /\ req'[d].name = req[d].name
                             /\ req'[d].step \in {"link", "save"}
    <3>1. req[c] \in Request /\ req \in [Client -> Request \cup {Idle}]
      BY <2>1 DEF IInv, Sound
    <3>2. CASE MakeTradition(c)
      BY <3>1, <3>2 DEF MakeTradition, Goto, Request
    <3>3. CASE Parse(c)
      BY <3>1, <3>3 DEF Parse, Goto, Request
    <3>4. CASE LinkFails(c) \/ ParseRefused(c) \/ ParseThrown(c) \/ Abort(c)
      BY <3>1, <3>4 DEF LinkFails, ParseRefused, ParseThrown, Abort, Goto
    <3>5. QED BY <1>3, <3>2, <3>3, <3>4
  <2>3. \A d \in Client : At(d, "deleteUser")' \/ At(d, "give")' => req'[d] = req[d] /\ req[d] # Idle
    BY <2>2 DEF At
  <2>4. QED BY <1>0, <1>1, <2>1, <2>2, <2>3, UserKept DEF UserClear, At, OwnedBy, UserSteps
<1>4. CASE LinkUser(c)
  <2>1. PICK n \in UserNode : FoundUser(req[c].name, n) /\ owns' = owns \cup {<<n, req[c].trad>>}
    BY <1>4 DEF LinkUser
  <2>2. \A d \in Client : \/ req'[d] = Idle \/ req'[d] = req[d]
                          \/ /\ d = c /\ req'[d].name = req[d].name /\ req'[d].step = "parse"
    BY <1>4 DEF LinkUser, At, IInv, Sound, Request
  <2>3. UNCHANGED user /\ req[c] # Idle /\ req[c].step = "link"
    BY <1>4 DEF LinkUser, At
  <2>4. \A d \in Client : At(d, "deleteUser")' \/ At(d, "give")' => req'[d] = req[d] /\ req[d] # Idle
    BY <2>2 DEF At
  <2>5. \A d \in Client : At(d, "deleteUser") => req[d].node # n
    BY <1>1, <2>1, <2>3 DEF UserClear, FoundUser, Users, At
  <2>6. \A d \in Client : At(d, "deleteUser")' => (OwnedBy(req[d].node))' = {}
    BY <1>1, <2>1, <2>4, <2>5 DEF UserClear, OwnedBy, At
  <2>7. QED BY <1>0, <1>1, <2>2, <2>3, <2>4, <2>6, UserKept DEF UserClear, At, UserSteps
<1>5. CASE SaveFile(c) \/ TraditionDeleted(c) \/ Restart
  <2>1. UNCHANGED user /\ owns' \subseteq owns
    BY <1>5 DEF SaveFile, TraditionDeleted, Restart
  <2>2. \A d \in Client : req'[d] = Idle \/ req'[d] = req[d]
    BY <1>5 DEF SaveFile, TraditionDeleted, Restart, Finish
  <2>3. \A d \in Client : At(d, "deleteUser")' \/ At(d, "give")' => req'[d] = req[d] /\ req[d] # Idle
    BY <2>2 DEF At
  <2>4. \A d \in Client : At(d, "deleteUser")' => (OwnedBy(req[d].node))' = {}
    BY <1>1, <2>1, <2>3 DEF UserClear, OwnedBy, At
  <2>5. QED BY <1>0, <1>1, <2>1, <2>2, <2>3, <2>4, UserKept DEF UserClear, At
<1>6. CASE UserDeleted(c)
  <2> DEFINE n == req[c].node
  <2>1. /\ user' = [m \in DOMAIN user \ {n} |-> user[m]]
        /\ owns' = owns \ OwnedBy(n) /\ Finish(c, OwnedBy(n), {n}, {})
    BY <1>6 DEF UserDeleted
  <2>2. \A d \in Client : req'[d] = Idle \/ (req'[d] = req[d] /\ ~Holds(req[d], OwnedBy(n), {n}, {}))
    BY <2>1 DEF Finish
  <2>3. \A d \in Client : At(d, "deleteUser")' \/ At(d, "give")' =>
          req'[d] = req[d] /\ req[d] # Idle /\ req[d].node # n
    BY <2>2 DEF At, Holds
  <2>4. \A d \in Client : At(d, "deleteUser")' => (OwnedBy(req[d].node))' = {}
    BY <1>1, <2>1, <2>3 DEF UserClear, OwnedBy, At
  <2>5. \A d \in Client : At(d, "deleteUser")' \/ At(d, "give")' => req[d].node \in DOMAIN user'
    BY <1>1, <2>1, <2>3 DEF UserClear, At
  <2>6. user' = [m \in DOMAIN user' |-> user[m]] /\ DOMAIN user' \subseteq DOMAIN user
    BY <2>1
  <2>7. \A d \in Client : req'[d] = Idle \/ req'[d] = req[d]
    BY <2>2
  <2>8. \A d \in Client : At(d, "deleteUser")' \/ At(d, "give")' => (req[d].node)' = req[d].node
    BY <2>3
  <2> HIDE DEF n
  <2>9. QED BY <2>4, <2>5, <2>6, <2>7, <2>8, UserKept
<1>7. CASE Given(c)
  <2> DEFINE t == req[c].trad
             n == req[c].node
  <2>1. /\ owns' = (owns \ req[c].links) \cup {<<n, t>>} /\ Finish(c, req[c].links, {}, {})
        /\ UNCHANGED user /\ At(c, "give")
    BY <1>7 DEF Given
  <2>2. \A d \in Client : req'[d] = Idle \/ (d # c /\ req'[d] = req[d])
    BY <2>1 DEF Finish
  <2>3. \A d \in Client : At(d, "deleteUser")' \/ At(d, "give")' => d # c /\ req'[d] = req[d] /\ req[d] # Idle
    BY <2>2 DEF At
  <2>4. user[n] = req[c].name /\ req[c] # Idle
    BY <1>1, <2>1 DEF UserClear, At
  <2>5. \A d \in Client : d # c /\ At(d, "deleteUser") => req[d].node # n
    BY <1>1, <2>4 DEF UserClear
  <2>6. \A d \in Client : At(d, "deleteUser")' => (OwnedBy(req[d].node))' = {}
    BY <1>1, <2>1, <2>3, <2>5 DEF UserClear, OwnedBy, At
  <2>7. QED BY <1>0, <1>1, <2>1, <2>2, <2>3, <2>6, UserKept DEF UserClear, At
<1>8. QED BY <1>2, <1>3, <1>4, <1>5, <1>6, <1>7 DEF Proceed

TraditionsUnique == \A s, t \in DOMAIN tradition : tradition[s] = tradition[t] => s = t

UploadSteps == {"link", "parse", "save"}
Uploading(c) == req[c] # Idle /\ req[c].step \in UploadSteps
Importing(c) == req[c] # Idle /\ req[c].file \in FileId

\* Until its file is saved, a tradition is its own id; nobody else saves a file
\* into it, and nobody else imports the file.
TradClear(c) ==
  /\ Uploading(c) =>
       /\ req[c].trad \in Trad
       /\ req[c].trad \in DOMAIN tradition => tradition[req[c].trad] = req[c].trad
       /\ \A d \in Client : d # c /\ Uploading(d) => req[d].trad # req[c].trad
  /\ At(c, "save") => \/ req[c].id = req[c].trad
                      \/ req[c].id \in FileId /\ req[c].id = req[c].file /\ Traditions(req[c].id) = {}
  /\ Importing(c) => \A d \in Client : d # c /\ Importing(d) => req[d].file # req[c].file

TradInv ==
  /\ TraditionsUnique
  /\ \A t \in DOMAIN tradition : t \in Trad /\ tradition[t] \in FileId \cup {t}
  /\ \A c \in Client : TradClear(c)

\* Traditions stay or go, and requests end, or begin one that saves nothing yet.
LEMMA TradKept ==
  ASSUME TradInv, DOMAIN tradition' \subseteq DOMAIN tradition,
         \A t \in DOMAIN tradition' : tradition'[t] = tradition[t],
         \A d \in Client : \/ req'[d] = Idle \/ req'[d] = req[d]
                           \/ /\ req'[d].step \notin UploadSteps
                              /\ Importing(d)' => \A e \in Client : e # d /\ Importing(e)' =>
                                                    req'[e].file # req'[d].file
                           \/ /\ req[d] # Idle /\ req[d].step = "link" /\ req'[d].step = "parse"
                              /\ req'[d].trad = req[d].trad /\ req'[d].file = req[d].file
  PROVE  TradInv'
<1>1. TraditionsUnique' /\ \A t \in DOMAIN tradition' : t \in Trad /\ tradition'[t] \in FileId \cup {t}
  BY DEF TradInv, TraditionsUnique
<1>2. \A d \in Client : Uploading(d)' => Uploading(d) /\ req'[d].trad = req[d].trad
  BY DEF Uploading, UploadSteps
<1>3. \A d \in Client : At(d, "save")' => req'[d] = req[d] /\ req[d] # Idle /\ req[d].step = "save"
  BY DEF At, UploadSteps
<1>4. ASSUME NEW c \in Client PROVE TradClear(c)'
  <2>1. TradClear(c)
    BY DEF TradInv
  <2>2. Uploading(c)' => /\ req'[c].trad \in Trad
                         /\ req'[c].trad \in DOMAIN tradition' => tradition'[req'[c].trad] = req'[c].trad
                         /\ \A d \in Client : d # c /\ Uploading(d)' => req'[d].trad # req'[c].trad
    BY <1>2, <2>1 DEF TradClear
  <2>3. At(c, "save")' => \/ req'[c].id = req'[c].trad
                          \/ /\ req'[c].id \in FileId /\ req'[c].id = req'[c].file
                             /\ (Traditions(req[c].id))' = {}
    BY <1>3, <2>1 DEF TradClear, Traditions, At
  <2>4. Importing(c)' => \A d \in Client : d # c /\ Importing(d)' => req'[d].file # req'[c].file
    <3> SUFFICES ASSUME Importing(c)', NEW d \in Client, d # c, Importing(d)'
                 PROVE  req'[d].file # req'[c].file
      OBVIOUS
    <3>1. \/ \A e \in Client : e # c /\ Importing(e)' => req'[e].file # req'[c].file
          \/ \A e \in Client : e # d /\ Importing(e)' => req'[e].file # req'[d].file
          \/ Importing(c) /\ Importing(d) /\ req'[c].file = req[c].file /\ req'[d].file = req[d].file
      BY DEF Importing
    <3>2. QED BY <2>1, <3>1 DEF TradClear
  <2>5. QED BY <2>2, <2>3, <2>4 DEF TradClear
<1>5. QED BY <1>1, <1>4 DEF TradInv

LEMMA TradSend ==
  ASSUME IInv, TradInv, NEW c \in Client, SendApart(c)
  PROVE  TradInv'
<1>0. \A r : Begin(c, r) => /\ req[c] = Idle /\ UNCHANGED tradition
                            /\ \A d \in Client : req'[d] = IF d = c THEN r ELSE req[d]
  BY DEF Begin, Goto, IInv
<1>1. ASSUME NEW r, Begin(c, r), r.step \notin UploadSteps,
             r.file \in FileId => \A d \in Client : req[d] # Idle => req[d].file # r.file
      PROVE  TradInv'
  <2>1. Importing(c)' => \A e \in Client : e # c /\ Importing(e)' => req'[e].file # req'[c].file
    BY <1>0, <1>1 DEF Importing
  <2>2. QED BY <1>0, <1>1, <2>1, TradKept
<1>2. ASSUME NEW u \in UserId, NEW f \in FileId \cup {Empty, Text}, Upload(c, u, f),
             No(LAMBDA r : f \in FileId /\ r.file = f)
      PROVE  TradInv'
  <2> DEFINE r == [Ask("make") EXCEPT !.name = u, !.file = f]
  <2>1. Begin(c, r) /\ r.step = "make" /\ r.file = f
    BY <1>2 DEF Upload, Ask
  <2>2. f \in FileId => \A d \in Client : req[d] # Idle => req[d].file # f
    BY <1>2 DEF No
  <2> HIDE DEF r
  <2>3. QED BY <1>1, <2>1, <2>2 DEF UploadSteps
<1>3. ASSUME NEW r, Begin(c, r), r.step \in {"createUser", "deleteUser", "give", "deleteTradition"},
             r.file = None
      PROVE  TradInv'
  BY <1>1, <1>3, AccountsAssumption DEF UploadSteps
<1>4. ASSUME NEW u \in UserId, PutUser(c, u) PROVE TradInv'
  BY <1>3, <1>4 DEF PutUser, Ask
<1>5. ASSUME NEW u \in UserId, DeleteUser(c, u) PROVE TradInv'
  BY <1>3, <1>5 DEF DeleteUser, Ask
<1>6. ASSUME NEW u \in UserId, NEW i \in Trad \cup FileId, ChangeOwner(c, i, u) PROVE TradInv'
  BY <1>3, <1>6 DEF ChangeOwner, Ask
<1>7. ASSUME NEW i \in Trad \cup FileId, DeleteTradition(c, i) PROVE TradInv'
  BY <1>3, <1>7 DEF DeleteTradition, Ask
<1>8. QED BY <1>2, <1>4, <1>5, <1>6, <1>7 DEF SendApart

LEMMA TradProceed ==
  ASSUME IInv, TradInv, NEW c \in Client, Proceed(c) \/ Abort(c) \/ Restart
  PROVE  TradInv'
<1>0. req \in [Client -> Request \cup {Idle}]
  BY DEF IInv
<1>1. \A d \in Client : TradClear(d)
  BY DEF TradInv
<1>2. CASE MakeTradition(c)
  <2>1. PICK t \in Trad \ (DOMAIN tradition \cup {req[d].trad : d \in {e \in Client : req[e] # Idle}}) :
          /\ tradition' = [s \in DOMAIN tradition \cup {t} |-> IF s = t THEN t ELSE tradition[s]]
          /\ Goto(c, [req[c] EXCEPT !.step = "link", !.trad = t])
    BY <1>2 DEF MakeTradition
  <2> DEFINE r == [req[c] EXCEPT !.step = "link", !.trad = t]
  <2>2. req[c] # Idle /\ req[c] \in Request
    BY <1>0, <1>2 DEF MakeTradition, At
  <2>3. r.step = "link" /\ r.trad = t /\ r.file = req[c].file
    BY <1>0, <2>2 DEF Request, Idle, IInv, Sound
  <2>4. \A d \in Client : req'[d] = IF d = c THEN r ELSE req[d]
    BY <1>0, <2>1 DEF Goto
  <2> HIDE DEF r
  <2>5. TraditionsUnique' /\ \A s \in DOMAIN tradition' : s \in Trad /\ tradition'[s] \in FileId \cup {s}
    BY <2>1, AccountsAssumption DEF TradInv, TraditionsUnique
  <2>6. ASSUME NEW d \in Client PROVE TradClear(d)'
    <3>1. \A e \in Client : req[e] # Idle => req[e].trad # t
      BY <2>1
    <3>2. CASE d = c
      BY <1>1, <2>1, <2>2, <2>3, <2>4, <3>1, <3>2 DEF TradClear, Uploading, Importing, At
    <3>3. CASE d # c
      <4>1. At(d, "save")' => At(d, "save") /\ req'[d] = req[d]
        BY <2>4, <3>3 DEF At
      <4>2. At(d, "save") /\ req[d].id \in FileId /\ Traditions(req[d].id) = {}
              => (Traditions(req[d].id))' = {}
        BY <2>1, <2>4, <3>3, AccountsAssumption DEF Traditions
      <4>3. Uploading(d)' => Uploading(d) /\ req'[d] = req[d] /\ req[d].trad # t
        BY <2>4, <3>1, <3>3 DEF Uploading
      <4>4. Uploading(d)' => /\ req'[d].trad \in Trad
                             /\ req'[d].trad \in DOMAIN tradition' => tradition'[req'[d].trad] = req'[d].trad
                             /\ \A e \in Client : e # d /\ Uploading(e)' => req'[e].trad # req'[d].trad
        BY <1>1, <2>1, <2>3, <2>4, <4>3 DEF TradClear, Uploading
      <4>5. Importing(d)' => \A e \in Client : e # d /\ Importing(e)' => req'[e].file # req'[d].file
        BY <1>1, <2>2, <2>3, <2>4, <3>3 DEF TradClear, Importing
      <4>6. QED BY <1>1, <4>1, <4>2, <4>4, <4>5 DEF TradClear
    <3>4. QED BY <3>2, <3>3
  <2>7. QED BY <2>5, <2>6 DEF TradInv
<1>3. CASE LinkUser(c)
  <2>1. \A d \in Client : \/ req'[d] = Idle \/ req'[d] = req[d]
                          \/ /\ req[d] # Idle /\ req[d].step = "link" /\ req'[d].step = "parse"
                             /\ req'[d].trad = req[d].trad /\ req'[d].file = req[d].file
    BY <1>0, <1>3 DEF LinkUser, At, Request, IInv, Sound
  <2>2. UNCHANGED tradition
    BY <1>3 DEF LinkUser
  <2>3. QED BY <2>1, <2>2, TradKept
<1>4. CASE Parse(c)
  <2> DEFINE id == IF KeepsId(req[c].file) THEN req[c].file ELSE tradition[req[c].trad]
             r  == [req[c] EXCEPT !.step = "save", !.id = id]
  <2>1. /\ req[c] # Idle /\ req[c].step = "parse" /\ req[c].trad \in DOMAIN tradition
        /\ UNCHANGED tradition
    BY <1>4 DEF Parse, At
  <2>2. r.step = "save" /\ r.trad = req[c].trad /\ r.file = req[c].file /\ r.id = id
    BY <1>0, <2>1 DEF Request, IInv, Sound, Idle
  <2>3. \A d \in Client : req'[d] = IF d = c THEN r ELSE req[d]
    BY <1>0, <1>4 DEF Parse, Goto
  <2>4. \/ id = r.trad
        \/ id \in FileId /\ id = r.file /\ Traditions(id) = {}
    BY <1>1, <2>1, <2>2 DEF TradClear, Uploading, UploadSteps, KeepsId
  <2> HIDE DEF id, r
  <2>5. ASSUME NEW d \in Client PROVE TradClear(d)'
    <3>1. \A e \in Client : /\ Uploading(e)' => Uploading(e) /\ req'[e].trad = req[e].trad
                            /\ Importing(e)' => Importing(e) /\ req'[e].file = req[e].file
      BY <2>1, <2>2, <2>3 DEF Uploading, UploadSteps, Importing
    <3>2. At(d, "save")' => \/ req'[d].id = req'[d].trad
                            \/ /\ req'[d].id \in FileId /\ req'[d].id = req'[d].file
                               /\ (Traditions(req[d].id))' = {}
      BY <1>1, <2>1, <2>2, <2>3, <2>4 DEF TradClear, Traditions, At
    <3>3. QED BY <1>1, <2>1, <3>1, <3>2 DEF TradClear
  <2>6. QED BY <2>1, <2>5 DEF TradInv, TraditionsUnique
<1>5. CASE SaveFile(c)
  <2> DEFINE t == req[c].trad
             id == req[c].id
  <2>1. /\ req[c] # Idle /\ req[c].step = "save" /\ t \in DOMAIN tradition
        /\ tradition' = [tradition EXCEPT ![t] = id]
        /\ \A d \in Client : req'[d] = Idle \/ (req'[d] = req[d] /\ d # c)
    BY <1>5 DEF SaveFile, At
  <2>2. \/ id = t
        \/ id \in FileId /\ id = req[c].file /\ Traditions(id) = {}
    BY <1>1, <2>1 DEF TradClear, At
  <2>3. t \in Trad /\ tradition[t] = t
    BY <1>1, <2>1 DEF TradClear, Uploading, UploadSteps
  <2> HIDE DEF t, id
  <2>4. DOMAIN tradition' = DOMAIN tradition /\ \A s \in DOMAIN tradition : tradition'[s] = IF s = t THEN id ELSE tradition[s]
    BY <2>1
  <2>5. \A s \in DOMAIN tradition' : s \in Trad /\ tradition'[s] \in FileId \cup {s}
    BY <2>2, <2>4 DEF TradInv
  <2>6. TraditionsUnique'
    BY <2>2, <2>3, <2>4, AccountsAssumption DEF TradInv, TraditionsUnique, Traditions
  <2>7. ASSUME NEW d \in Client PROVE TradClear(d)'
    <3>1. CASE req'[d] = Idle
      BY <3>1 DEF TradClear, Uploading, Importing, At
    <3>2. CASE req'[d] = req[d] /\ d # c /\ req[d] # Idle
      <4>1. \A e \in Client : /\ Uploading(e)' => Uploading(e) /\ req'[e] = req[e]
                              /\ Importing(e)' => Importing(e) /\ req'[e] = req[e]
        BY <2>1 DEF Uploading, Importing
      <4>2. Uploading(d)' => req[d].trad # t
        BY <1>1, <2>1, <3>2, <4>1 DEF TradClear, Uploading, UploadSteps, t
      <4>3. At(d, "save") /\ req[d].id \in FileId /\ req[d].id = req[d].file => req[d].id # id
        BY <1>1, <2>1, <2>2, <2>3, <3>2, AccountsAssumption DEF TradClear, Importing, At
      <4>4. At(d, "save") /\ req[d].id \in FileId /\ req[d].id = req[d].file /\ Traditions(req[d].id) = {}
              => (Traditions(req[d].id))' = {}
        BY <2>4, <3>2, <4>3 DEF Traditions
      <4>5. At(d, "save")' => At(d, "save")
        BY <3>2 DEF At
      <4>6. QED BY <1>1, <2>4, <3>2, <4>1, <4>2, <4>4, <4>5 DEF TradClear
    <3>3. QED BY <2>1, <3>1, <3>2
  <2>8. QED BY <2>5, <2>6, <2>7 DEF TradInv
<1>6. CASE CreateUser(c) \/ UserDeleted(c) \/ Given(c) \/ TraditionDeleted(c) \/ Abort(c) \/ Restart
            \/ LinkFails(c) \/ ParseRefused(c) \/ ParseThrown(c)
  <2>1. \A d \in Client : req'[d] = Idle \/ req'[d] = req[d]
    BY <1>0, <1>6 DEF CreateUser, UserDeleted, Given, TraditionDeleted, Abort, Restart, LinkFails,
       ParseRefused, ParseThrown, Finish, Goto
  <2>2. DOMAIN tradition' \subseteq DOMAIN tradition /\ \A t \in DOMAIN tradition' : tradition'[t] = tradition[t]
    BY <1>6 DEF CreateUser, UserDeleted, Given, TraditionDeleted, Abort, Restart, LinkFails,
       ParseRefused, ParseThrown
  <2>3. QED BY <2>1, <2>2, TradKept
<1>7. QED BY <1>2, <1>3, <1>4, <1>5, <1>6 DEF Proceed

ApartInv == IInv /\ UserInv /\ TradInv

LEMMA ApartInit == Init => ApartInv
BY InitInv DEF Init, ApartInv, UserInv, UsersUnique, UserClear, TradInv, TraditionsUnique,
   TradClear, Uploading, Importing, At, Idle

LEMMA ApartStep == ApartInv /\ [NextApart]_vars => ApartInv'
<1> SUFFICES ASSUME ApartInv, [NextApart]_vars PROVE ApartInv'
  OBVIOUS
<1>1. ASSUME NEW c \in Client, SendApart(c) PROVE ApartInv' /\ Send(c)
  <2>1. Send(c)
    BY <1>1 DEF SendApart, Send
  <2>2. QED BY <1>1, <2>1, StepInv, UserSend, TradSend DEF ApartInv, Next
<1>2. ASSUME NEW c \in Client, Proceed(c) \/ Abort(c) \/ Restart PROVE ApartInv'
  BY <1>2, StepInv, UserProceed, TradProceed DEF ApartInv, Next
<1>3. CASE Restart /\ Client = {}
  BY <1>3, StepInv DEF ApartInv, Next, Restart, UserInv, UsersUnique, TradInv, TraditionsUnique
<1>4. CASE UNCHANGED vars
  BY <1>4, StepInv DEF vars, ApartInv, UserInv, UsersUnique, UserClear, TradInv, TraditionsUnique,
     TradClear, Uploading, Importing, At, Users, OwnedBy, Traditions
<1>5. QED BY <1>1, <1>2, <1>3, <1>4 DEF NextApart

THEOREM InductiveApart == SpecApart => []ApartInv
BY ApartInit, ApartStep, PTL DEF SpecApart

\* Every user and every tradition is the only one of its id, as long as no two
\* requests at a time make one user or import one file (create, parseGraphML).
THEOREM IdsStayUnique == SpecApart => []IdsUnique
<1>1. ApartInv => IdsUnique
  BY DEF ApartInv, UserInv, TradInv, UsersUnique, TraditionsUnique, IdsUnique
<1>2. QED BY <1>1, InductiveApart, PTL

\* A tradition does not lose its owner, as long as no user is deleted beside a
\* request that makes him one (deleteUser, changeTraditionMetadata).
THEOREM OwnersStay == SpecApart => OwnerKept
<1> DEFINE Kept == \A t \in DOMAIN tradition \cap DOMAIN tradition' :
                     OwnersOf(t) # {} => (OwnersOf(t))' # {}
<1>1. ApartInv /\ [NextApart]_vars => [Kept]_vars
  <2> SUFFICES ASSUME ApartInv, NextApart, NEW t \in DOMAIN tradition \cap DOMAIN tradition',
                      OwnersOf(t) # {}
               PROVE  (OwnersOf(t))' # {}
    OBVIOUS
  <2>1. CASE owns \subseteq owns'
    BY <2>1 DEF OwnersOf
  <2>2. ASSUME NEW c \in Client, UserDeleted(c) PROVE owns \subseteq owns'
    BY <2>2 DEF UserDeleted, ApartInv, UserInv, UserClear
  <2>3. ASSUME NEW c \in Client, Given(c) PROVE (OwnersOf(t))' # {}
    <3>1. PICK m \in UserNode : req[c].links = {<<m, req[c].trad>>}
      BY <2>3 DEF Given, ApartInv, IInv, Sound, At
    <3>2. owns' = (owns \ {<<m, req[c].trad>>}) \cup {<<req[c].node, req[c].trad>>}
      BY <2>3, <3>1 DEF Given
    <3>3. CASE req[c].trad = t
      <4>1. <<req[c].node, t>> \in owns' /\ <<req[c].node, t>>[2] = t
        BY <3>2, <3>3
      <4>2. QED BY <4>1 DEF OwnersOf
    <3>4. CASE req[c].trad # t
      <4>1. PICK l \in owns : l[2] = t
        BY DEF OwnersOf
      <4>2. l # <<m, req[c].trad>>
        BY <3>4, <4>1
      <4>3. QED BY <3>2, <4>1, <4>2 DEF OwnersOf
    <3>5. QED BY <3>3, <3>4
  <2>4. ASSUME NEW c \in Client, TraditionDeleted(c) PROVE (OwnersOf(t))' # {}
    BY <2>4 DEF TraditionDeleted, ApartInv, IInv, Sound, At, OwnersOf
  <2>5. ASSUME NEW c \in Client,
               \/ SendApart(c) \/ CreateUser(c) \/ MakeTradition(c) \/ LinkUser(c) \/ LinkFails(c)
               \/ Parse(c) \/ SaveFile(c) \/ ParseRefused(c) \/ ParseThrown(c) \/ Abort(c)
        PROVE  owns \subseteq owns'
    BY <2>5 DEF SendApart, PutUser, DeleteUser, Upload, ChangeOwner, DeleteTradition, Begin, CreateUser,
       MakeTradition, LinkUser, LinkFails, Parse, SaveFile, ParseRefused, ParseThrown, Abort
  <2>6. CASE Restart
    BY <2>1, <2>6 DEF Restart
  <2>7. QED BY <2>1, <2>2, <2>3, <2>4, <2>5, <2>6 DEF NextApart, Proceed
<1>2. QED BY <1>1, InductiveApart, PTL DEF SpecApart, OwnerKept

=============================================================================
