------------------------------ MODULE Accounts ------------------------------
(***************************************************************************)
(* Users, traditions, and who owns which tradition.                        *)
(*                                                                         *)
(* An upload is four transactions: the user is looked up; the tradition is *)
(* made; it is linked to its owner; the file is parsed into it.  What has  *)
(* been committed stays when a later one fails.  The other requests look   *)
(* up what they need, and commit later; a transaction ends with an error   *)
(* when another one has deleted what it is going to delete or to link.     *)
(* Nothing in the database makes the id of a user or of a tradition        *)
(* unique; a lookup that finds two nodes is an error.                      *)
(***************************************************************************)
EXTENDS Naturals, FiniteSets

CONSTANTS
  UserId,    \* names of users
  UserNode,  \* identities of user nodes
  Trad,      \* identities of tradition nodes; a new one is its own id
  FileId,    \* ids of traditions that exported files bring along
  Client,    \* requests that may run at the same time
  Empty,     \* no file
  Text,      \* a file without a tradition id
  None       \* nothing

ASSUME AccountsAssumption ==
  /\ None \notin UserId \cup UserNode \cup Trad \cup FileId
  /\ Trad \cap FileId = {}
  /\ {Empty, Text} \cap FileId = {} /\ Empty # Text

VARIABLES
  user,       \* user nodes, and the id of each
  tradition,  \* tradition nodes, and the id of each
  owns,       \* OWNS_TRADITION links
  req         \* the open request of each client, or Idle

vars == <<user, tradition, owns, req>>

Idle == <<>>
Link == UserNode \X Trad
Step == {"createUser", "deleteUser", "make", "link", "parse", "save", "give", "deleteTradition"}

\* What a request knows by now: its next step, the user it is for, the nodes
\* it has looked up, its file, the id that its tradition will have, and the
\* links that it is going to delete.
Request == [step : Step, name : UserId \cup {None}, node : UserNode \cup {None},
            trad : Trad \cup {None}, file : FileId \cup {Empty, Text, None},
            id : Trad \cup FileId \cup {None}, links : SUBSET Link]
Ask(step) == [step |-> step, name |-> None, node |-> None, trad |-> None, file |-> None,
              id |-> None, links |-> {}]

Users(u)      == {n \in DOMAIN user : user[n] = u}
Traditions(i) == {t \in DOMAIN tradition : tradition[t] = i}
OwnersOf(t)   == {l \in owns : l[2] = t}
OwnedBy(n)    == {l \in owns : l[1] = n}

At(c, step) == req[c] # Idle /\ req[c].step = step
Goto(c, r)  == req' = [req EXCEPT ![c] = r]

\* A request reads and is going to write.
Begin(c, r) == req[c] = Idle /\ Goto(c, r) /\ UNCHANGED <<user, tradition, owns>>

\* findNode: one node of that id.
FoundUser(u, n)      == Users(u) = {n}
FoundTradition(i, t) == Traditions(i) = {t}

-----------------------------------------------------------------------------
Init ==
  /\ user = <<>> /\ tradition = <<>> /\ owns = {}
  /\ req = [c \in Client |-> Idle]

Unknown(u) == Users(u) = {}

\* PUT /user/{id} for a new user.  An update of a user changes nothing here.
PutUser(c, u) == Unknown(u) /\ Begin(c, [Ask("createUser") EXCEPT !.name = u])

CreateUser(c) ==
  /\ At(c, "createUser")
  /\ \E n \in UserNode \ DOMAIN user :
       user' = [m \in DOMAIN user \cup {n} |-> IF m = n THEN req[c].name ELSE user[m]]
  /\ Goto(c, Idle)
  /\ UNCHANGED <<tradition, owns>>

\* Mutant: the traditions of the user are not looked for.
OwnsAnything(n) == TRUE

OwnsNothing(n) == OwnedBy(n) = {}

\* DELETE /user/{id}.
DeleteUser(c, u) ==
  \E n \in UserNode :
    /\ FoundUser(u, n) /\ OwnsNothing(n)
    /\ Begin(c, [Ask("deleteUser") EXCEPT !.name = u, !.node = n])

\* Mutant: the upload does not ask for its user before it makes a tradition.
ExistsAnyway(u) == TRUE

\* userExists.
Exists(u) == \E n \in UserNode : FoundUser(u, n)

\* POST /tradition: the user has to be there.
Upload(c, u, f) == Exists(u) /\ Begin(c, [Ask("make") EXCEPT !.name = u, !.file = f])

\* createTradition.  Its id is random, so nobody has one like it.
MakeTradition(c) ==
  /\ At(c, "make")
  /\ \E t \in Trad \ (DOMAIN tradition \cup {req[d].trad : d \in {e \in Client : req[e] # Idle}}) :
       /\ tradition' = [s \in DOMAIN tradition \cup {t} |-> IF s = t THEN t ELSE tradition[s]]
       /\ Goto(c, [req[c] EXCEPT !.step = "link", !.trad = t])
  /\ UNCHANGED <<user, owns>>

\* linkUserToTradition; a transaction that deletes this tradition fails when
\* something new hangs on it.
LinkUser(c) ==
  LET r == req[c]
  IN  /\ At(c, "link") /\ r.trad \in DOMAIN tradition
      /\ \E n \in UserNode :
           /\ FoundUser(r.name, n)
           /\ owns' = owns \cup {<<n, r.trad>>}
      /\ req' = [d \in Client |->
                   IF d = c THEN IF r.file = Empty THEN Idle ELSE [r EXCEPT !.step = "parse"]
                   ELSE IF At(d, "deleteTradition") /\ req[d].trad = r.trad THEN Idle ELSE req[d]]
      /\ UNCHANGED <<user, tradition>>

\* The user or the tradition is gone by now: the answer is 500.
LinkFails(c) ==
  /\ At(c, "link")
  /\ Exists(req[c].name) => req[c].trad \notin DOMAIN tradition
  /\ Goto(c, Idle)
  /\ UNCHANGED <<user, tradition, owns>>

\* Mutant: the id in the file is taken without a look at the others.
KeepsAlways(f) == f \in FileId

\* A file may bring the id of its tradition, unless there is one of that id.
KeepsId(f) == f \in FileId /\ Traditions(f) = {}

\* parseDispatcher reads the file and the database.
Parse(c) ==
  LET r == req[c]
  IN  /\ At(c, "parse") /\ r.trad \in DOMAIN tradition
      /\ Cardinality(Traditions(r.file)) < 2
      /\ Goto(c, [r EXCEPT !.step = "save",
                           !.id = IF KeepsId(r.file) THEN r.file ELSE tradition[r.trad]])
      /\ UNCHANGED <<user, tradition, owns>>

\* The transaction of the parser commits: new sections hang on the tradition.
SaveFile(c) ==
  LET r == req[c]
  IN  /\ At(c, "save") /\ r.trad \in DOMAIN tradition
      /\ tradition' = [tradition EXCEPT ![r.trad] = r.id]
      /\ req' = [d \in Client |->
                   IF d = c \/ (At(d, "deleteTradition") /\ req[d].trad = r.trad)
                   THEN Idle ELSE req[d]]
      /\ UNCHANGED <<user, owns>>

\* The parser has answered something else than 201, and so does the upload:
\* what has been deleted then is not committed.
ParseRefused(c) ==
  /\ At(c, "parse") /\ req[c].trad \in DOMAIN tradition
  /\ Goto(c, Idle)
  /\ UNCHANGED <<user, tradition, owns>>

\* The parser or the commit has thrown something, the tradition may be gone.
\* The answer is 201 all the same.
ParseThrown(c) ==
  /\ At(c, "parse") \/ At(c, "save")
  /\ Goto(c, Idle)
  /\ UNCHANGED <<user, tradition, owns>>

\* PUT /tradition/{id} with another owner.  A tradition without an owner, or
\* with two, makes the request fail.
ChangeOwner(c, i, u) ==
  \E t \in Trad, n \in UserNode :
    /\ FoundTradition(i, t) /\ FoundUser(u, n)
    /\ \E m \in UserNode :
         /\ OwnersOf(t) = {<<m, t>>}
         /\ user[m] # u
         /\ Begin(c, [Ask("give") EXCEPT !.name = u, !.node = n, !.trad = t, !.links = {<<m, t>>}])

\* DELETE /tradition/{id}.
DeleteTradition(c, i) ==
  \E t \in Trad :
    /\ FoundTradition(i, t)
    /\ Begin(c, [Ask("deleteTradition") EXCEPT !.trad = t, !.links = OwnersOf(t)])

\* Mutant: what is gone goes unnoticed.
NothingHeld(r, links, nodes, trads) == FALSE

\* Mutant: links are not locked.
LinksNotHeld(r, links, nodes, trads) ==
  /\ r # Idle /\ r.step \in {"deleteUser", "give", "deleteTradition"}
  /\ r.node \in nodes \/ r.trad \in trads

\* A transaction fails that is going to delete or to link what is gone.
Holds(r, links, nodes, trads) ==
  /\ r # Idle /\ r.step \in {"deleteUser", "give", "deleteTradition"}
  /\ r.links \cap links # {} \/ r.node \in nodes \/ r.trad \in trads

\* The commit of c leaves nothing to those who wanted the same.
Finish(c, links, nodes, trads) ==
  req' = [d \in Client |-> IF d = c \/ Holds(req[d], links, nodes, trads) THEN Idle ELSE req[d]]

\* What hangs on the user by now is deleted along with the node.
UserDeleted(c) ==
  LET n == req[c].node
  IN  /\ At(c, "deleteUser")
      /\ user' = [m \in DOMAIN user \ {n} |-> user[m]]
      /\ owns' = owns \ OwnedBy(n)
      /\ Finish(c, OwnedBy(n), {n}, {})
      /\ UNCHANGED tradition

\* The new owner is linked; a deletion of the tradition has another link to
\* delete now.
Given(c) ==
  LET r == req[c]
  IN  /\ At(c, "give")
      /\ owns' = (owns \ r.links) \cup {<<r.node, r.trad>>}
      /\ Finish(c, r.links, {}, {})
      /\ UNCHANGED <<user, tradition>>

TraditionDeleted(c) ==
  LET r == req[c]
  IN  /\ At(c, "deleteTradition")
      /\ tradition' = [s \in DOMAIN tradition \ {r.trad} |-> tradition[s]]
      /\ owns' = owns \ r.links
      /\ Finish(c, r.links, {}, {r.trad})
      /\ UNCHANGED user

\* A lost deadlock, an error of the database.
Abort(c) == req[c] # Idle /\ Goto(c, Idle) /\ UNCHANGED <<user, tradition, owns>>

\* The server stops, and starts again.
Restart == req' = [c \in Client |-> Idle] /\ UNCHANGED <<user, tradition, owns>>

Send(c) ==
  \/ \E u \in UserId : PutUser(c, u) \/ DeleteUser(c, u)
  \/ \E u \in UserId, f \in FileId \cup {Empty, Text} : Upload(c, u, f)
  \/ \E i \in Trad \cup FileId : DeleteTradition(c, i) \/ \E u \in UserId : ChangeOwner(c, i, u)

Proceed(c) ==
  \/ CreateUser(c) \/ UserDeleted(c) \/ Given(c) \/ TraditionDeleted(c)
  \/ MakeTradition(c) \/ LinkUser(c) \/ LinkFails(c)
  \/ Parse(c) \/ SaveFile(c) \/ ParseRefused(c) \/ ParseThrown(c)

Next == Restart \/ \E c \in Client : Send(c) \/ Proceed(c) \/ Abort(c)

Spec == Init /\ [][Next]_vars

=============================================================================
