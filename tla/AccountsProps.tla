---------------------------- MODULE AccountsProps ----------------------------
(***************************************************************************)
(* Who owns what, whatever requests run beside each other.                 *)
(***************************************************************************)
EXTENDS Accounts

\* Types.  Links join nodes that are there, and what a request has looked up
\* and is going to delete or to link is there until it commits.
TypeOK ==
  /\ DOMAIN user \subseteq UserNode /\ user \in [DOMAIN user -> UserId]
  /\ DOMAIN tradition \subseteq Trad /\ tradition \in [DOMAIN tradition -> Trad \cup FileId]
  /\ owns \subseteq (DOMAIN user) \X (DOMAIN tradition)
  /\ req \in [Client -> Request \cup {Idle}]
  /\ \A c \in Client : req[c] # Idle =>
       /\ req[c].links \subseteq owns
       /\ req[c].step \in {"deleteUser", "give"} => req[c].node \in DOMAIN user
       /\ req[c].step \in {"deleteTradition", "give"} => req[c].trad \in DOMAIN tradition

\* No tradition gets a second owner (getSingleRelationship would fail for it
\* from then on), though an upload links its owner, and any number of clients
\* change it, without a look at what the others are about to write.
OneOwner == \A k, l \in owns : k[2] = l[2] => k = l

\* Ids stay unique, so that every user and every tradition can be found, as
\* long as no two requests at a time make the same user or import the same file.
IdsUnique ==
  /\ \A m, n \in DOMAIN user : user[m] = user[n] => m = n
  /\ \A s, t \in DOMAIN tradition : tradition[s] = tradition[t] => s = t

-----------------------------------------------------------------------------
(* Requests that do not get in each other's way: no two make the same user  *)
(* or import the same tradition, no user is deleted beside a request that   *)
(* makes him an owner, and the server does not stop between the first two   *)
(* commits of an upload.                                                    *)

\* No open request satisfies P.
No(P(_)) == \A d \in Client : req[d] # Idle => ~P(req[d])

SendApart(c) ==
  \/ \E u \in UserId :
       \/ No(LAMBDA r : r.step = "createUser" /\ r.name = u) /\ PutUser(c, u)
       \/ No(LAMBDA r : r.name = u) /\ DeleteUser(c, u)
       \/ /\ No(LAMBDA r : r.step = "deleteUser" /\ r.name = u)
          /\ \/ \E f \in FileId \cup {Empty, Text} :
                  No(LAMBDA r : f \in FileId /\ r.file = f) /\ Upload(c, u, f)
             \/ \E i \in Trad \cup FileId : ChangeOwner(c, i, u)
  \/ \E i \in Trad \cup FileId : DeleteTradition(c, i)

NextApart ==
  \/ No(LAMBDA r : r.step = "link") /\ Restart
  \/ \E c \in Client : SendApart(c) \/ Proceed(c) \/ (~At(c, "link") /\ Abort(c))

\* The server goes on with what it has begun; clients may stay away.
SpecApart == Init /\ [][NextApart]_vars /\ \A c \in Client : WF_vars(Proceed(c))

\* Then a tradition that has an owner keeps having one until it is deleted,
\* while it is handed on and other users are deleted.
OwnerKept ==
  [][\A t \in DOMAIN tradition \cap DOMAIN tradition' :
       OwnersOf(t) # {} => (OwnersOf(t))' # {}]_vars

\* And one that an upload has made gets its owner, or is deleted first.
OwnedInTheEnd ==
  \A t \in Trad : (t \in DOMAIN tradition /\ OwnersOf(t) = {})
                    ~> (t \notin DOMAIN tradition \/ OwnersOf(t) # {})

\* "If something went wrong, delete the new tradition immediately and return
\* the error" (importGraphMl).
RefusedIsDeleted ==
  [][\A c \in Client : ParseRefused(c) => req[c].trad \notin DOMAIN tradition']_vars

=============================================================================
