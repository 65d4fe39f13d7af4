---------------------------- MODULE ClustersProps ----------------------------
(***************************************************************************)
(* What requests get from a graph that they share.  Two variables keep     *)
(* the history of the open requests.                                       *)
(***************************************************************************)
EXTENDS Clusters

VARIABLES
  since,   \* the relations of its section at some time since a request was
           \* sent, and those that others had matched and not yet projected
  beside   \* the clients with requests that have had another open beside them

history == <<since, beside>>

\* The pairs that are matched and not yet projected.
Matched(s) == {req[d].links : d \in {d \in Client : At(d, "project") /\ req[d].section = s}}

Noted(c) ==
  IF req'[c] = Idle THEN {}
  ELSE (IF req[c] = Idle THEN Matched(req'[c].section) ELSE since[c])
         \cup {{l \in related' : \A x \in l : Home[x] = req'[c].section}}

Record ==
  /\ since' = [c \in Client |-> Noted(c)]
  /\ beside' = {c \in Client : /\ req'[c] # Idle
                               /\ c \in beside \/ \E d \in Client \ {c} : req'[d] # Idle}

HInit == Init /\ since = [c \in Client |-> {}] /\ beside = {}
HNext == Next /\ Record

HSpec == HInit /\ [][HNext]_<<vars, history>>

-----------------------------------------------------------------------------
\* Types.  A graph never joins readings of two sections, nor do the pairs that
\* a request has matched.
TypeOK ==
  /\ related \subseteq Link /\ graph \subseteq Link
  /\ req \in [Client -> Request \cup {Idle}]
  /\ \E s \in Section : \A l \in graph : \A x \in l : Home[x] = s
  /\ \A c \in Client : req[c] # Idle =>
       \A l \in req[c].links : \A x \in l : Home[x] = req[c].section

\* A normalisation that is answered has been given the clusters of its own
\* section as its relations were at some time since it was sent, or as a
\* request beside it had matched them by then: what was left in the catalogue,
\* or was projected for another section, is never taken for its own.
AnswerIsRecent ==
  [][\A c \in Client : Answer(c) /\ req[c].purpose = "normalise" =>
       \E L \in since[c] : req[c].got = Clusters(L)]_<<vars, history>>

\* A request that has had no other beside it does not fail on the catalogue,
\* whatever earlier requests have left there.
AloneSucceeds == \A c \in Client : Failing(c) => c \in beside

=============================================================================
