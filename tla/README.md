# A verification of the Stemmarest collation server

The repository is a Java web service (Jersey) on an embedded Neo4j database. It keeps *traditions*: texts
transmitted in several witnesses, each text divided into *sections*, each section a *variant graph* of readings in
which every witness is a path. Clients edit these graphs with small REST requests, each a database transaction,
several at a time. This directory holds TLA+ models of the parts of the server that change that state, TLC runs
over small instances, and theorems that TLAPS proves for instances of any size. Paths below are relative to
`src/src/main/java/net/stemmaweb/`.

## 1. The system

| Component | State it keeps | Operations that change it | What makes it correct |
|---|---|---|---|
| Reading requests (`rest/Reading.java`) | READING nodes: rank, text, is_lemma; their links | duplicate, split, concatenate, mergenodes, merge, rank, setlemma, relations, lacunae, emendations, user readings, normal forms | no request changes what a witness says; the graph stays rooted at the start reading and ranked along its links |
| Sequence links (`services/ReadingService.java`) | SEQUENCE links; per link, one array of sigla per class (`witnesses`, or the name of a layer) | addWitnessLink, removeWitnessLink, transferWitnesses, removePlaceholder, recalculateRank | a base label displaces the layers of its witness; a layer that loses the base text it leans on gets links of its own |
| Relations (`rest/Relation.java`, `services/RelationService.java`) | RELATED links with type, scope, colocation | create (local, or propagated over a section or a tradition), delete by id or by text | relations relate readings of the collation; colocated readings share a rank and never follow each other |
| Relation types (`rest/RelationType.java`) | per tradition and name: colocation, weakness, transitivity, ... | create, update, delete, defaults on lookup | settings last until somebody changes them |
| Section order (`rest/Section.java`, `rest/Tradition.java`, `services/VariantGraphService.java`) | SECTION nodes, PART and NEXT links | upload, delete, orderAfter, merge, splitAtRank | NEXT is one chain through all sections |
| Lemma text (`rest/Section.java`, `setLemmaText`) | LEMMA_TEXT links | setlemma on a section; side effects of concatenate and of merging sections | the chain runs from start to end through the lemmata |
| Stemmata (`rest/Stemma.java`, `DotParser`, `NewickParser`) | STEMMA nodes, TRANSMITTED links | replace, delete, reorient | transmissions belong to their stemma; a refused replacement leaves the old stemma |
| Annotations (`rest/Annotation.java`, `AnnotationLabel.java`) | annotation nodes, their labels, marks and links | create, update, link, unlink, delete; labels; prune (never committed) | a deletion takes along what it leaves dangling, and nothing else; every label is specified |
| Users, traditions (`rest/Root.java`, `rest/User.java`) | USER and TRADITION nodes, OWNS_TRADITION links | create, update, delete, upload, change of owner | ids are unique, every tradition has one owner |
| Witnesses (`rest/Witness.java`, `services/WitnessPath.java`) | none of their own beyond WITNESS nodes | text, readings, delete | a text is returned whole or not at all |
| Variant graph service (`services/VariantGraphService.java`, `VariantCrawler`) | temporary NSEQUENCE, REPRESENTS, MAJORITY links; with `RelationService`, the projected graph `related` | normalizeGraph and its clean-up, clusters, majority text | clusters are those of the section asked for; temporary links are gone when the request is |
| Database (`services/Database.java`, `GraphDatabaseServiceProvider.java`) | one database for the process | first use, shutdown hook | opened once |
| Parsers, exporters | none | convert files to graphs and back | what a parser leaves behind is a graph that the requests can work on |

**How they interact.** A request handler opens a transaction on the one database; handlers call each other as plain
Java objects (`Section` from `Tradition`, `Tradition.pruneAnnotations` from `Section`), and each of them opens its
own transaction. Such a nested transaction is independent: it sees what is committed, not what its caller has
written, and commits on its own. Leaving the `try` without `commit()` rolls back. What is deleted is locked until
the transaction ends; what is only read is not locked, and neither is the absence of a link. Projected graphs are kept
outside of all transactions, in one catalogue of the process, under fixed names that all requests share.

**What is hard.** Requests on the same graph run beside each other and act on what they have read; `duplicateReading`
reads in one transaction what it changes in another and goes on after its commit; several handlers answer 200
without a commit; one sequence link carries the data of all witnesses in arrays that are read, changed and written
back; ranks, relations, lemma chain and links refer to each other and are maintained by hand at every place;
long series of legal edits lead to graphs that no upload produces. There are no messages and no timeouts of the
server's own; a crash loses what is not committed.

## 2. Modules

| Module | What it is |
|---|---|
| `Collation` | the variant graph of one section, with every request on it that is modelled |
| `CollationProps`, `CollationText` | properties: of the graph; of the texts of witnesses |
| `MCCollation` | small collations and the requests of each run |
| `CollationProofs`, `CollationOrder`, `CollationPaths` | inductive invariant and the theorems that rest on it; theorems on ranks, the paths of witnesses, duplicates and the lemma text; theorems on what the paths say and on the check for a cycle |
| `Sections` | sections, NEXT links and the open transactions of several clients |
| `SectionList` | the abstract list of sections: what the requests promise |
| `SectionsProps`, `MCSections` | properties, the refinement mapping, the requests that keep apart (`SpecInOrder`, `SpecBeside`); instances for TLC |
| `SectionsOrder` | the type invariant under any interleaving; one chain and the refinement for requests that keep apart |
| `Stemmata` | stemmata, transmissions, and the requests of several clients on them |
| `StemmataProps`, `MCStemmata`, `StemmataProofs` | properties; graphs for TLC; the inductive invariant and what follows from it |
| `Accounts` | users, traditions, ownership; uploads in their four transactions |
| `AccountsProps`, `MCAccounts`, `AccountsProofs` | properties, and the requests that keep apart; instance; proofs |
| `Annotations` | annotations, labels, links; requests that read and commit later |
| `AnnotationsProps`, `AnnotationsWalk` | properties, and the requests that keep apart; the walk of a deletion in every order |
| `MCAnnotations`, `AnnotationsProofs` | instance; proofs |
| `Clusters` | clusters of related readings, over the one projected graph that all requests share |
| `ClustersProps`, `MCClusters`, `ClustersProofs` | history variables and properties; instance; proofs |

The modules share no variables: each stands for a part of the database that the requests of the others leave alone. Where
they touch, the other side is an action: `DeleteReading` in `Annotations` is any request that deletes a reading,
`Relate` and `Unrelate` in `Clusters` are any that commit a relation, and the witnesses of a stemma (`Stemmata`) are given.

### 2.1 Collation

`seq` maps each SEQUENCE link to the set of labels `<<sigil, class>>` that it carries, which is what the arrays on
the link hold; `node`, `rank`, `text`, `lemma` are the reading nodes and their properties, `lemmaLink` and `related`
the other links, `rtype` whether the settings of a type are absent, as declared, or overwritten with the defaults.
Texts are sequences of words, which is what a separator leaves of them: `split` and `concatenate` need to cut and to join
them, nothing needs the characters. A request that gives a word as separator, and so asks to have it removed, is left out.

| Action | Handler |
|---|---|
| `DupOpen`, `DupReading`, `DupWitness`, `DupRelations`, `DupCommit`, `DupAbort` | `duplicateReading`, `canBeDuplicated`, `duplicate` on the private copy `dup` |
| `LookUp`, `PutBack`, `Crash` | after the commit: the tradition is looked up by the reading of the URL, and each deleted relation posted back; the process stops |
| `Split` | `splitReading`, `splitUpText`, `split`; `Divided` are the parts without loss, `Shortened` those of a regular expression with an index |
| `Compress` | `compressReadings` with `compress`, `copySequences`, `canBeCompressed` |
| `MergeNodes` | `mergeNodes` with the inner class `Attach` |
| `ChangeRank` | `changeRank`, `checkNodeRank` |
| `SetLemma`, `SetLemmaText` | `setReadingAsLemma`, `Section.setLemmaText` |
| `Relate`, `Unrelate`, `UnrelateAlike`, `UnrelateAll` | `Relation.create` (scope local), `deleteById`/`deleteByData` (local, section), `deleteAllRelations` |
| `CreateType` | `RelationType.create` of a new type |

`wouldGetCyclic` is modelled by what its depth-first walk can and must find (`MayReach`, `MustReach`): it prunes by
rank, and the order in which the database hands out links decides the rest, so that either answer may come.
A duplicate that has committed is in `pending` with the reading of its URL and the relations it has deleted; where that
reading is gone when `LookUp` comes by, the request ends there and puts nothing back.
`recalculateRank` does not appear: its evaluator answers "exclude and prune" on every path, so no rank ever changes.
`returnRelationType`, which should look a type up, stores the defaults over it; `Relating` does the same.

Restrictions. Requests are serialised, except that others run between the steps of a duplicate after its commit,
while it puts relations back. While the duplicate's own transaction is open no other request commits: two
transactions on the arrays of one link are not modelled (section 5). Splitting the start or the
end reading is excluded in the guard of `Split`, and the URL of a duplicate names a reading of the same section. Relations are created with scope local only.

### 2.2 Sections

`next` counts the NEXT links between two sections (the database allows several), `req[c]` is the open transaction
of client `c`: what it will write (`gone`, `made`, `new`, `old`), the section it has still to take out of the
sequence (`unlink`), and for a merge the section that takes over the readings (`heir`). Each request has three
steps: it reads the committed order and decides (`AddSection`, `DeleteSection`, `OrderAfter`, `OrderFirst`,
`MergeSections`), it takes its section out of the sequence as committed by then (`RemoveFromSequence`, which is the
method of that name), and it commits (`Commit`) or fails (`Abort`). `Commit` ends every other transaction that
holds on to what is now gone (`Holds`): the database lets only one transaction delete a link or a node, and a link
to a node that is gone cannot be committed. A deletion collects all links of its section late and takes them along
(`Swept`); a merge does not and fails when one is left. `Listings` are the lists that `produceSectionList` can
return: it starts at any section without an incoming link and follows links in any order.

The readings inside the sections are left out, and so are GraphML uploads, which bring several sections with links
of their own (`Util.ensureSectionLink`). `splitAtRank` has no action: it asks the order handler, in a transaction of
its own, for the section it has just made and not yet committed, is told 404 and rolls back, so it never changes
the order.

### 2.3 Stemmata

A witness node is its sigil with the stemma that brought it in (`None` for the texts): two imports at once can
create two nodes of one sigil, and an import takes any of those it finds. A stemma holds its name, its witnesses, its
archetype and whether it is directed; `sent` are the TRANSMITTED links. In the code such a link carries only the
name of its stemma; the field `by` says which stemma made it, and no action reads it.

| Action | Handler |
|---|---|
| `NewStemma`, `ReplaceStemma` | `Tradition.newStemma`, `Stemma.replaceStemma` up to the import; the replacement has deleted and committed by then, and the new name need not be that of the URL |
| `Import` | `importStemmaFromDot`, `saveToNeo`: all that it reads, checks and writes |
| `Commit`, `Abort` | the end of `replaceStemma`: commit, or an answer other than 201; the Newick parser answers 201 but never commits |
| `DeleteStemma` | `deleteStemma` |
| `Reorient` | `reorientStemma` |

The search for the archetype walks upwards from one witness after the other, in the order of a hash map, and
stops altogether where a walk meets a witness seen before. `Archetypes` is the set of what it may come to, over all orders of witnesses
and links (`Walks` are the depth-first orders). `Walked` is one walk, `Turn` goes on from one witness, and
`Found` is what a search comes to with the witnesses in one order. DOT is data of the client: a graph of
classes and edges, or `Unsaved`.

### 2.4 Accounts

`user` and `tradition` map nodes to ids, so that two nodes may have one id; `owns` are the links; `req[c]` is the open
request of a client: its next step, and what it has looked up by now.

| Action | Handler |
|---|---|
| `PutUser`, `CreateUser` | `User.create`: the lookup, and the transaction that makes the user |
| `DeleteUser`, `UserDeleted` | `User.deleteUser`: the traditions are looked for; the commit takes along what hangs on the user by then |
| `Upload`, `MakeTradition`, `LinkUser`, `LinkFails` | `Root.importGraphMl` up to the file: `userExists`, `createTradition`, `linkUserToTradition` |
| `Parse`, `SaveFile`, `ParseRefused`, `ParseThrown` | `parseDispatcher`; a file that an exporter wrote brings an id along, which is taken when nobody has it (`KeepsId`) |
| `ChangeOwner`, `Given` | `Tradition.changeTraditionMetadata`, as far as the owner |
| `DeleteTradition`, `TraditionDeleted` | `Tradition.deleteTraditionById` |
| `Abort`, `Restart` | an error of the database or a deadlock; the server stops: what is not committed is gone |

`Holds` says which open transactions a commit dooms: those that are going to delete what it has deleted or changed, or to
link what is gone. `SpecApart` is `Spec` without the pairs of requests that do get in each other's way: two that
make one user or import one file, the deletion of a user beside a request that makes him an owner, and a failure
between the first two commits of an upload.

### 2.5 Annotations

`allowed` are the labels with the kinds of nodes that each may be linked to, `anno` maps annotations to their labels,
`primary` are those marked, `link` counts links (the database allows several between two nodes). A request has
two steps: one that reads and decides, and one that writes and commits (`Posted`, `Put`, `Deleted`, `Linked`, `Cut`,
`Unlabelled`).

| Action | Handler |
|---|---|
| `AddAnnotation`, `Posted` | `Tradition.addAnnotation`, with the links that are allowed; a primary annotation gets its first link only |
| `UpdateAnnotation`, `Put` | `Annotation.updateAnnotation`: only its first transaction is committed |
| `DeleteAnnotation`, `Deleted` | `deleteAnnotation` with `deleteIfDangling`: `Doomed` is the least set that holds the annotation and is closed under "left without a link and not primary" |
| `AddAnnotationLink`, `Linked` | `addAnnotationLink` with `findExistingLink` |
| `DeleteAnnotationLink`, `Cut` | `deleteAnnotationLink` |
| `DeleteAnnotationLabel`, `Unlabelled`, `PutLabel` | `AnnotationLabel.java` |
| `DeleteReading` | a request that deletes a reading; annotations are not looked after |

The code finds what to delete by a recursive walk, in the order in which the database hands out links.
`AnnotationsWalk` is that walk in every order, step by step: `trail` holds the calls that have not returned, each with the
links that it has still to follow; `Visit` enters an annotation, `Meet` is the test on entry, `Onward` the next step. And `WalkAgrees` says that it deletes `Doomed`, when it does
not fail because it comes by an annotation that it has deleted already. `SpecApart` keeps a deletion apart from
whatever takes links or marks away, the deletion of a label from requests that use it, and two requests for one link.
`PutLabel` is one step, though its handler looks for the label before it commits; what it stores replaces what was there.

### 2.6 Clusters

`graph` is the graph `related` of the catalogue, as the set of pairs it joins; it is empty when there is no such graph, as
nothing is projected when nothing matches. `req[c]` goes through the calls of `collectSpecifiedClusters`: `Look` (exists),
`Drop`, `Match` and `Project`, `Stream` (components), `Tidy` (the last drop), and back in `normalizeGraph` the check that
every reading is in the section (`Own`). The catalogue belongs to no transaction: a request that fails (`Refuse`,
`Abort`) leaves the graph behind. `Wanted` are the relations that match: all types for a normalisation, whatever its
threshold, and none for colocations. Components are the least closed sets; the search for them is the library's.
`GraphService` keeps the graph `section` in the same way.

`ClustersProps` adds two history variables: `since[c]`, the sets of relations that the section of an open request has had
since it was sent, and `beside`, the requests that have had another beside them.

## 3. Runs

`tlc -workers 2 -config <run>.cfg <module>`; all passing runs are exhaustive within their bounds.

| Run | Module | What it shows |
|---|---|---|
| `collation_sequence` | `MCCollation` | three requests out of duplicate (up to two readings in one request), split, concatenate, from three collations with layers, one with two witnesses that have the same layer: base texts stay, but for a split by a regular expression at an index (`BaseTextKept`), layer texts too unless the duplicate moves another witness that has this layer (`LayerTextKept`, `Overwritten`), a copy is read by exactly the witnesses asked for (`DuplicateSeparates`), types hold |
| `collation_edit` | `MCCollation` | five requests out of split, concatenate, mergenodes, rank and both setlemma: `StartComesFirst`, `RankOrderKept`, `WitnessesKept`, `MergeKeepsText`, `LemmaTextReadable`, `LemmaPlacesKept` |
| `collation_relation` | `MCCollation` | four requests of any kind with relations, duplicates, what they put back or lose, and crashes: `RelationsAttached`, and no new relation between readings that follow each other where ranks are in order and there is no lemma text (`RelatedApart`) |
| `sections_serial` | `MCSections` | any number of requests, one at a time, on up to four sections: one chain (`InOrder`), and the requests refine the abstract list (`ImplementsList`) |
| `sections_beside` | `MCSections` | three transactions at a time on up to four sections: deletions and merges beside each other, merges beside one upload or one move keep the chain (`OrderKept`), and nothing hangs (`TypeOK`) |
| `stemmata` | `MCStemmata` | two clients with requests on stemmata of different names: a transmission belongs to a stemma that is there (`LinksOwned`), a stemma keeps what it says whatever happens to another one on the same witnesses (`StemmaKept`), names stay unique (`NamesUnique`), the archetype of a tree is its top (`TreeRooted`), types hold |
| `accounts` | `MCAccounts` | three clients: no tradition gets a second owner (`OneOwner`); between requests that keep apart, ids stay unique (`IdsUnique`), an owner is not lost (`OwnerKept`), and a tradition that is uploaded gets its owner or is deleted (`OwnedInTheEnd`); what is looked up is there until the commit (`TypeOK`) |
| `annotations` | `MCAnnotations` | two clients: a deletion takes along only what it leaves dangling (`OnlyDangling`) and, between requests that keep apart, all of that (`NoneLeft`); labels are specified (`LabelsKnown`), links single (`LinkedOnce`), and the walk of the deletion agrees with its definition (`WalkAgrees`) |
| `clusters` | `MCClusters` | three clients: the graph never joins two sections (`TypeOK`), a normalisation never gets relations of another section or of before it was sent (`AnswerIsRecent`), and a request alone does not fail on what is left in the catalogue (`AloneSucceeds`) |

Runs that end in a violation. Each checks one statement of a comment, message or test that the code does not keep.

| Run | Statement | What happens |
|---|---|---|
| `split_by_pattern` | "this operation should not change the text of any witness!" | with an index and a regular expression, the second part loses as many characters as the expression has: "rood of the world", split at 4 by the three characters for white space, becomes "rood" and " the world" |
| `stemma_replace` | "so that we can roll back the deletion if the replacement import fails" | the deletion has committed on its own: the old stemma is gone |
| `upload_refused` | "If something went wrong, delete the new tradition immediately and return the error" | what deletes it is never committed: the tradition stays, empty, with its owner |

### Bounds

* Collations start from `Shared` (two witnesses share a reading of two words, one has a layer that skips a reading),
  `Variant` (the witnesses differ, a layer of one agrees with the other), `Transposed` (a relation without
  colocation across a shared reading) or `TwoLayers` (both witnesses have the same layer). `collation_sequence` takes all but
  `Transposed`, `collation_edit` the first two, `collation_relation` `Transposed`. They have the shapes that the code distinguishes: shared and
  own links, layers that leave and join the base text on either side, readings of one rank, a relation that crosses
  one. One or two free nodes are enough for a copy of a copy, or a split of a copy.
* `MaxEdits` (3, 4 or 5) bounds the requests of a behaviour, `MaxBatch` the readings of one duplicate, `MaxRank` the
  ranks that a split hands out. Every known divergence shows up within two or three requests.
* Four sections are the first number at which two requests can take out neighbours that both have neighbours of
  their own; three clients let one conflict while another goes on. The runs are exhaustive without a bound on the
  number of requests, as identities of deleted sections are used again. `SpecInOrder` leaves out moves of a section
  to where it is, `SpecBeside` lets uploads and moves run beside merges only
  and deletions beside deletions and merges. Other pairs do not keep order: two uploads at once link behind the same
  section, or behind none, and a deletion takes along the link of an upload or a move to its section (`Swept`).
* Three witnesses, two names and two clients are the least with which two stemmata share witnesses, one of them
  is unattested, and one is deleted while the other is being saved. The graphs sent are one for each outcome of the
  import: a chain, a circle, contamination, an undirected graph, one with two tops, and two that are refused. The
  clients of `SpecApart` ask for stemmata of different names; on one name two uploads at once both find it free
  (TLC shows it with `Spec` and `NamesUnique`), while what is proved of the transmissions holds there too.
* Accounts: two names, two user nodes and two traditions are the least with which an id can be taken twice and a tradition
  change hands; one id of a file is enough, as a file keeps it or gives it up. With three clients a tradition is handed
  on and its owner deleted while it is being uploaded. The run has no other bound: requests go on for ever.
* Annotations: three annotations make chains, and two that hang on a third; one reading and one label (which may be
  linked to both kinds) tell the two kinds of targets apart; `MaxLinks` is 3, which allows chains of three down to the reading, two annotations on one, one on two, and circles. `MaxWalk` is 9, and every walk on
  that many links is over by then.
* Clusters: with two sections of two readings each there is one pair in each section, enough to tell own from foreign
  and old from new; three clients are the least with which one projects an old match after another has dropped what
  the first had made.
* Free nodes, sections, clients and stemmata are interchangeable; symmetry is used in runs that check safety only.
* `CHECK_DEADLOCK FALSE` everywhere: the server may be idle for ever, and bounded behaviours end.

### Fairness

`OwnedInTheEnd` assumes weak fairness of the next step of an open request, failures included (`SpecApart` of `AccountsProps`):
a thread of the server that has begun goes on, and clients need never send anything. A failure between the first two commits
of an upload is left out there, because it is what breaks the property: nothing in the code finds such a tradition again.
No other property needs fairness. That every relation which a duplicate deletes is put back or reported cannot be said of
this code (see below).

### Requests that keep apart

Some properties hold only between requests that do not get in each other's way, and their specification leaves the
others out. What is left out is where the code goes wrong; no property of these runs speaks of it:

* `SpecBeside` (`OrderKept`): two uploads at once, and uploads or moves beside a move or a deletion.
* `SpecInOrder` (`InOrder`, `ImplementsList`): a move behind the section that is in front already.
* `SpecApart` of stemmata (`NamesUnique`): two requests on one name. `LinksOwned` is proved for them.
* `SpecApart` of accounts (`IdsUnique`, `OwnerKept`, `OwnedInTheEnd`): two requests that make one user or import one file; the
  deletion of a user beside a request that makes him an owner; a failure between the first two commits of an upload.
  `TypeOK` and `OneOwner` are proved for all of them.
* `SpecApart` of annotations (`NoneLeft`, `LabelsKnown`, `LinkedOnce`): a deletion beside a request that takes links or marks away,
  the deletion of a label beside a request that uses it, two requests for one link. `TypeOK`, `OnlyDangling` and `WalkAgrees` are
  proved for all of them.

In the same way `TreeRooted` is about trees only, and `WalkAgrees` about walks that do not fail.

### Known divergences without a run

Seen while modelling. Where one would interfere with a property, the property exempts it, or the run leaves it out (above).

* Collation. A reading merged with itself is deleted and leaves a gap in its witnesses (`WitnessesKept` exempts it); moving
  all witnesses of a reading to its copy leaves a reading without links; `split` refuses a related reading only when
  neither a pattern nor a separator with an index is given; the reading behind a split one keeps its rank, which may be that
  of its new predecessor, where a test is to "check the re-ranking" (`ReadingTest`); a layer that gets its
  link back ("Un-orphan any otherwise orphaned sigil layers", `services/ReadingService.java:170`) overwrites the same layer of
  other witnesses there (`LayerTextKept` exempts it); a split by a regular expression at an index takes words out
  (`split_by_pattern`; `BaseTextKept` and `LayerTextKept` exempt it, `SplitShort`); merging carries over base witnesses only, and layers through the merged reading are lost.
* Relations. A relation promotes its lower reading past what follows (`RankOrderKept` exempts it); after two splits the check
  for a cycle prunes too early and relates two readings that follow each other, and so it may where LEMMA_TEXT links alone
  lead from one to the other, as it counts nothing before it has seen a SEQUENCE link (`RelatedApart` is about graphs
  with ranks in order and without a lemma text); when the reading that a duplicate was sent to is merged away right after its
  commit, looking up the tradition (`rest/Reading.java:571`) ends the request with an exception, and the relations it has
  deleted are neither put back nor reported; a transposition that a duplicate
  deletes comes back as a colocation, because its type has been reset: the lookup of a type, "Creates the type with
  default values if it doesn't already exist" (`services/RelationService.java:67`), writes the defaults over every type that
  does exist.
* Clusters. The names of colocated types are put in quotes twice (`services/RelationService.java:150` and again before
  the query), so that no relation matches and the list of colocated clusters is always empty, where `SectionTest.java:912-926`
  expects five; the threshold of a normalisation is ignored, as every type is added before it is looked at.
* Sections. A section moved behind the one it follows already is linked to itself ("Make sure it is idempotent"); two uploads
  of a section at once leave the section list forked; `splitAtRank` is always refused.
* Stemmata. A stemma with contamination can be re-rooted, as none is ever marked (`StemmaTest.java:252-260` expects 412);
  one with several tops may be accepted, depending on the order of a hash map, though the parser is to "make sure that
  there is only one"; a replacement under a name that does not exist is answered with 404, and one whose name differs
  from the URL is accepted, where the documentation says 201 and 400; two imports at once may make two witness nodes of
  one sigil.
* Accounts. An update of a user writes through a node of a transaction that is closed; an upload answers 201 when the parser throws;
  two requests for one new user make two, and every later lookup of that name fails.
* Annotations. A second link to the same node is refused whatever its type; the deletion of a label leaves its name in the
  link sets of others; an update takes the properties away in a transaction that is committed and sets the new ones and the
  mark ("With that done, set the "primary" property", `rest/Annotation.java:156`) in one that is not; a deletion may fail with 500 where an annotation is reached two ways;
  `pruneAnnotations` looks at "primary" where the mark is "__primary", and is not committed, so that the deletion of a section
  leaves its annotations dangling; links that come with an update wait for a lock that their own request holds.
* Witnesses. Where two layers of a witness share a link the walk takes them for two ways and stops, and the text is silently
  short; the deletion of a witness changes the links in a transaction that is never committed.
* Handlers that answer 200 without a commit: lacunae, user readings, normalisation, merge of readings and deletion of
  complex readings in `Reading`, `initRanks`, `pruneAnnotations`, deletion and update of relation types, the Newick parser.

## 4. Proofs

All of them are for every set of readings, witnesses, layers, types, words, sections and clients, under the
assumptions stated with the constants: `CollationAssumption` (finitely many identities of readings, as those of nodes
are 64-bit numbers, distinct boundary readings, natural bounds,
`witnesses` is no layer, uploads are `WellFormed`), `SectionsAssumption` (finitely many sections),
`StemmataAssumption` (the graphs sent are graphs, and finite), `AccountsAssumption` and `AnnotationsAssumption` (kinds of
identities are distinct), `WalkAssumption` (a bound on the steps of a walk that are looked at) and `ClustersAssumption` (every reading has a section).

* `CollationProofs!Inductive`: the inductive invariant `IInv` holds always. It joins the type invariant, the start
  (nothing leads into it, every rank is above its rank, and the same for the private copy of an open duplicate), and
  the relations (attached to readings strictly between the boundaries, also in the copy). The copy is
  why the visible properties are not inductive by themselves: a commit publishes `dup.seq` and `dup.related`, so
  the same has to be known of them from the moment the transaction opens, for readings that do not exist yet.
  One lemma per action; the lemmas on `AddLink`, `RemoveLink` and `Merged` say what the helpers do to the domain of
  the links.
* `TypeCorrect`, `StartStaysFirst`, `RelationsStayAttached` follow from it: `TypeOK`, `StartComesFirst`,
  `RelationsAttached` are invariants.
* `CollationOrder!RankOrderStays` and `LemmaPlacesStay`: the action properties `RankOrderKept` and
  `LemmaPlacesKept`, by action. For the duplicate this needs that the private copy
  of the links is ranked whenever the committed graph is.
* `CollationOrder!WitnessesStay` (`WitnessesKept`): a witness that has a path from start to end has one after the step. The
  invariant is that the private copy of a duplicate has paths for the base witnesses that the committed links have (`WInv`).
  Each helper on links does one of three things to a path: leads it round a reading, makes a place of it longer, or
  joins places. Joining two places of one witness would cut out what is between them; that it does not happen in a
  ranked graph is `OneAtATime`: no two links of one path span the same rank, so that a path has one place at each rank, and
  the readings that are merged have one rank.
* `CopiesSeparate` (`DuplicateSeparates`): while a duplicate is made, each copy is read by exactly the witnesses moved so far and
  none of them is left at the original (`SInv`). This needs that no reading follows itself at the start (`[]Loopless`), as the
  code takes links off one at a time and such a link is at two places. `LoopsByMerging` says what that hypothesis
  leaves out: a step that makes a loop is a merge in a graph whose ranks were already broken. In `WitnessesKept` and
  `RankOrderKept` this is a condition of the property itself.
* `LemmaTextStays` (`LemmaTextReadable`): what is on the least closed set around the start is a chain. The invariant
  `LInv` adds that ranks of lemmata are bounded and that one lemma link leaves each reading (`Linear`). `ChainLinear` shows it of what
  `setLemmaText` writes: were there two lemmata next to each other in the order, the one of least rank would be before the
  other. `Compress` takes a reading out of the chain (`SkipLinear`); all other actions leave lemma links alone.
* `CollationPaths!BaseTextStays` (`BaseTextKept`): duplicates, splits and compressions keep what each base text says. A `Way` is
  a list of readings from start to end in which each has only the next one behind it for that witness. A way repeats
  nothing (`WayOnce`), so it is no longer than there are readings, and the walk of `TextOf` finds it and stops (`WayWalked`); a
  walk that arrives has found one (`WalkFinds`). What is left is to say which way there is after a step and that it spells
  the same: a split puts the parts in the place of the reading (`StretchWay`), a compression takes the second reading out
  (`ShrinkWay`), a duplicate leads the witness through the copy (`RerouteWay`); `JoinAlong` and `JoinWithin` compare
  the words place by place, `DividedJoin` says that the parts of a text are the text. Splits that take words out
  (`SplitShort`) are exempt. For the duplicate the invariant `TInv` says that
  the private links of an open one have a way over the same readings or their copies, for every witness and whatever has been moved so far.
  The hypothesis `[]EndsLast` (no base text goes on behind the end) is needed, as a duplicate of the end would otherwise take
  along what the text needs to stop; `EndStaysLast` says what it leaves out: a merge onto the end, which the code lets
  pass where ranks are broken.
* `CollationPaths!RelatedStayApart` (`RelatedApart`): `ReachedAll` says that the traversal leaves nothing out, because each of its
  rounds meets a new reading or is the last; `WayIsFound` that in a ranked graph pruning by rank cuts off nothing that leads
  to the higher reading, whichever link a reading was met by: were there a way that the walk misses, what it has
  reached and all readings that are ranked as high would be a set that no link leaves, without the higher reading.
* `CollationPaths!MergesKeepText` (`MergeKeepsText`): the same for a merge of two readings of one text, where ranks are
  in order and each witness has its path: by `OnePlace` no witness is on both readings.
* `SectionsOrder!LinksNeverHang`: `TypeOK` of `Sections` is an invariant for any number of concurrent transactions:
  every NEXT link joins sections that are there, and whatever an open transaction deletes or links to is still
  there when it commits. The invariant is inductive because it speaks of the open transactions (`Sound`) and not
  only of the links: `CommitType` shows that a commit leaves the others sound or ends them, which is where the
  locks (`Holds`) are needed.
* `SectionsOrder`: for `SpecBeside`, any number of transactions open at a time, `BesideStaysInOrder` (`InOrder`),
  `BesideKeepsOrder` (`OrderKept`) and `BesideIsList` (`ImplementsList`); for requests one after the other, moves and deletions of every
  kind, `SerialIsList`. The inductive invariant `OInv` has three parts besides the types. `InLine`: some sequence lists every
  section once, and the links are those between its neighbours. `Fits`: what an open transaction is going to write fits that
  sequence, whatever has been committed since it was read: the neighbours it joins are neighbours of what it takes out,
  and all it deletes is still there. `Apart`: the transactions that are open keep apart as `NextBeside` demanded when
  each was opened. A commit that touches what another has read shares a link with it, and so ends it (`Holds`); that is where `Fits`
  of the others comes from. The sequence after a commit is written down for each request (taken out, put last, first,
  or behind another), and is what `SectionList` does to the one before. The list that `produceSectionList` finds is unique
  because two listings agree at each place: else there is a least place where they differ (`Least`).
* `StemmataProofs`: `IInv` joins the types, `LinksOwned`, and that what an open request has saved is coherent and under
  an identity of its own (`SavesSound`); without the last part a commit could replace a stemma and leave its transmissions.
  `TypeCorrect` and `TransmissionsOwned` follow for any number of concurrent requests, on equal names too;
  `StemmaStays` is `StemmaKept`, which needs unique names only in the step itself: a deletion takes the
  transmissions of its name, and by `LinksOwned` those of another stemma have another. `NInv` adds, for `SpecApart`, that
  open requests have different names and that a name under which something is saved and not yet committed is still free;
  `NamesStayUnique` (`NamesUnique`) follows. `TreesRooted` (`TreeRooted`) is about the search for the archetype, which goes
  from witness to witness and up in any order. `WalkEnds`: a walk up a tree meets the top, and meets it last, because
  what comes behind it would have been found from a witness before it, which then has two exemplars. `SearchFinds`: so a
  search finds the top or nothing, in whatever order of witnesses (`Recursion`). `TreeBack`: the nodes of a stemma stand for
  the names of its graph one by one, so that the graph is a tree where the transmissions are. `SavedRooted` keeps this for
  what is saved until the commit.
* `AccountsProofs`: `IInv` says of every open request that what it has looked up is there and that a new tradition is owned by
  nobody while its request has not come to link it; without that the link of an upload could be a second one. `TypeCorrect` and
  `OneOwnerAlways` (`OneOwner`) follow for `Spec`, where any requests run beside each other. `ApartInv` adds what keeping
  apart gives: no other request has the name or the file of an open one, so that the lookup is still true at the
  commit. `IdsStayUnique` (`IdsUnique`) and `OwnersStay` (`OwnerKept`) follow for `SpecApart`.
* `AnnotationsProofs`: `Sound` says of an open request that what it links to or deletes is there, and of a deletion that
  what it takes along is not primary and linked only to what it takes; `Survives` shows that a commit which changes this ends
  the request. `TypeCorrect` and `TakesOnlyDangling` (`OnlyDangling`) follow for `Spec`, from `DoomedDangling`: a member of a least
  closed set that could stay would make a smaller closed set. For `SpecApart`: `NoneStayDangling` (`NoneLeft`) from the fact
  that the set of a deletion stays closed while it is open, `LabelsStayKnown` (`LabelsKnown`) and `LinksStaySingle` (`LinkedOnce`).
  `WalkIsRight` (`WalkAgrees`), for `Spec`, says of the walk that finds what to delete that every order of links comes to the same
  set. `Kept` holds after each of its steps (`OnwardGood`): what it has cut is doomed, and is deleted or on the way
  back; an annotation that it has left dangling is cut or waits to be met. At the end nothing waits, so the set that is cut is
  closed, and no smaller than the least. Nothing is assumed of the links, so circles among annotations are covered,
  and `MaxWalk` may be any number, so that every walk that comes to an end is.
* `ClustersProofs`: `TypeCorrect`; `NoneFailsAlone` (`AloneSucceeds`) from what is known of a request in each of its steps while
  nobody else is open (`Lone`); `AnsweredRecently` (`AnswerIsRecent`) from `RInv`: what others have matched for the
  section is among what is remembered, and so is every graph of the section that is there once the request has dropped
  an old one. The step from the answer back to the graph is that each pair is in a component (`PairsCovered`): when the
  components pass the check the whole graph is of that section.

Induction over data is done where a minimum is enough: a set of numbers has a least member (`SectionsOrder!Least`,
`CollationOrder!Least`, from the library's `WFMin`), so that what holds of all places of a list or all ranks of a graph is shown of
the first that fails. `Recursion` gets the existence of functions defined by recursion on numbers in the same way, and
with it the equations of the ways of a witness (`WalkSteps`) and of `FlattenSeq` (`JoinSteps`), of the search for an archetype and
of the walk of a deletion.
The induction theorems of the library take an operator as parameter, which no prover here can instantiate.

Only model-checked: liveness (`OwnedInTheEnd`), which is out of the prover's reach; and `LayerTextKept`,
where a layer follows the base text for as long as it has no link of its own, so that a way of a layer depends on links of two
kinds.

## 5. Not modelled

* Two requests on one collation at a time (other than the steps of a duplicate after its commit). Their transactions write whole
  arrays of sigla over each other; the private copies of two transactions on the links of a collation do not fit into an
  instance that TLC can finish, and the isolation of single properties is the database's.
* The propagation of a relation over a section or a tradition: a loop over pairs of texts in one transaction, each pass of
  which is the local relation that is modelled.
* Witness texts by `WitnessPath` and the deletion of a witness. The text itself is `CollationText`; the walk follows
  arrays of layers in an order of priority, which a model would only transcribe.
* Placeholders, lacunae, emendations, complex readings, user readings, the readings of sections that are merged. Several of these
  are not committed at all (section 3).
* Temporary links of a normalisation, majority text, alignment, variant lists: computations over a graph within one request.
* Opening of the database: once, when the server starts and before there are requests.
* Parsers appear as the graphs they leave behind, DOT and Newick as the graphs they stand for. Exporters, models, builders
  and configuration have no state of their own.
* All the JavaScript of the repository: data that a generator of documentation wrote, and copies of libraries (lunr,
  angular, bootstrap). The program is the Java code.

## 6. What would come next

1. Two transactions on one link, as a module of its own without the rest of the collation: sigla that two requests add to one
   array are both there, or one of them is told.
2. The propagation of relations, as a refinement of a series of local ones; bind level and transitivity once the code reads them.
3. Merging two sections as an operation on two collations.
4. Proofs: `LayerTextKept`, with ways that change between the links of a layer and those of its base text.
