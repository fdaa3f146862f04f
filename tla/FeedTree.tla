-------------------------------- MODULE FeedTree --------------------------------
(***************************************************************************)
(* The stored tree of the sequencer's database (feed.rs, feed/tree.rs): a  *)
(* publish writes the messages, their nodes and the signed checkpoint in   *)
(* one transaction, a start checks the file against that checkpoint and    *)
(* keeps, completes or rebuilds the nodes, and hands other than the        *)
(* sequencer's write to the file while it is stopped.                      *)
(*                                                                         *)
(* A message is <<session, id>>, and a chain is the sequence it covers.    *)
(* The key is the sequencer's alone: nobody else makes a checkpoint, and   *)
(* what is signed is compared whole.                                       *)
(***************************************************************************)
EXTENDS MerkleTree, Functions

CONSTANTS
    Stranger,                           \* model value: bytes nobody published
    None,                               \* model value: no checkpoint, or no root in it
    MaxLog, MaxBatch,                   \* bounds: messages in all, and in one group
    MaxEdits                            \* bound: writes other hands make

VARIABLES
    file,        \* the database: [rows, nodes, checkpoint]
    feed,        \* the process: where its start stands, and what it holds
    histories,   \* how many sessions something was ever signed for
    edits        \* how many writes other hands have made

vars == <<file, feed, histories, edits>>

Down == [at |-> "down"]

Message(session, id) == <<session, id>>
Published(session, last) == [id \in 1..last |-> Message(session, id)]

Init ==
    /\ file = [rows |-> <<>>, nodes |-> <<>>, checkpoint |-> None]
    /\ feed = Down
    /\ histories = 0 /\ edits = 0

-----------------------------------------------------------------------------
(* feed/tree.rs. *)

\* One past the highest index at level 0.
StoredLeaves(nodes) ==
    Max({0} \cup {at[2] + 1 : at \in {n \in DOMAIN nodes : n[1] = 0}})

StoredNodes(nodes) == Cardinality(DOMAIN nodes)

\* A plain INSERT: a node already stored refuses the group, and so does a
\* child that cannot be read. `tree` is [ok, nodes].
StoreOver(tree, size, leaf) ==
    LET made == AppendNodes(tree.nodes, size, leaf)
    IN  IF tree.ok /\ Missing \notin Range(made)
                   /\ DOMAIN made \cap DOMAIN tree.nodes = {}
        THEN [ok |-> TRUE, nodes |-> made @@ tree.nodes]
        ELSE [ok |-> FALSE, nodes |-> tree.nodes]

\* The leaves of `entries` go behind the first `size`, in one transaction.
StoreAll(nodes, size, entries) ==
    FoldLeft(LAMBDA tree, i : StoreOver(tree, size + i - 1, LeafHash(entries[i])),
             [ok |-> TRUE, nodes |-> nodes],
             [i \in 1..Len(entries) |-> i])

\* The messages behind `from`, read a second time, must be the ones the first
\* pass read: `chain` from the first message on.
Rebuild(from, chain) ==
    LET kept == IF from = 0 THEN <<>> ELSE file.nodes
        again == [i \in 1..(Len(chain) - from) |-> file.rows[from + i]]
        same == /\ DOMAIN file.rows = 1..Len(chain)
                /\ again = SubSeq(chain, from + 1, Len(chain))
        built == StoreAll(kept, from, again)
    IN  IF same THEN built ELSE [ok |-> FALSE, nodes |-> file.nodes]

-----------------------------------------------------------------------------
(* A start: FeedState::with_db. *)

\* A refused start ends the process and leaves the file as it is.
Refuse == feed' = Down /\ UNCHANGED <<file, histories, edits>>

ReadCounts ==
    /\ feed.at = "down"
    /\ feed' = [at |-> "counted", leaves |-> StoredLeaves(file.nodes),
                nodes |-> StoredNodes(file.nodes)]
    /\ UNCHANGED <<file, histories, edits>>

\* Ids without a gap, and the chain the checkpoint signed.
HistoryIsSigned(rows, checkpoint) ==
    /\ DOMAIN rows = 1..Cardinality(DOMAIN rows)
    /\ IF checkpoint = None THEN rows = <<>>
       ELSE checkpoint.chain = [id \in 1..Cardinality(DOMAIN rows) |-> rows[id]]

\* An empty file with no checkpoint is a new history under a name of its own.
CheckHistory ==
    LET point == file.checkpoint
        fresh == [at |-> "checked", leaves |-> feed.leaves, nodes |-> feed.nodes,
                  chain |-> <<>>, session |-> histories + 1, root |-> None]
    IN  /\ feed.at = "counted"
        /\ IF ~HistoryIsSigned(file.rows, point) THEN Refuse
           ELSE /\ feed' = IF point = None THEN fresh
                           ELSE [fresh EXCEPT !.chain = point.chain,
                                              !.session = point.session, !.root = point.root]
                /\ UNCHANGED <<file, histories, edits>>

\* A slip the runs must notice: a tree of the right shape is kept unsigned.
KeepsByShape(start) ==
    /\ start.leaves <= Len(start.chain)
    /\ start.nodes = NodesIn(start.leaves)

\* Stored nodes are kept only if a signed root says what they hash to.
Keeps(start) ==
    /\ start.root # None
    /\ start.leaves <= Len(start.chain)
    /\ start.nodes = NodesIn(start.leaves)

Serving(chain, session) == [at |-> "up", chain |-> chain, session |-> session]

\* The nodes are kept, completed or rebuilt.
TreeAtStart ==
    LET count == Len(feed.chain)
        from == IF Keeps(feed) THEN feed.leaves ELSE 0
    IN  IF from < count THEN Rebuild(from, feed.chain)
        ELSE [ok |-> TRUE, nodes |-> file.nodes]

RootIsSigned(nodes) == feed.root \in {None, RootOver(nodes, Len(feed.chain))}

\* A rebuild commits before the root is compared.
OpenTree ==
    /\ feed.at = "checked"
    /\ IF ~TreeAtStart.ok THEN Refuse
       ELSE /\ file' = [file EXCEPT !.nodes = TreeAtStart.nodes]
            /\ feed' = IF RootIsSigned(TreeAtStart.nodes)
                       THEN Serving(feed.chain, feed.session) ELSE Down
            /\ UNCHANGED <<histories, edits>>

-----------------------------------------------------------------------------
(* Publishing, and stopping. *)

\* The next k messages, and the nodes with theirs; the first group of a history
\* empties the table.
Group(k) == [i \in 1..k |-> Message(feed.session, Len(feed.chain) + i)]

TreeWithGroup(k) ==
    LET size == Len(feed.chain)
    IN  StoreAll(IF size = 0 THEN <<>> ELSE file.nodes, size, Group(k))

\* A group of k messages: rows, nodes and checkpoint commit together, and the
\* root is read back from the nodes the same transaction wrote. A group the
\* database refuses changes nothing.
PublishGroup(k) ==
    LET size == Len(feed.chain)
        group == Group(k)
        tree == TreeWithGroup(k)
        root == RootOver(tree.nodes, size + k)
        point == [session |-> feed.session, chain |-> feed.chain \o group, root |-> root]
    IN  /\ feed.at = "up" /\ size + k <= MaxLog
        /\ tree.ok /\ root # Missing
        /\ (size + 1)..(size + k) \cap DOMAIN file.rows = {}
        /\ file' = [rows |-> [id \in (size + 1)..(size + k) |-> group[id - size]] @@ file.rows,
                    nodes |-> tree.nodes, checkpoint |-> point]
        /\ feed' = [feed EXCEPT !.chain = point.chain]
        /\ histories' = feed.session
        /\ UNCHANGED edits

Publish == \E k \in 1..MaxBatch : PublishGroup(k)

Crash == feed.at # "down" /\ Refuse

-----------------------------------------------------------------------------
(* Other hands, while the sequencer is stopped or has not opened its tree. *)

Writes(next) ==
    /\ feed.at # "up" /\ edits < MaxEdits
    /\ file' = next /\ edits' = edits + 1
    /\ UNCHANGED <<feed, histories>>

\* A row of the node table is deleted, or holds another hash.
LosesNode == \E at \in DOMAIN file.nodes :
    Writes([file EXCEPT !.nodes = Restrict(@, DOMAIN @ \ {at})])

ChangesNode == \E at \in DOMAIN file.nodes :
    Writes([file EXCEPT !.nodes[at] = LeafHash(Stranger)])

\* A node where this history has none yet.
GainsNode == \E at \in AppendedAt(Cardinality(DOMAIN file.rows)) \ DOMAIN file.nodes :
    at[2] < MaxLog /\ Writes([file EXCEPT !.nodes = (at :> LeafHash(Stranger)) @@ @])

\* The way back the refusal names: DELETE FROM merkle_nodes.
DeletesTree == file.nodes # <<>> /\ Writes([file EXCEPT !.nodes = <<>>])

ChangesRow == \E id \in DOMAIN file.rows : Writes([file EXCEPT !.rows[id] = Stranger])

\* DELETE FROM feed_messages, and the checkpoint with it; the nodes stay.
EmptiesHistory ==
    /\ file.checkpoint # None
    /\ Writes([file EXCEPT !.rows = <<>>, !.checkpoint = None])

\* An older build of the sequencer publishes one more message: its checkpoint
\* signs no root, and it may or may not store nodes.
OlderBuild ==
    LET point == file.checkpoint
        size == Len(point.chain)
        next == Message(point.session, size + 1)
        tree == StoreOver([ok |-> TRUE, nodes |-> file.nodes], size, LeafHash(next))
    IN  /\ feed.at = "down" /\ point # None /\ size < MaxLog
        /\ HistoryIsSigned(file.rows, point)
        /\ \E nodes \in {file.nodes, tree.nodes} :
              Writes([file EXCEPT
                  !.nodes = nodes,
                  !.rows = ((size + 1) :> next) @@ @,
                  !.checkpoint = [session |-> point.session,
                                  chain |-> Append(point.chain, next), root |-> None]])

OtherHands ==
    LosesNode \/ ChangesNode \/ GainsNode \/ DeletesTree \/ ChangesRow
        \/ EmptiesHistory \/ OlderBuild

Start == ReadCounts \/ CheckHistory \/ OpenTree

Next == Start \/ Publish \/ Crash \/ OtherHands

Spec == Init /\ [][Next]_vars

-----------------------------------------------------------------------------
(* The reader's walk over the stored tree (reporting.rs, TreeWalk): the       *)
(* messages are folded into the right edge page by page, and the nodes each   *)
(* page makes are compared with the nodes the sequencer serves.               *)

\* /tree/nodes: the stored nodes that leaves from..upto-1 made, the missing
\* ones left out.
Window(nodes, from, upto) ==
    Restrict(nodes, DOMAIN nodes \cap UNION {AppendedAt(leaf) : leaf \in from..(upto - 1)})

\* A slip the runs must notice: a node is taken for that of its first leaf.
FirstLeafUnder(at) == at[2] * 2^at[1]

LastLeafUnder(at) == (at[2] + 1) * 2^at[1] - 1

\* The nodes that differ, are missing or are too many, among those whose last
\* leaf is one of from..upto-1.
CompareNodes(ours, stored, from, upto) ==
    {at \in DOMAIN ours \cup DOMAIN stored :
        /\ LastLeafUnder(at) \in from..(upto - 1)
        /\ ~(at \in DOMAIN ours /\ at \in DOMAIN stored /\ ours[at] = stored[at])}

\* One page: its messages go into the fold, and what they made is compared.
WalkPage(walk, page, nodes) ==
    LET from == walk.fold.leaves
        step(w, entry) ==
            [fold |-> FoldIn(w.fold, entry),
             made |-> AppendNodes(w.fold.edge, w.fold.leaves, LeafHash(entry)) @@ w.made]
        read == FoldLeft(step, [fold |-> walk.fold, made |-> <<>>], page)
        upto == read.fold.leaves
    IN  [fold |-> read.fold,
         faults |-> walk.faults
                    \cup CompareNodes(read.made, Window(nodes, from, upto), from, upto)]

\* The whole history, in pages of `size` messages.
Walk(messages, nodes, size) ==
    LET n == Len(messages)
        page(i) == SubSeq(messages, (i - 1) * size + 1, IF i * size < n THEN i * size ELSE n)
        step(walk, i) == WalkPage(walk, page(i), nodes)
    IN  FoldLeft(step, [fold |-> EmptyFold, faults |-> {}],
                 [i \in 1..((n + size - 1) \div size) |-> i])

=============================================================================
