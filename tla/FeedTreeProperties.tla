--------------------------- MODULE FeedTreeProperties ---------------------------
(***************************************************************************)
(* What the stored tree promises its readers.                              *)
(***************************************************************************)
EXTENDS FeedTree

CONSTANTS
    PageSizes,      \* the page sizes a reader may walk with
    MaxForged       \* bound: the size of the trees whose false proofs are tried

-----------------------------------------------------------------------------
(* The tree of RFC 9162 as the header of merkle.rs writes it. *)

RECURSIVE MTH(_)
MTH(entries) ==
    LET n == Len(entries)
        k == CHOOSE p \in PowersOfTwo : p < n /\ n <= 2 * p
    IN  CASE n = 0 -> EmptyRoot
          [] n = 1 -> LeafHash(entries[1])
          [] n > 1 -> NodeHash(MTH(SubSeq(entries, 1, k)), MTH(SubSeq(entries, k + 1, n)))

Upto(entries, size) == SubSeq(entries, 1, size)

\* The perfect subtrees of a history, and the hash of each.
TreeOf(entries) ==
    [at \in UNION {AppendedAt(leaf) : leaf \in 0..(Len(entries) - 1)} |->
        MTH(SubSeq(entries, at[2] * 2^at[1] + 1, (at[2] + 1) * 2^at[1]))]

-----------------------------------------------------------------------------

Hashes(nodes) == \A at \in DOMAIN nodes :
    /\ at \in Levels \X (0..(MaxLog - 1))
    /\ nodes[at] # Missing

\* The file, the process and the counters hold what their rows and fields can
\* hold, and no hash of a missing node is ever stored or signed.
TreeTypeOK ==
    /\ DOMAIN file.rows \subseteq 1..MaxLog
    /\ Hashes(file.nodes)
    /\ file.checkpoint # None => /\ file.checkpoint.root # Missing
                                 /\ Len(file.checkpoint.chain) \in 1..MaxLog
                                 /\ file.checkpoint.session \in 1..histories
    /\ feed.at \in {"down", "counted", "checked", "up"}
    /\ histories \in 0..(MaxEdits + 1)
    /\ edits \in 0..MaxEdits

\* The tree that is signed is the tree of the messages that were published: the
\* root served, and the root every checkpoint signs.
SignedTreeIsTheHistory ==
    /\ feed.at = "up" =>
        /\ feed.chain = Published(feed.session, Len(feed.chain))
        /\ RootOver(file.nodes, Len(feed.chain)) = MTH(feed.chain)
    /\ file.checkpoint # None =>
        LET point == file.checkpoint
        IN  /\ point.chain = Published(point.session, Len(point.chain))
            /\ point.root \in {None, MTH(point.chain)}

\* A file only the sequencer wrote to holds exactly the perfect subtrees of its
\* messages, and every start keeps them all: nothing is rebuilt.
UntouchedTreeIsKept ==
    edits = 0 =>
        /\ HistoryIsSigned(file.rows, file.checkpoint)
        /\ file.nodes = TreeOf([id \in 1..Cardinality(DOMAIN file.rows) |-> file.rows[id]])
        /\ feed.at = "checked" =>
            /\ feed.chain # <<>> => Keeps(feed)
            /\ feed.leaves = Len(feed.chain)

\* What is not kept can always be rebuilt, whatever stands in the node table, and
\* a new history can always begin over the nodes of an emptied one.
TreeIsRebuilt ==
    /\ (feed.at = "checked" /\ ~Keeps(feed) /\ file.rows = feed.chain) =>
        TreeAtStart.ok /\ RootIsSigned(TreeAtStart.nodes)
    /\ (feed.at = "up" /\ feed.chain = <<>>) => TreeWithGroup(1).ok

\* Whatever other hands did to the node table, the rows or the checkpoint while
\* the sequencer was stopped or starting, it signs no tree but that of the
\* messages it published; and a start rebuilds nothing in a file it alone wrote,
\* after any crash, so that it never hides what somebody else did, and can
\* rebuild every tree it does not keep (feed.rs 1333, 1378, 1745).
TreeIsTheHistory ==
    TreeTypeOK /\ SignedTreeIsTheHistory /\ UntouchedTreeIsKept /\ TreeIsRebuilt

\* A reader who walks the messages and the nodes page by page, whatever the page
\* size, and finds no fault and the signed root, can be served every proof: each
\* message of each size is proved to be in the tree of that size, and each size
\* to start each later one. A file nobody else wrote to has no fault to find
\* (reporting.rs TreeWalk, merkle.rs compare_nodes).
ServedProofsHold ==
    LET n == Len(feed.chain)
        served == [id \in 1..n |-> file.rows[id]]
        walk(size) == Walk(served, file.nodes, size)
        passes(size) == /\ walk(size).faults = {}
                        /\ FoldRoot(walk(size).fold) = RootOver(file.nodes, n)
    IN  (feed.at = "up" /\ DOMAIN file.rows = 1..n) =>
        /\ edits = 0 => \A size \in PageSizes : passes(size)
        /\ (\E size \in PageSizes : passes(size)) =>
            \A size \in 1..n :
                LET root == MTH(Upto(served, size))
                IN  /\ \A leaf \in 0..(size - 1) :
                        VerifyInclusion(leaf, size, LeafHash(served[leaf + 1]),
                                        Path(file.nodes, leaf, size), root)
                    /\ \A first \in 0..size :
                        VerifyConsistency(first, size, MTH(Upto(served, first)), root,
                                          Proof(file.nodes, first, size))

-----------------------------------------------------------------------------
(* False proofs, over every hash a tree of this size holds. *)

Log(size) == Published(1, size)

KnownHashes(size) ==
    Range(TreeOf(Log(size))) \cup {MTH(Log(s)) : s \in 0..size} \cup {LeafHash(Stranger)}

FalseInclusions(size) ==
    {<<leaf, entry>> \in (0..size) \X (Range(Log(size)) \cup {Stranger}) :
        /\ leaf < size => Log(size)[leaf + 1] # entry
        /\ \E path \in BoundedSeq(KnownHashes(size), 3) :
              VerifyInclusion(leaf, size, LeafHash(entry), path, MTH(Log(size)))}

FalseExtensions(size) ==
    {<<first, root>> \in (0..size) \X KnownHashes(size) :
        /\ root # MTH(Log(first))
        /\ \E path \in BoundedSeq(KnownHashes(size), 4) :
              VerifyConsistency(first, size, root, MTH(Log(size)), path)}

NothingFalseIsProved ==
    \A size \in 1..MaxForged : FalseInclusions(size) = {} /\ FalseExtensions(size) = {}

\* No list of hashes the reader could be sent, right or wrong, makes a verifier
\* accept a message that is not at that place, or an older root that is not the
\* root of that many first messages (merkle.rs 911-1069).
NoFalseProof == edits = 0 => NothingFalseIsProved

\* Every proof a reader was led to expect is there, and no other one is.
ProofsAreRight == ServedProofsHold /\ NoFalseProof

=============================================================================
