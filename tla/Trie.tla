-------------------------------- MODULE Trie --------------------------------
(***************************************************************************)
(* The hexary Patricia trie of crates/ivory-state/src/trie.rs and its      *)
(* proofs.  keccak256(bincode(node)) is taken to be injective, so the hash *)
(* of a node is the node itself: a child is the subtree it commits to, the *)
(* node store is the set of subtrees, and two hashes are equal when the    *)
(* nodes are.  NibbleBase stands for 16.                                   *)
(***************************************************************************)
EXTENDS Integers, SequencesExt

CONSTANT NibbleBase

ASSUME NibbleBaseAssumption == NibbleBase \in Nat \ {0, 1}

Nibble == 0 .. NibbleBase - 1

Absent == {}
Present(x) == {x}

EmptyNode == [kind |-> "Empty"]
LeafNode(path, value) == [kind |-> "Leaf", path |-> path, value |-> value]
ExtensionNode(path, child) == [kind |-> "Extension", path |-> path, child |-> child]
BranchNode(children, value) == [kind |-> "Branch", children |-> children, value |-> value]

\* to_nibbles: the high half of each byte first
ToNibbles(key) ==
    FlattenSeq([i \in 1 .. Len(key) |-> <<key[i] \div NibbleBase, key[i] % NibbleBase>>])

Drop(s, n) == SubSeq(s, n + 1, Len(s))

\* common_prefix_len, of two keys or more
CommonPrefixLen(paths) ==
    Max({n \in 0 .. Min({Len(p) : p \in paths}) :
           \A p, q \in paths : SubSeq(p, 1, n) = SubSeq(q, 1, n)})

\* The items whose path starts with the nibbles of start, without them
Below(items, start) ==
    [rest \in {Drop(p, Len(start)) : p \in {q \in DOMAIN items : IsPrefix(start, q)}} |->
        items[start \o rest]]

RECURSIVE BuildNode(_)
\* build_node_collected and store_tree
BuildNode(items) ==
    LET paths == DOMAIN items
        prefix == SubSeq(CHOOSE p \in paths : TRUE, 1, CommonPrefixLen(paths))
        group(i) == Below(items, <<i>>)
    IN  CASE paths = {} -> EmptyNode
          [] \E p \in paths : paths = {p} ->
                LET p == CHOOSE p \in paths : TRUE IN LeafNode(p, items[p])
          [] OTHER ->
                IF prefix # <<>>
                THEN ExtensionNode(prefix, BuildNode(Below(items, prefix)))
                ELSE BranchNode([i \in Nibble |->
                                    IF DOMAIN group(i) = {} THEN Absent
                                    ELSE Present(BuildNode(group(i)))],
                                IF <<>> \in paths THEN Present(items[<<>>]) ELSE Absent)

\* Mutant: the first value of a duplicate key kept.
FirstItems(pairs) ==
    [p \in {ToNibbles(pairs[i][1]) : i \in 1 .. Len(pairs)} |->
        pairs[Min({i \in 1 .. Len(pairs) : ToNibbles(pairs[i][1]) = p})][2]]

\* The map that patricia_nodes collects: a later pair replaces an earlier one.
Items(pairs) ==
    [p \in {ToNibbles(pairs[i][1]) : i \in 1 .. Len(pairs)} |->
        pairs[Max({i \in 1 .. Len(pairs) : ToNibbles(pairs[i][1]) = p})][2]]

PatriciaRoot(pairs) == BuildNode(Items(pairs))
-----------------------------------------------------------------------------
\* Step of the walk from a node with the rest of the key: an answer, or the
\* child to go on with and the key that is left.
Answer(value) == [done |-> TRUE, value |-> value]
Descend(child, rest) == [done |-> FALSE, node |-> child, rest |-> rest]

\* Mutant: a leaf answers for any key that reaches it.
LeafAnyKey(node, rest) == Answer(Present(node.value))
LeafAnswer(node, rest) == Answer(IF node.path = rest THEN Present(node.value) ELSE Absent)

Walk(node, rest) ==
    CASE node.kind = "Empty" -> Answer(Absent)
      [] node.kind = "Leaf" -> LeafAnswer(node, rest)
      [] node.kind = "Extension" ->
            IF IsPrefix(node.path, rest)
            THEN Descend(node.child, Drop(rest, Len(node.path)))
            ELSE Answer(Absent)
      [] node.kind = "Branch" ->
            IF rest = <<>> THEN Answer(node.value)
            ELSE IF node.children[rest[1]] = Absent THEN Answer(Absent)
            ELSE Descend(CHOOSE child \in node.children[rest[1]] : TRUE, Drop(rest, 1))

RECURSIVE ProvePath(_, _)
\* prove: the nodes along the path, the root first, and the value at its end
ProvePath(node, rest) ==
    LET step == Walk(node, rest)
        below == ProvePath(step.node, step.rest)
    IN  IF step.done THEN [nodes |-> <<node>>, value |-> step.value]
        ELSE [nodes |-> <<node>> \o below.nodes, value |-> below.value]

Prove(pairs, key) == ProvePath(PatriciaRoot(pairs), ToNibbles(key))

Failed == [ok |-> FALSE]
Accepted(value) == [ok |-> TRUE, value |-> value]

RECURSIVE VerifyFrom(_, _, _)
\* One round of verify's loop.  An answer must come from the last node, and
\* the last node must give one.
VerifyFrom(expected, rest, proof) ==
    IF proof = <<>> \/ Head(proof) # expected THEN Failed
    ELSE LET step == Walk(Head(proof), rest)
         IN  IF step.done
             THEN IF Len(proof) = 1 THEN Accepted(step.value) ELSE Failed
             ELSE VerifyFrom(step.node, step.rest, Tail(proof))

\* Mutant: verify without the comparison of hashes.
VerifyUnhashed(root, key, proof) ==
    IF proof = <<>> THEN Failed ELSE VerifyFrom(Head(proof), ToNibbles(key), proof)

Verify(root, key, proof) == VerifyFrom(root, ToNibbles(key), proof)
-----------------------------------------------------------------------------
\* The value of the last pair with the key.
Lookup(pairs, key) ==
    LET last == SelectLastInSeq(pairs, LAMBDA p : p[1] = key)
    IN  IF last = 0 THEN Absent ELSE Present(pairs[last][2])

\* patricia_root is a commitment to the map: the order of the pairs and
\* overwritten values do not change it, and any other map has another root.
RootCanonical(pairs, other) ==
    PatriciaRoot(pairs) = PatriciaRoot(other)
        <=> \A key \in {p[1] : p \in ToSet(pairs \o other)} :
                Lookup(pairs, key) = Lookup(other, key)

\* prove finds the value the map has, or none, and verify accepts its nodes
\* with the same answer, for keys inside and outside the map.
ProveVerifies(pairs, key) ==
    LET proof == Prove(pairs, key)
    IN  /\ proof.value = Lookup(pairs, key)
        /\ Verify(PatriciaRoot(pairs), key, proof.nodes) = Accepted(Lookup(pairs, key))

\* verify never gives a wrong answer: whatever nodes it is shown, of this or
\* another trie, cut short or with one too many, what it accepts against a
\* root is the value under that root.
ProofsSound(pairs, key, other, otherKey) ==
    LET root == PatriciaRoot(pairs)
        shown == Prove(other, otherKey).nodes
        sound(nodes) == Verify(root, key, nodes) \in {Failed, Accepted(Lookup(pairs, key))}
    IN  /\ sound(shown)
        /\ sound(Append(shown, root))
        /\ sound(<<root>> \o shown)
        /\ \A n \in 0 .. Len(shown) - 1 : sound(SubSeq(shown, 1, n))
=============================================================================
