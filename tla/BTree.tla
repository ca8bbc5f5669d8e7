-------------------------------- MODULE BTree --------------------------------
(***************************************************************************)
(* The B+ tree of an index file (crates/btree): nodes on numbered pages,   *)
(* leaves chained left to right, a meta page with the root.  insert and    *)
(* delete hold the write lock of the tree from beginning to end, so each   *)
(* is one step; search and range_scan are operators.                       *)
(*                                                                         *)
(* Keys are positive integers; 0 is the empty key of a leftmost child.     *)
(* Sizes in bytes decide when a node is full, so keys have lengths; page   *)
(* size and threshold are constants, 8192 and 300 in the code.             *)
(***************************************************************************)
EXTENDS Integers, Sequences, FiniteSets, SequencesExt

CONSTANTS
  Key, Tid,
  TidOfRow(_),     \* the tuple id of the row with this key
  KeyLen(_),       \* bytes of a key
  PAGE_SIZE, FULL_THRESHOLD,
  MaxPage          \* bound: pages of the file

NODE_HEADER_SIZE == 11

\* What a caller keeps to: an entry is not larger than the room a node that is
\* not full has left.
EntriesFit ==
  /\ Key \subseteq Nat \ {0}
  /\ \A k \in Key : KeyLen(k) \in Nat \ {0} /\ 2 + KeyLen(k) + 6 <= FULL_THRESHOLD

VARIABLES
  pages,   \* node on each page from 1 on
  meta     \* root_page, height, num_entries, next_page

vars == <<pages, meta>>

Leaf(entries, left, right) ==
  [type |-> "Leaf", entries |-> entries, left_sibling |-> left, right_sibling |-> right]
Internal(entries) ==
  [type |-> "Internal", entries |-> entries, left_sibling |-> 0, right_sibling |-> 0]

\* BTree::open of an empty file: the meta page and an empty leaf as root
Init ==
  /\ pages = <<Leaf(<< >>, 0, 0)>>
  /\ meta = [root_page |-> 1, height |-> 1, num_entries |-> 0, next_page |-> 2]

-----------------------------------------------------------------------------
(* Nodes.                                                                  *)

LenOf(k) == IF k = 0 THEN 0 ELSE KeyLen(k)

\* entry_size and encoded_size
EncodedSize(node) ==
  LET size(e) == 2 + LenOf(e.key) + (IF node.type = "Leaf" THEN 6 ELSE 4)
  IN FoldLeft(LAMBDA n, e : n + size(e), NODE_HEADER_SIZE, node.entries)

\* is_full; an unsigned subtraction, so a node too large for the page wraps
\* around and is not full
IsFull(node) ==
  EncodedSize(node) <= PAGE_SIZE /\ PAGE_SIZE - EncodedSize(node) < FULL_THRESHOLD

\* encode refuses a node that is larger than a page
Encodes(node) == EncodedSize(node) <= PAGE_SIZE

\* partition_point: how many entries, from the first on, have a key before k
Before(entries, k) ==
  Cardinality({i \in DOMAIN entries : \A j \in 1..i : entries[j].key < k})
UpTo(entries, k) ==
  Cardinality({i \in DOMAIN entries : \A j \in 1..i : entries[j].key <= k})

\* find_key by binary search over lo..hi-1 (indices from 0, as in the code)
FindKey(node, k) ==
  LET n == Len(node.entries)
      find[lo \in 0..n, hi \in 0..n] ==
        LET mid == lo + (hi - lo) \div 2
            key == node.entries[mid + 1].key
        IN IF lo >= hi THEN 0
           ELSE IF key = k THEN mid + 1
           ELSE IF key < k THEN find[mid + 1, hi]
           ELSE find[lo, mid]
  IN find[0, n]

\* Mutant: the key of a subtree itself is looked for in the subtree before it.
FindChildBefore(node, k) ==
  LET pos == Before(node.entries, k)
  IN node.entries[IF pos = 0 THEN 1 ELSE pos].child_page

\* find_child: the last entry whose key is at most k
FindChild(node, k) ==
  LET pos == UpTo(node.entries, k)
  IN node.entries[IF pos = 0 THEN 1 ELSE pos].child_page

\* Mutant: keys and tuple ids in two arrays, and the tuple id goes to the end.
InsertLeafEntryApart(node, e) ==
  LET keys == InsertAt([i \in DOMAIN node.entries |-> node.entries[i].key],
                       Before(node.entries, e.key) + 1, e.key)
      tids == Append([i \in DOMAIN node.entries |-> node.entries[i].tid], e.tid)
  IN [node EXCEPT !.entries = [i \in DOMAIN keys |-> [key |-> keys[i], tid |-> tids[i]]]]

\* insert_leaf_entry
InsertLeafEntry(node, e) ==
  [node EXCEPT !.entries = InsertAt(@, Before(@, e.key) + 1, e)]

\* insert_internal_entry: the leftmost child, with the empty key, stays first
InsertInternalEntry(node, e) ==
  [node EXCEPT !.entries = InsertAt(@, Before(@, e.key) + 1, e)]

\* split_leaf: the right node, and what is left of the node itself
RightHalf(node) == SubSeq(node.entries, Len(node.entries) \div 2 + 1, Len(node.entries))
LeftHalf(node)  == SubSeq(node.entries, 1, Len(node.entries) \div 2)

\* split_internal: the middle entry's key is promoted, its child becomes the
\* leftmost child of the right node
RightInternal(node) ==
  LET half == RightHalf(node)
  IN Internal(<<[key |-> 0, child_page |-> half[1].child_page]>> \o Tail(half))

-----------------------------------------------------------------------------
(* Reading.                                                                *)

\* find_leaf_path for key k: the pages from the root to the leaf
Path(k) ==
  LET down[p \in DOMAIN pages] ==
        IF pages[p].type = "Leaf" THEN <<p>>
        ELSE <<p>> \o down[FindChild(pages[p], k)]
  IN down[meta.root_page]

\* search: the tuple id of k, 0 for KeyNotFound
Search(k) ==
  LET leaf == pages[Last(Path(k))]
      i    == FindKey(leaf, k)
  IN IF i = 0 THEN 0 ELSE leaf.entries[i].tid

\* The leaf chain from page p on, as range_scan follows it
ChainFrom(p) ==
  LET chain[q \in 0..Len(pages)] ==
        IF q = 0 THEN << >> ELSE <<q>> \o chain[pages[q].right_sibling]
  IN chain[p]

\* Leaf entries in chain order
EntriesFrom(p) ==
  LET chain == ChainFrom(p)
  IN FlattenSeq([i \in DOMAIN chain |-> pages[chain[i]].entries])

\* The leaf range_scan starts from: that of lo, or the leftmost one
FirstLeaf(lo) == Last(Path(lo))

\* range_scan(lo, hi) with both bounds; lo = 0 is a scan without lower bound.
\* It stops at the first key above hi.
RangeScan(lo, hi) ==
  LET all   == SelectSeq(EntriesFrom(FirstLeaf(lo)), LAMBDA e : e.key >= lo)
      above == SelectInSeq(all, LAMBDA e : e.key > hi)
  IN IF above = 0 THEN all ELSE SubSeq(all, 1, above - 1)

-----------------------------------------------------------------------------
(* insert.  An insertion in progress is a record of the pages written so   *)
(* far, whether a split is still to be told to the parent, the key and the *)
(* page to tell it, and the next free page.                                *)

Write(p, node) == [page |-> p, node |-> node]

\* Mutant: the neighbour still points to the leaf that split.
NotRelinked(next, right) == << >>

\* The old right neighbour of a leaf that splits points back to the new one.
Relinked(next, right) ==
  IF next = 0 THEN << >> ELSE <<Write(next, [pages[next] EXCEPT !.left_sibling = right])>>

\* The leaf on page p with the new entry: written, or split in two
LeafStep(p, leaf) ==
  LET right == meta.next_page
      next  == leaf.right_sibling
      old   == Relinked(next, right)
  IN IF ~IsFull(leaf)
     THEN [writes |-> <<Write(p, leaf)>>, split |-> FALSE, key |-> 0, child |-> 0,
           next |-> meta.next_page]
     ELSE [writes |-> old \o <<Write(p, Leaf(LeftHalf(leaf), leaf.left_sibling, right)),
                               Write(right, Leaf(RightHalf(leaf), p, next))>>,
           split  |-> TRUE, key |-> RightHalf(leaf)[1].key, child |-> right,
           next   |-> meta.next_page + 1]

\* The promoted key goes into the parent on page p, which may split in turn.
ParentStep(st, p) ==
  LET parent == InsertInternalEntry(pages[p], [key |-> st.key, child_page |-> st.child])
  IN IF ~st.split THEN st
     ELSE IF ~IsFull(parent)
     THEN [st EXCEPT !.writes = Append(@, Write(p, parent)), !.split = FALSE]
     ELSE [writes |-> st.writes \o <<Write(p, Internal(LeftHalf(parent))),
                                     Write(st.next, RightInternal(parent))>>,
           split  |-> TRUE, key |-> RightHalf(parent)[1].key, child |-> st.next,
           next   |-> st.next + 1]

\* A split that reaches the top makes a new root above the old one.
RootStep(st) ==
  LET root == Internal(<<[key |-> 0, child_page |-> meta.root_page],
                         [key |-> st.key, child_page |-> st.child]>>)
  IN IF ~st.split THEN st
     ELSE [st EXCEPT !.writes = Append(@, Write(st.next, root)), !.next = @ + 1]

\* All of it, from the leaf at the end of the path to the root
Inserted(k, t) ==
  LET path == Path(k)
      leaf == InsertLeafEntry(pages[Last(path)], [key |-> k, tid |-> t])
      up[i \in DOMAIN path] ==
        IF i = Len(path) THEN LeafStep(path[i], leaf) ELSE ParentStep(up[i + 1], path[i])
  IN RootStep(up[1])

\* Mutant: the page of a split that stops below the root is not accounted for.
NewMetaOfRoot(st) ==
  LET grown == meta.num_entries + 1
  IN IF st.split
     THEN [root_page |-> st.next - 1, height |-> meta.height + 1, num_entries |-> grown,
           next_page |-> st.next]
     ELSE [meta EXCEPT !.num_entries = grown]

NewMeta(st) ==
  LET grown == meta.num_entries + 1
  IN IF st.split
     THEN [root_page |-> st.next - 1, height |-> meta.height + 1, num_entries |-> grown,
           next_page |-> st.next]
     ELSE [meta EXCEPT !.num_entries = grown, !.next_page = st.next]

\* write_page, one after the other
Written(ws) ==
  [p \in 1..Len(pages) + Cardinality({i \in DOMAIN ws : ws[i].page > Len(pages)}) |->
     LET i == SelectLastInSeq(ws, LAMBDA w : w.page = p)
     IN IF i = 0 THEN pages[p] ELSE ws[i].node]

\* insert: DuplicateKey leaves the tree alone.  A node that does not encode
\* ends it with an error, after the pages before it and without the meta page.
Insert(k, t) ==
  LET st  == Inserted(k, t)
      bad == SelectInSeq(st.writes, LAMBDA w : ~Encodes(w.node))
  IN /\ FindKey(pages[Last(Path(k))], k) = 0
     /\ st.next <= MaxPage + 1
     /\ IF bad = 0
        THEN pages' = Written(st.writes) /\ meta' = NewMeta(st)
        ELSE pages' = Written(SubSeq(st.writes, 1, bad - 1)) /\ UNCHANGED meta

\* delete: the leaf may become empty, and stays where it is.
Delete(k) ==
  LET p == Last(Path(k))
      i == FindKey(pages[p], k)
  IN /\ i # 0
     /\ pages' = [pages EXCEPT ![p].entries = RemoveAt(@, i)]
     /\ meta' = [meta EXCEPT !.num_entries = IF @ = 0 THEN 0 ELSE @ - 1]

Next == \E k \in Key : Delete(k) \/ Insert(k, TidOfRow(k))

Spec == Init /\ [][Next]_vars

-----------------------------------------------------------------------------
(* Properties.                                                             *)

\* The types of the variables.
TypeOK ==
  /\ Len(pages) <= MaxPage /\ meta.next_page = Len(pages) + 1
  /\ meta.root_page \in DOMAIN pages /\ meta.num_entries \in 0..Cardinality(Key)
  /\ \A p \in DOMAIN pages :
       {pages[p].left_sibling, pages[p].right_sibling} \subseteq DOMAIN pages \cup {0}

AllEntries == EntriesFrom(FirstLeaf(0))
TidOf(k) == (CHOOSE e \in ToSet(AllEntries) : e.key = k).tid
Keys == {e.key : e \in ToSet(AllEntries)}

\* Splits and deletes keep every leaf at the depth the meta page says and on the
\* chain of leaves, the chain readable both ways, and the count of entries right.
TreeShape ==
  LET leaves == ChainFrom(FirstLeaf(0))
  IN /\ \A k \in Key : Len(Path(k)) = meta.height
     /\ ToSet(leaves) = {p \in DOMAIN pages : pages[p].type = "Leaf"}
     /\ \A i \in DOMAIN leaves :
          pages[leaves[i]].left_sibling = IF i = 1 THEN 0 ELSE leaves[i - 1]
     /\ meta.num_entries = Len(AllEntries)

\* Whatever splits and deletes have happened, search finds a key exactly if the
\* chain of leaves holds it, and a range scan returns the keys of the range, each
\* once and in order, from whatever leaf it starts.
ReadsAgree ==
  LET keys == Keys
  IN /\ \A k \in Key : Search(k) = IF k \in keys THEN TidOf(k) ELSE 0
     /\ \A lo \in Key \cup {0}, hi \in Key :
          LET found == RangeScan(lo, hi)
          IN [i \in DOMAIN found |-> found[i].key] = SetToSortSeq({k \in keys : lo <= k /\ k <= hi}, <)

\* The pairs in the leaves
Content == UNION {{<<e.key, e.tid>> : e \in ToSet(pages[p].entries)} :
                    p \in {q \in DOMAIN pages : pages[q].type = "Leaf"}}

Map == INSTANCE SortedMap WITH map <- Content

\* The leaves hold a sorted map: an insertion adds its own key and changes no
\* other, through however many splits.
ImplementsMap == Map!Spec

=============================================================================
