------------------------------- MODULE AvlMap -------------------------------
(***************************************************************************)
(* Map, the persistent AVL tree of src/runtime/sprout_runtime.c, under the  *)
(* prelude's Dict and Set.  A handle is the tree it stands for: nodes are   *)
(* never changed once built, so sharing cannot be told from copying (what   *)
(* the collector does with the path copies is GenGC's subject).  strcmp is  *)
(* the order of the keys, modelled as integers.                             *)
(***************************************************************************)
EXTENDS Integers, SequencesExt

CONSTANTS MapKeys,     \* a set of integers
          MapValues    \* the words stored, among them LlongMin

\* LLONG_MIN, which bst_get returns for a key that is absent.
LlongMin == "LLONG_MIN"

VARIABLES map,       \* the handle held by the program
          mapDict    \* the entries put in and not taken out

mapVars == <<map, mapDict>>

Nil == <<>>
MapInit == map = Nil /\ mapDict = Nil

-----------------------------------------------------------------------------
(* Nodes and rotations *)

bst_height(t) == IF t = Nil THEN 0 ELSE t.height
bst_size(t)   == IF t = Nil THEN 0 ELSE t.size
Taller(a, b)  == IF bst_height(a) > bst_height(b) THEN bst_height(a) ELSE bst_height(b)
\* A new node with the entry of n; bst_update sets its height and size.
Node(n, left, right) ==
  [key |-> n.key, value |-> n.value, left |-> left, right |-> right,
   height |-> 1 + Taller(left, right), size |-> 1 + bst_size(left) + bst_size(right)]

bst_bf(t) == IF t = Nil THEN 0 ELSE bst_height(t.left) - bst_height(t.right)
bst_rotate_right(a) == LET b == a.left IN Node(b, b.left, Node(a, b.right, a.right))
bst_rotate_left(a)  == LET b == a.right IN Node(b, Node(a, a.left, b.left), b.right)

\* Mutant: the inner-grandchild cases are rotated once.
bst_balance_SingleOnly(t) ==
  IF bst_bf(t) > 1 THEN bst_rotate_right(t)
  ELSE IF bst_bf(t) < -1 THEN bst_rotate_left(t)
  ELSE t
bst_balance(t) ==
  IF bst_bf(t) > 1
  THEN bst_rotate_right(IF bst_bf(t.left) < 0 THEN Node(t, bst_rotate_left(t.left), t.right) ELSE t)
  ELSE IF bst_bf(t) < -1
  THEN bst_rotate_left(IF bst_bf(t.right) > 0 THEN Node(t, t.left, bst_rotate_right(t.right)) ELSE t)
  ELSE t

-----------------------------------------------------------------------------
(* Insertion and removal *)

RECURSIVE bst_insert_node(_, _, _)
bst_insert_node(t, k, v) ==
  IF t = Nil THEN Node([key |-> k, value |-> v], Nil, Nil)
  ELSE IF k = t.key THEN [t EXCEPT !.value = v]
  ELSE bst_balance(IF k < t.key THEN Node(t, bst_insert_node(t.left, k, v), t.right)
                   ELSE Node(t, t.left, bst_insert_node(t.right, k, v)))

RECURSIVE bst_find_min(_)
bst_find_min(t) == IF t.left = Nil THEN t ELSE bst_find_min(t.left)

RECURSIVE bst_remove_min(_)
bst_remove_min(t) ==
  IF t.left = Nil THEN t.right ELSE bst_balance(Node(t, bst_remove_min(t.left), t.right))

RECURSIVE bst_remove_node(_, _)
bst_remove_node(t, k) ==
  IF t = Nil THEN Nil
  ELSE IF k # t.key
  THEN bst_balance(IF k < t.key THEN Node(t, bst_remove_node(t.left, k), t.right)
                   ELSE Node(t, t.left, bst_remove_node(t.right, k)))
  ELSE IF t.left = Nil THEN t.right
  ELSE IF t.right = Nil THEN t.left
  ELSE bst_balance(Node(bst_find_min(t.right), t.left, bst_remove_min(t.right)))

-----------------------------------------------------------------------------
(* Lookups *)

RECURSIVE bst_has_key(_, _)
bst_has_key(t, k) == t # Nil /\ (k = t.key \/ bst_has_key(IF k < t.key THEN t.left ELSE t.right, k))

RECURSIVE bst_get(_, _)
bst_get(t, k) == IF t = Nil THEN LlongMin
                 ELSE IF k = t.key THEN t.value
                 ELSE bst_get(IF k < t.key THEN t.left ELSE t.right, k)

Nothing == <<>>
Just(x) == <<x>>
map_get(t, k) == IF bst_get(t, k) = LlongMin THEN Nothing ELSE Just(bst_get(t, k))

\* Positions count from 0.
RECURSIVE bst_nth_node(_, _)
bst_nth_node(t, n) ==
  IF t = Nil THEN Nil
  ELSE IF n < bst_size(t.left) THEN bst_nth_node(t.left, n)
  ELSE IF n = bst_size(t.left) THEN t
  ELSE bst_nth_node(t.right, n - bst_size(t.left) - 1)

RECURSIVE bst_to_list_acc(_, _)
bst_to_list_acc(t, tail) ==
  IF t = Nil THEN tail ELSE bst_to_list_acc(t.left, <<t.key>> \o bst_to_list_acc(t.right, tail))

-----------------------------------------------------------------------------
(* The builtins *)

map_set(k, v) ==
  /\ map' = bst_insert_node(map, k, v)
  /\ mapDict' = [x \in DOMAIN mapDict \cup {k} |-> IF x = k THEN v ELSE mapDict[x]]

\* An absent key changes nothing: the map itself is returned.
map_remove(k) ==
  /\ map' = IF bst_has_key(map, k) THEN bst_remove_node(map, k) ELSE map
  /\ mapDict' = [x \in DOMAIN mapDict \ {k} |-> mapDict[x]]

MapNext == \E k \in MapKeys : map_remove(k) \/ \E v \in MapValues : map_set(k, v)

-----------------------------------------------------------------------------
(* Properties *)

RECURSIVE Nodes(_)
Nodes(t) == IF t = Nil THEN {} ELSE {t} \cup Nodes(t.left) \cup Nodes(t.right)

(* After any sequence of insertions and removals the map holds exactly the  *)
(* entries put in and not taken out, every way of reading it agrees (keys   *)
(* in order, the n-th entry, the size), and it is balanced: the subtrees of *)
(* every node differ in height by at most one.                              *)
MapSound ==
  LET keys == bst_to_list_acc(map, <<>>)
  IN /\ Range(keys) = DOMAIN mapDict /\ \A i \in 2 .. Len(keys) : keys[i - 1] < keys[i]
     /\ bst_size(map) = Len(keys)
     /\ \A i \in 1 .. Len(keys) :
          LET n == bst_nth_node(map, i - 1) IN n.key = keys[i] /\ n.value = mapDict[keys[i]]
     /\ bst_nth_node(map, Len(keys)) = Nil
     /\ \A k \in MapKeys : (k \in DOMAIN mapDict /\ mapDict[k] # LlongMin) => map_get(map, k) = Just(mapDict[k])
     /\ \A k \in MapKeys \ DOMAIN mapDict : map_get(map, k) = Nothing
     /\ \A n \in Nodes(map) : bst_bf(n) \in -1 .. 1

=============================================================================
