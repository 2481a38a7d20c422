------------------------------ MODULE Xtreams ------------------------------
(***************************************************************************)
(* Stream graph wiring of src/xtreams.cpp.  A node has an input_fn fixed   *)
(* when it is made and a mutable output_fn.  create_xtream_node makes a    *)
(* node whose input runs the user function and hands results to the        *)
(* node's output_fn as it is at call time; operator+ makes a fan-out node  *)
(* whose input calls two nodes' inputs.  The four joins (operator>>) copy  *)
(* the right operand's input_fn into the left tail's output_fn and return  *)
(* a new list (a deque of shared node pointers, copied by value).          *)
(*                                                                         *)
(* Since input_fn never changes, "output_fn = r->input_fn" is recorded as  *)
(* out[n] = r.  The user function of a node forwards each event once; a    *)
(* node whose output_fn is still null_fn ends the path (a sink).           *)
(***************************************************************************)
EXTENDS Naturals, FiniteSets, Sequences, SequencesExt

CONSTANTS
  FnNodes,      \* nodes made by create_xtream_node
  JoinNodes,    \* nodes made by operator+ (child_join)
  Null,         \* null_fn
  Overflow,     \* the recursion of input_fn calls never ends (a cycle)
  MaxListLen,   \* bound: length of a list the program builds
  Rules         \* the rules callers keep when they join (see MayExtend)

Nodes == FnNodes \cup JoinNodes

ASSUME /\ FnNodes \cap JoinNodes = {}
       /\ Null \notin Nodes /\ Overflow \notin Nodes
       /\ MaxListLen \in Nat
       /\ Rules \subseteq {"fn_tail", "tails_only", "acyclic"}

VARIABLES
  created,    \* nodes made so far
  fan,        \* fan[j]: the <<left, right>> a fan-out node calls
  out,        \* out[n]: the node whose input_fn n's output_fn holds, or Null
  held,       \* the lists (xtreams_t values) the program has built
  delivered   \* push_event: the list pushed and the nodes entered, in order

vars == <<created, fan, out, held, delivered>>

Lists == {L \in BoundedSeq(Nodes, MaxListLen) : L # <<>>}

TypeOK ==
  /\ created \subseteq Nodes
  /\ fan \in [JoinNodes -> {<<>>} \cup (Nodes \X Nodes)]
  /\ out \in [Nodes -> Nodes \cup {Null}]
  /\ held \subseteq Lists
  /\ delivered \in [list : Seq(Nodes), trace : Seq(Nodes \cup {Overflow})]

Init ==
  /\ created = {}
  /\ fan = [j \in JoinNodes |-> <<>>]
  /\ out = [n \in Nodes |-> Null]
  /\ held = {}
  /\ delivered = [list |-> <<>>, trace |-> <<>>]

-----------------------------------------------------------------------------
(* Calling node n's input_fn: a function node runs and forwards to its     *)
(* output_fn; a fan-out node calls its left then its right input.  Depth   *)
(* d bounds the recursion: an acyclic path has at most |Nodes| nodes.      *)
RECURSIVE Visit(_, _)
Visit(n, d) ==
  IF n = Null THEN <<>>
  ELSE IF d = 0 THEN <<Overflow>>
  ELSE IF n \in FnNodes THEN <<n>> \o Visit(out[n], d - 1)
  ELSE <<n>> \o Visit(fan[n][1], d - 1) \o Visit(fan[n][2], d - 1)

Trace(n) == Visit(n, Cardinality(Nodes) + 1)

(* The rules callers may keep when a join overwrites tail t's output_fn    *)
(* with r's input_fn: t is a function node (a fan-out node never calls its *)
(* output_fn); no list built earlier passes through t; r does not lead     *)
(* back to t.                                                              *)
MayExtend(t, r) ==
  /\ "fn_tail" \in Rules => t \in FnNodes
  /\ "tails_only" \in Rules => \A M \in held : \A k \in 1 .. Len(M) - 1 : M[k] # t
  /\ "acyclic" \in Rules => t \notin ToSet(Trace(r))

(* A join: t's output_fn becomes r's input_fn and list L is returned.      *)
Wire(t, r, L) ==
  /\ Len(L) <= MaxListLen
  /\ MayExtend(t, r)
  /\ out' = [out EXCEPT ![t] = r]
  /\ held' = held \cup {L}
  /\ UNCHANGED <<created, fan, delivered>>

create_xtream_node(n) ==
  /\ n \in FnNodes \ created
  /\ created' = created \cup {n}
  /\ UNCHANGED <<fan, out, held, delivered>>

(* Bug variant of child_join: the new node keeps only its left input.     *)
child_join_left_only(j, left, right) ==
  /\ j \in JoinNodes \ created
  /\ {left, right} \subseteq created
  /\ created' = created \cup {j}
  /\ fan' = [fan EXCEPT ![j] = <<left>>]
  /\ UNCHANGED <<out, held, delivered>>

(* operator+ / child_join: a new node calling left's then right's input.   *)
child_join(j, left, right) ==
  /\ j \in JoinNodes \ created
  /\ {left, right} \subseteq created
  /\ created' = created \cup {j}
  /\ fan' = [fan EXCEPT ![j] = <<left, right>>]
  /\ UNCHANGED <<out, held, delivered>>

(* node >> node *)
join_node_node(left, right) == Wire(left, right, <<left, right>>)

(* list >> list: left.back()->output_fn = right.front()->input_fn *)
join_list_list(left, right) == Wire(Last(left), Head(right), left \o right)

(* list >> node: left.back()->output_fn = right->input_fn *)
join_list_node(left, right) == Wire(Last(left), right, Append(left, right))

(* Bug variant of join_node_list: push_back instead of push_front.         *)
join_node_list_push_back(left, right) ==
  Wire(left, Head(right), right \o <<left>>)

(* node >> list: left->output_fn = right.front()->input_fn, push_front *)
join_node_list(left, right) == Wire(left, Head(right), <<left>> \o right)

(* push_event on a list: the head's input_fn. *)
push_event(L) ==
  /\ delivered' = [list |-> L, trace |-> Trace(Head(L))]
  /\ UNCHANGED <<created, fan, out, held>>

Next ==
  \/ \E n \in FnNodes : create_xtream_node(n)
  \/ \E j \in JoinNodes, l, r \in created : child_join(j, l, r)
  \/ \E l, r \in created : join_node_node(l, r)
  \/ \E L, M \in held : join_list_list(L, M)
  \/ \E L \in held, r \in created : join_list_node(L, r)
  \/ \E l \in created, M \in held : join_node_list(l, M)
  \/ \E L \in held : push_event(L)

Spec == Init /\ [][Next]_vars

-----------------------------------------------------------------------------
RECURSIVE IsSubSeq(_, _)
IsSubSeq(s, t) ==
  \/ s = <<>>
  \/ /\ t # <<>>
     /\ IF Head(s) = Head(t) THEN IsSubSeq(Tail(s), Tail(t))
                             ELSE IsSubSeq(s, Tail(t))

(* A list behaves as the chain it was built as (spec 3.3, 4.2): pushing an *)
(* event into a list the program holds enters every node of the list, in   *)
(* list order, and the calls end.  Breaks when a later join rewires a node *)
(* inside an earlier list, or a join closes a cycle.                        *)
ChainDelivery ==
  delivered.list # <<>> =>
    /\ IsSubSeq(delivered.list, delivered.trace)
    /\ Overflow \notin ToSet(delivered.trace)
=============================================================================
