------------------------------ MODULE Blossom -------------------------------
(***************************************************************************)
(* maximumWeightMatching of the Swiss engine: Edmonds' blossom algorithm   *)
(* on a general graph (core/pairing/swiss/blossom.ts).  One action is one  *)
(* neighbour looked at, one change of the duals, or the turn of a stage.   *)
(*                                                                         *)
(* Vertices are 1..n and blossoms n+1..2n; 0 stands for none.  An end of   *)
(* the edge k is <<k, 1>> or <<k, 2>>, the code's endpoints 2k and 2k + 1. *)
(* `forest` is everything the search keeps: it is one record because every *)
(* helper of the code changes most of it.                                  *)
(*                                                                         *)
(* Of two definitions of one thing the first is a plausible mistake: the   *)
(* second is the code's, and the specification uses no other.              *)
(***************************************************************************)
EXTENDS Integers, FiniteSets, SequencesExt

CONSTANTS
  Inputs        \* the graphs: [n |-> vertices, edges |-> a sequence of [ends, w]]

VARIABLES graph, forest, pc, stage, at, todo

vars == <<graph, forest, pc, stage, at, todo>>

NoEnd == <<0, 0>>

-----------------------------------------------------------------------------
(* The graph.  Weights are doubled, so that every dual stays an integer. *)

Vertices == 1..graph.n
Blossoms == (graph.n + 1)..(2 * graph.n)
Edges == DOMAIN graph.edges

End(p) == graph.edges[p[1]].ends[p[2]]
Opposite(p) == <<p[1], 3 - p[2]>>
Turned(p, trick) == IF trick = 1 THEN Opposite(p) ELSE p
Doubled(k) == 2 * graph.edges[k].w

\* The numbers among 1..max that a set holds, in order.
InOrder(S, max) == SelectSeq([i \in 1..max |-> i], LAMBDA i : i \in S)

\* The far ends of the edges at v, in the order of the edges.
Neighbend(v) ==
  LET near(k) == {i \in 1..2 : graph.edges[k].ends[i] = v}
      at_v == InOrder({k \in Edges : near(k) # {}}, Len(graph.edges))
  IN [i \in DOMAIN at_v |-> <<at_v[i], 3 - CHOOSE x \in near(at_v[i]) : TRUE>>]

Slack(f, k) == f.dual[End(<<k, 1>>)] + f.dual[End(<<k, 2>>)] - 2 * Doubled(k)

\* The first of a sequence of edges whose slack is least, or none.
Tightest(f, s) ==
  IF s = <<>> THEN 0
  ELSE s[CHOOSE i \in DOMAIN s : \A j \in DOMAIN s :
           Slack(f, s[i]) < Slack(f, s[j]) \/ (Slack(f, s[i]) = Slack(f, s[j]) /\ i <= j)]

RECURSIVE Leaves(_, _)
Leaves(f, b) ==
  IF b <= graph.n THEN <<b>>
  ELSE FlattenSeq([i \in DOMAIN f.childs[b] |-> Leaves(f, f.childs[b][i])])

Fail(f) == [f EXCEPT !.error = TRUE]

\* x's entry of a sequence that is read round and round, from index 0.
Wrap(s, x) == s[(x % Len(s)) + 1]

\* From the child at index i of a blossom the even way round to its base: the index
\* it starts from, the step, and which end of an edge comes first.
Way(i, len) == IF i % 2 = 1 THEN [j |-> i - len, step |-> 1, trick |-> 0]
               ELSE [j |-> i, step |-> -1, trick |-> 1]

-----------------------------------------------------------------------------
(* Labels: 1 is S, 2 is T, 0 is free. *)

\* assignLabel: a T-blossom hands the label S on to the mate of its base.
RECURSIVE AssignLabel(_, _, _, _)
AssignLabel(f, w, t, p) ==
  LET b == f.inblossom[w]
      m == f.mate[f.base[b]]
      g == [f EXCEPT !.label[w] = t, !.label[b] = t, !.labelend[w] = p, !.labelend[b] = p,
                     !.best[w] = 0, !.best[b] = 0]
  IN IF t = 1 THEN [g EXCEPT !.queue = @ \o Leaves(f, b)]
     ELSE IF m = NoEnd THEN Fail(g) ELSE AssignLabel(g, End(m), 1, Opposite(m))

\* scanBlossom: where the ways back from v and w meet, or nowhere.
RECURSIVE Meeting(_, _, _, _)
Meeting(f, v, w, seen) ==
  IF v = 0 THEN 0
  ELSE LET b == f.inblossom[v]
           back == IF f.labelend[b] = NoEnd THEN 0
                   ELSE End(f.labelend[f.inblossom[End(f.labelend[b])]])
       IN IF b \in seen THEN f.base[b]
          ELSE IF w # 0 THEN Meeting(f, w, back, seen \cup {b})
          ELSE Meeting(f, back, 0, seen \cup {b})

-----------------------------------------------------------------------------
(* Blossoms. *)

RECURSIVE Climb(_, _, _)
Climb(f, v, top) ==
  LET b == f.inblossom[v] IN
  IF b = top THEN <<>> ELSE <<b>> \o Climb(f, End(f.labelend[b]), top)

\* What the delta of two S-blossoms needs: of the edges that leave the new blossom
\* b for an S-blossom, the tightest to each.
Known(s) == SelectSeq(s, LAMBDA k : k # 0)
BestEdges(f, b, edges) ==
  LET outer(k) == IF f.inblossom[End(<<k, 2>>)] = b THEN f.inblossom[End(<<k, 1>>)]
                  ELSE f.inblossom[End(<<k, 2>>)]
      to(o) == IF o = b \/ f.label[o] # 1 THEN 0
               ELSE Tightest(f, SelectSeq(edges, LAMBDA k : outer(k) = o))
  IN Known([o \in DOMAIN f.label |-> to(o)])

EdgesAt(ends) == [j \in DOMAIN ends |-> ends[j][1]]
EdgesOf(f, b) ==
  IF b \in DOMAIN f.bests THEN f.bests[b]
  ELSE FoldLeft(LAMBDA s, v : s \o EdgesAt(Neighbend(v)), <<>>, Leaves(f, b))

\* The T-vertices of a new S-blossom are S from now on, and are looked at.
NoneAwake(f, leaves) == <<>>
Awake(f, leaves) == SelectSeq(leaves, LAMBDA v : f.label[f.inblossom[v]] = 2)

\* addBlossom: the odd cycle closed by the edge k becomes one S-blossom.
Closed(f, b, base, childs, endps, leaves) ==
  [f EXCEPT
     !.unused = Front(@), !.base[b] = base, !.childs[b] = childs, !.endps[b] = endps,
     !.parent = [x \in DOMAIN @ |-> IF x \in Range(childs) THEN b ELSE IF x = b THEN 0 ELSE @[x]],
     !.label[b] = 1, !.labelend[b] = f.labelend[Head(childs)], !.dual[b] = 0,
     !.queue = @ \o Awake(f, leaves),
     !.inblossom = [v \in DOMAIN @ |-> IF v \in Range(leaves) THEN b ELSE @[v]]]

Listed(f, b, inside, list) ==
  [f EXCEPT !.bests = [x \in (DOMAIN @ \ inside) \cup {b} |-> IF x = b THEN list ELSE @[x]],
            !.best = [x \in DOMAIN @ |-> IF x \in inside THEN 0
                                         ELSE IF x = b THEN Tightest(f, list) ELSE @[x]]]

WithBest(f, b, edges) == Listed(f, b, Range(f.childs[b]), BestEdges(f, b, edges))

CloseCycle(f, b, base, k, left, right) ==
  LET childs == <<f.inblossom[base]>> \o Reverse(left) \o right
      back(side) == [i \in DOMAIN side |-> f.labelend[side[i]]]
      endps == Reverse(back(left)) \o << <<k, 1>> >> \o [i \in DOMAIN right |-> Opposite(back(right)[i])]
      leaves == FlattenSeq([i \in DOMAIN childs |-> Leaves(f, childs[i])])
      edges == FlattenSeq([i \in DOMAIN childs |-> EdgesOf(f, childs[i])])
  IN WithBest(Closed(f, b, base, childs, endps, leaves), b, edges)

AddBlossom(f, base, k) ==
  IF f.unused = <<>> THEN Fail(f)
  ELSE CloseCycle(f, Last(f.unused), base, k, Climb(f, End(<<k, 1>>), f.inblossom[base]),
                  Climb(f, End(<<k, 2>>), f.inblossom[base]))

\* expandBlossom, of a T-blossom in mid-stage: the children on the even way from the
\* one it was reached by to the base are labelled again ...
RECURSIVE RelabelWay(_, _, _, _, _)
RelabelWay(f, b, way, j, p) ==
  IF j = 0 THEN [f |-> f, p |-> p]
  ELSE LET near == Wrap(f.endps[b], j - way.trick)
           far == Turned(Wrap(f.endps[b], j + way.step - way.trick), way.trick)
           g == [f EXCEPT !.label[End(Opposite(p))] = 0,
                          !.label[End(Opposite(Turned(near, way.trick)))] = 0]
           h == AssignLabel(g, End(Opposite(p)), 2, p)
       IN RelabelWay([h EXCEPT !.allowed = @ \cup {near[1], far[1]}], b, way, j + 2 * way.step, far)

\* ... and those on the other way as far as a neighbour reached them.
Relabelled(f, child) ==
  LET reached == SelectSeq(Leaves(f, child), LAMBDA v : f.label[v] # 0)
      v == Head(reached)
      g == [f EXCEPT !.label[v] = 0, !.label[End(f.mate[f.base[child]])] = 0]
  IN IF f.label[child] = 1 \/ reached = <<>> THEN f
     ELSE IF f.label[v] # 2 THEN Fail(f)
     ELSE AssignLabel(g, v, 2, f.labelend[v])

RelabelBase(f, top, p) ==
  [f EXCEPT !.label[End(Opposite(p))] = 2, !.label[top] = 2,
            !.labelend[End(Opposite(p))] = p, !.labelend[top] = p, !.best[top] = 0]

\* The children from the base on that come before the entry.
Before(entry, round) ==
  SubSeq(round, 1, (CHOOSE i \in 1..(Len(round) + 1) :
                      /\ i <= Len(round) => round[i] = entry
                      /\ \A j \in 1..(i - 1) : round[j] # entry) - 1)

RelabelBoth(g, childs, entry, way) ==
  FoldLeft(Relabelled, RelabelBase(g.f, Head(childs), g.p),
           Before(entry, [i \in 1..(Len(childs) - 1) |-> Wrap(childs, i * way.step)]))

RelabelFrom(f, b, entry, way) ==
  RelabelBoth(RelabelWay(f, b, way, way.j, f.labelend[b]), f.childs[b], entry, way)

IndexOf(s, x) == CHOOSE i \in DOMAIN s : s[i] = x

RelabelChildren(f, b) ==
  LET entry == f.inblossom[End(Opposite(f.labelend[b]))]
  IN RelabelFrom(f, b, entry, Way(IndexOf(f.childs[b], entry) - 1, Len(f.childs[b])))

Dropped(f, b) ==
  [f EXCEPT !.label[b] = -1, !.labelend[b] = NoEnd, !.childs[b] = <<>>, !.endps[b] = <<>>,
            !.base[b] = 0, !.best[b] = 0, !.bests = [x \in DOMAIN @ \ {b} |-> @[x]],
            !.unused = Append(@, b)]

\* At the end of a stage children whose dual is zero are expanded, too.
Freed(f, s) ==
  [f EXCEPT !.inblossom = [v \in DOMAIN @ |-> IF v \in Range(Leaves(f, s)) THEN s ELSE @[v]]]

RECURSIVE ExpandBlossom(_, _, _)
ExpandBlossom(f, b, endstage) ==
  LET release(g, s) ==
        IF s > graph.n /\ endstage /\ g.dual[s] = 0
        THEN ExpandBlossom([g EXCEPT !.parent[s] = 0], s, endstage)
        ELSE Freed([g EXCEPT !.parent[s] = 0], s)
      relabel(g) == IF ~endstage /\ f.label[b] = 2 THEN RelabelChildren(g, b) ELSE g
  IN Dropped(relabel(FoldLeft(release, f, f.childs[b])), b)

-----------------------------------------------------------------------------
(* Augmenting. *)

RECURSIVE ChildWith(_, _, _)
ChildWith(f, b, x) == IF f.parent[x] = b THEN x ELSE ChildWith(f, b, f.parent[x])

\* augmentBlossom: the edges of the cycle change places so that v is the base of b.
TurnedTo(f, b, i, t, v) ==
  LET turn(s) == SubSeq(s, i + 1, Len(s)) \o SubSeq(s, 1, i)
  IN [f EXCEPT !.childs[b] = turn(@), !.endps[b] = turn(@), !.base[b] = f.base[t],
               !.error = @ \/ f.base[t] # v]

Mated(f, p) == [f EXCEPT !.mate[End(p)] = Opposite(p), !.mate[End(Opposite(p))] = p]
Steps(way) ==
  [y \in 1..((IF way.step = 1 THEN -way.j ELSE way.j) \div 2) |-> way.j + (2 * y - 1) * way.step]

RECURSIVE AugmentBlossom(_, _, _)
AugmentBlossom(f, b, v) ==
  LET within(g, x, u) == IF x > graph.n THEN AugmentBlossom(g, x, u) ELSE g
      through(g, p, x, y) == Mated(within(within(g, x, End(p)), y, End(Opposite(p))), p)
      match(g, j, way) == through(g, Turned(Wrap(f.endps[b], j - way.trick), way.trick),
                                  Wrap(f.childs[b], j), Wrap(f.childs[b], j + way.step))
      from(t, i, way) ==
        TurnedTo(FoldLeft(LAMBDA g, j : match(g, j, way), within(f, t, v), Steps(way)), b, i, t, v)
      at_child(t, i) == from(t, i, Way(i, Len(f.childs[b])))
  IN at_child(ChildWith(f, b, v), IndexOf(f.childs[b], ChildWith(f, b, v)) - 1)

Augmented(f, b, v) == IF b > graph.n THEN AugmentBlossom(f, b, v) ELSE f

\* From s back to the root of its tree, changing every second edge.
RECURSIVE Rematch(_, _, _)
Rematch(f, s, p) ==
  LET through(g, bt, q) ==
        Rematch([Augmented(g, bt, End(Opposite(q))) EXCEPT !.mate[End(Opposite(q))] = q], End(q), Opposite(q))
      on(g, bt) == IF g.label[bt] # 2 THEN Fail(g) ELSE through(g, bt, g.labelend[bt])
      back(g, bs) == IF g.labelend[bs] = NoEnd THEN g ELSE on(g, g.inblossom[End(g.labelend[bs])])
      first(bs) == IF f.label[bs] # 1 THEN Fail(f)
                   ELSE back([Augmented(f, bs, s) EXCEPT !.mate[s] = p], bs)
  IN first(f.inblossom[s])

AugmentMatching(f, k) == Rematch(Rematch(f, End(<<k, 1>>), <<k, 2>>), End(<<k, 2>>), <<k, 1>>)

-----------------------------------------------------------------------------
(* The stages. *)

Heaviest == Max({0} \cup {Doubled(k) : k \in Edges})

Init ==
  /\ graph \in Inputs
  /\ forest = [mate      |-> [v \in Vertices |-> NoEnd],
               label     |-> [b \in 1..(2 * graph.n) |-> 0],
               labelend  |-> [b \in 1..(2 * graph.n) |-> NoEnd],
               inblossom |-> [v \in Vertices |-> v],
               parent    |-> [b \in 1..(2 * graph.n) |-> 0],
               childs    |-> [b \in Blossoms |-> <<>>],
               endps     |-> [b \in Blossoms |-> <<>>],
               base      |-> [b \in 1..(2 * graph.n) |-> IF b <= graph.n THEN b ELSE 0],
               best      |-> [b \in 1..(2 * graph.n) |-> 0],
               bests     |-> <<>>,
               dual      |-> [b \in 1..(2 * graph.n) |-> IF b <= graph.n THEN Heaviest ELSE 0],
               allowed   |-> {},
               queue     |-> <<>>,
               unused    |-> [i \in 1..graph.n |-> graph.n + i],
               error     |-> FALSE]
  /\ pc = "stage" /\ stage = 0 /\ at = 0 /\ todo = <<>>

Goto(label) == pc' = (IF forest'.error THEN "thrown" ELSE label)

\* A stage starts with every single vertex the root of a tree.
BeginStage ==
  /\ pc = "stage" /\ graph.edges # <<>>
  /\ LET blank == [forest EXCEPT !.label = [b \in DOMAIN @ |-> 0], !.best = [b \in DOMAIN @ |-> 0],
                                 !.bests = <<>>, !.allowed = {}, !.queue = <<>>]
         root(f, v) == IF f.mate[v] = NoEnd /\ f.label[f.inblossom[v]] = 0
                       THEN AssignLabel(f, v, 1, NoEnd) ELSE f
     IN forest' = FoldLeft(root, blank, [v \in Vertices |-> v])
  /\ Goto("search")
  /\ UNCHANGED <<graph, stage, at, todo>>

NoEdges ==
  /\ pc = "stage" /\ graph.edges = <<>>
  /\ pc' = "done"
  /\ UNCHANGED <<graph, forest, stage, at, todo>>

TakeVertex ==
  /\ pc = "search" /\ todo = <<>> /\ forest.queue # <<>>
  /\ at' = Last(forest.queue)
  /\ todo' = Neighbend(at')
  /\ forest' = [forest EXCEPT !.queue = Front(@)]
  /\ UNCHANGED <<graph, pc, stage>>

\* The next neighbour, over which edge it is and in which blossom.
edge == Head(todo)[1]
neighbour == End(Head(todo))
there == forest.inblossom[neighbour]

Look ==
  /\ pc = "search" /\ todo # <<>>
  /\ todo' = Tail(todo)
  /\ UNCHANGED <<graph, stage, at>>

Tight(k) == k \in forest.allowed \/ Slack(forest, k) <= 0
Allowing(k) == [forest EXCEPT !.allowed = @ \cup {k}]

PassInside ==
  /\ Look
  /\ forest.inblossom[at] = there
  /\ UNCHANGED <<forest, pc>>

LabelFree ==
  /\ Look
  /\ forest.inblossom[at] # there /\ Tight(edge) /\ forest.label[there] = 0
  /\ forest' = AssignLabel(Allowing(edge), neighbour, 2, Opposite(Head(todo)))
  /\ Goto("search")

Shrink ==
  /\ Look
  /\ forest.inblossom[at] # there /\ Tight(edge) /\ forest.label[there] = 1
  /\ LET base == Meeting(forest, at, neighbour, {}) IN
     /\ base # 0
     /\ forest' = AddBlossom(Allowing(edge), base, edge)
  /\ Goto("search")

Augment ==
  /\ pc = "search" /\ todo # <<>>
  /\ forest.inblossom[at] # there /\ Tight(edge) /\ forest.label[there] = 1
  /\ Meeting(forest, at, neighbour, {}) = 0
  /\ forest' = AugmentMatching(Allowing(edge), edge)
  /\ Goto("augmented")
  /\ todo' = <<>>
  /\ UNCHANGED <<graph, stage, at>>

\* A vertex within a T-blossom is marked as reached, for when that is expanded.
MarkReached ==
  /\ Look
  /\ forest.inblossom[at] # there /\ Tight(edge) /\ forest.label[there] \notin {0, 1}
  /\ forest' = IF forest.label[neighbour] # 0 THEN Allowing(edge)
                 ELSE [Allowing(edge) EXCEPT !.label[neighbour] = 2, !.labelend[neighbour] = Opposite(Head(todo))]
  /\ UNCHANGED pc

\* An edge that is not tight is remembered where the delta will look for it.
Remember ==
  /\ Look
  /\ forest.inblossom[at] # there /\ ~Tight(edge)
  /\ LET of == IF forest.label[there] = 1 THEN forest.inblossom[at] ELSE neighbour
           better == forest.best[of] = 0 \/ Slack(forest, edge) < Slack(forest, forest.best[of])
       IN forest' = IF (forest.label[there] = 1 \/ forest.label[neighbour] = 0) /\ better
                    THEN [forest EXCEPT !.best[of] = edge] ELSE forest
  /\ UNCHANGED pc

\* What bounds the change of the duals, in the order in which the code compares: a
\* vertex whose dual is used up, an edge to a free vertex, an edge between two
\* S-blossoms, a T-blossom whose dual is used up.
Bounds(f) ==
  LET pick(S, row(_)) == LET s == InOrder(S, 2 * graph.n) IN [i \in DOMAIN s |-> row(s[i])]
      free == {v \in Vertices : f.label[f.inblossom[v]] = 0 /\ f.best[v] # 0}
      tops == {b \in DOMAIN f.label : f.parent[b] = 0}
      outer == {b \in tops : f.label[b] = 1 /\ f.best[b] # 0}
      inner == {b \in tops \cap Blossoms : f.base[b] # 0 /\ f.label[b] = 2}
  IN << [delta |-> Min({f.dual[v] : v \in Vertices}), type |-> 1, on |-> 0] >>
       \o pick(free, LAMBDA v : [delta |-> Slack(f, f.best[v]), type |-> 2, on |-> f.best[v]])
       \o pick(outer, LAMBDA b : [delta |-> Slack(f, f.best[b]) \div 2, type |-> 3, on |-> f.best[b]])
       \o pick(inner, LAMBDA b : [delta |-> f.dual[b], type |-> 4, on |-> b])

Least(s) ==
  s[CHOOSE i \in DOMAIN s : \A j \in DOMAIN s :
      s[i].delta < s[j].delta \/ (s[i].delta = s[j].delta /\ i <= j)]

\* The code throws when the slack of two S-blossoms is odd.
OddSlack(f) ==
  \E b \in DOMAIN f.label :
    f.parent[b] = 0 /\ f.label[b] = 1 /\ f.best[b] # 0 /\ Slack(f, f.best[b]) % 2 = 1

Shift(f, b) == IF f.label[b] = 1 THEN 1 ELSE IF f.label[b] = 2 THEN -1 ELSE 0

Moved(f, delta) ==
  [f EXCEPT !.dual = [b \in DOMAIN @ |->
     @[b] + (IF b \in Vertices THEN -delta * Shift(f, f.inblossom[b])
             ELSE IF f.base[b] # 0 /\ f.parent[b] = 0 THEN delta * Shift(f, b) ELSE 0)]]

Adjusted(bound, moved) ==
  LET along(v) == [moved EXCEPT !.allowed = @ \cup {bound.on}, !.queue = Append(@, v)]
      free(v) == moved.label[moved.inblossom[v]] = 0
  IN CASE bound.type = 1 -> moved
       [] bound.type = 2 -> along(End(<<bound.on, IF free(End(<<bound.on, 1>>)) THEN 2 ELSE 1>>))
       [] bound.type = 3 -> along(End(<<bound.on, 1>>))
       [] OTHER -> ExpandBlossom(moved, bound.on, FALSE)

AdjustBy(bound) ==
  /\ forest' = IF OddSlack(forest) THEN Fail(forest) ELSE Adjusted(bound, Moved(forest, bound.delta))
  /\ Goto(IF bound.type = 1 THEN "done" ELSE "search")

AdjustDuals ==
  /\ pc = "search" /\ todo = <<>> /\ forest.queue = <<>>
  /\ AdjustBy(Least(Bounds(forest)))
  /\ UNCHANGED <<graph, stage, at, todo>>

\* After an augmentation: the S-blossoms whose dual is zero are expanded.
EndStage ==
  /\ pc = "augmented"
  /\ LET expand(f, b) ==
           IF f.parent[b] = 0 /\ f.base[b] # 0 /\ f.label[b] = 1 /\ f.dual[b] = 0
           THEN ExpandBlossom(f, b, TRUE) ELSE f
     IN forest' = FoldLeft(expand, forest, [i \in 1..graph.n |-> graph.n + i])
  /\ stage' = stage + 1
  /\ Goto("stage")
  /\ UNCHANGED <<graph, at, todo>>

Next ==
  \/ BeginStage \/ TakeVertex
  \/ PassInside \/ LabelFree \/ Shrink \/ Augment \/ MarkReached \/ Remember
  \/ AdjustDuals \/ EndStage \/ NoEdges

Spec == Init /\ [][Next]_vars /\ WF_vars(Next)

-----------------------------------------------------------------------------
(* Properties. *)

Matched == {k \in Edges : forest.mate[End(<<k, 1>>)] = <<k, 2>>}

\* The code's last check: whoever has a mate is the mate of his mate.
Symmetric ==
  \A v \in Vertices :
    forest.mate[v] # NoEnd => End(forest.mate[End(forest.mate[v])]) = v

Weights == [k \in Edges |-> graph.edges[k].w]
Total(K, worth) == FoldSet(LAMBDA k, sum : sum + worth[k], 0, K)

\* What the best matching among the edges K is worth, by trying every one.
RECURSIVE Best(_, _)
Best(K, worth) ==
  IF K = {} THEN 0
  ELSE LET k == CHOOSE x \in K : TRUE
           apart == {x \in K : Range(graph.edges[x].ends) \cap Range(graph.edges[k].ends) = {}}
       IN Max({worth[k] + Best(apart, worth), Best(K \ {k}, worth)})

\* The slack of an edge with the duals of the blossoms around it.
Reduced(k) ==
  LET around == {b \in Blossoms : /\ forest.base[b] # 0
                                  /\ Range(graph.edges[k].ends) \subseteq Range(Leaves(forest, b))}
  IN Slack(forest, k) + 2 * FoldSet(LAMBDA b, sum : sum + forest.dual[b], 0, around)

\* The duals certify the matching all along: none is negative, no edge weighs more
\* than the duals above it, and a matched edge exactly as much.
Certified ==
  /\ \A b \in DOMAIN forest.dual : forest.dual[b] >= 0
  /\ \A k \in Edges : Reduced(k) >= 0 /\ (k \in Matched => Reduced(k) = 0)

\* The algorithm never meets one of its internal errors, and what it returns is a
\* matching no other one outweighs; the bound on the stages never cuts the search short
\* (maximumWeightMatching).
MatchingIsBest ==
  /\ pc # "thrown"
  /\ pc # "thrown" => Certified /\ stage < graph.n
  /\ pc = "done" => Symmetric /\ Total(Matched, Weights) = Best(Edges, Weights)

\* With positive weights the heaviest matching is a largest one (the comment on
\* maximumWeightMatching; the engine's own weights do have this).
MatchingIsLargest ==
  pc = "done" => Cardinality(Matched) = Best(Edges, [k \in Edges |-> 1])
=============================================================================
