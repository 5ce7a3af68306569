---------------------------- MODULE LayersProofs ----------------------------
(****************************************************************************)
(* Panels and the keyboard, for every value of the constants: the windows   *)
(* of an output are laid out in exactly what its panels leave, and the      *)
(* keyboard that a panel or a menu gives up comes to something shown.       *)
(****************************************************************************)
EXTENDS Layers, FiniteSetTheorems, SequenceTheorems, WellFoundedInduction, TLAPS

Erased     == INSTANCE CycleLemmas
Arranges   == INSTANCE Folding WITH Op <- ArrangeSurface
Propagates == INSTANCE Folding WITH Op <- PropagateTo

----------------------------------------------------------------------------
(* The types, and how the parts of the state go together.                  *)

Box == [Axes -> Span]
SurfaceRecords ==
  [alive : BOOLEAN, mapped : BOOLEAN, output : Outputs \union {Null},
   state : State \union {Null}, region : Box \union {Null}]
Shells ==
  [attached : SUBSET Outputs, full : [Outputs -> Box \union {Null}],
   placeable : [Outputs -> Box \union {Null}], laid : [Outputs -> Box \union {Null}],
   lists : [Outputs -> [LayerNames -> Seq(Surfaces)]], surface : [Surfaces -> SurfaceRecords],
   open : SUBSET Views, menus : SUBSET Menus, focus : Views \union {Null},
   keyboard : Surfaces \union Views \union Menus \union {Null}, up : BOOLEAN]

\* Every attached output has its regions; its windows were laid out in the room
\* there is, or have not been.
Sized(sh) ==
  /\ IsFiniteSet(sh.attached)
  /\ \A o \in sh.attached : /\ sh.full[o] \in Box /\ sh.placeable[o] \in Box
                            /\ sh.laid[o] \in {sh.placeable[o], Null}

\* A living surface has a state, and if it has an output, is listed there.
Wired(sh) ==
  \A s \in Surfaces :
    /\ sh.surface[s].alive => sh.surface[s].state \in State
    /\ sh.surface[s].mapped => sh.surface[s].alive
    /\ sh.surface[s].alive /\ sh.surface[s].output # Null =>
         sh.surface[s].output \in sh.attached /\ s \in SurfacesOf(sh, sh.surface[s].output)

FocusOpen(sh) == sh.focus # Null => sh.focus \in sh.open

\* A surface that an output lists lives, and is on that output.
Registered(sh, o) ==
  \A s \in SurfacesOf(sh, o) : sh.surface[s].alive /\ sh.surface[s].output = o

Fits(sh, o) == ListsOnce(sh, o) => sh.placeable[o] = RoomLeft(sh, o)

\* In the middle of a handler the outputs of D are yet to be arranged.
Sound == {sh \in Shells : Sized(sh) /\ Wired(sh) /\ FocusOpen(sh)}
SettledBut(sh, D) == /\ \A o \in Outputs \ D : Registered(sh, o)
                     /\ \A o \in sh.attached \ D : Fits(sh, o)

\* Nothing more is promised once the program is not up.
Good(sh) == sh \in Sound /\ (sh.up => SettledBut(sh, {}))

LayersInvariant == Good(shell)

----------------------------------------------------------------------------
(* The room that a set of panels takes, panel by panel.                    *)

Pick(t) == CHOOSE x \in t : TRUE
Taken(sh, a, e, s) == RoomTaken(sh.surface[s].state, a, e)
Summed(sh, a, e, g, t) == IF t = {} THEN 0 ELSE Taken(sh, a, e, Pick(t)) + g[t \ {Pick(t)}]
IsSum(sh, a, e, g, F) == g = [t \in F |-> Summed(sh, a, e, g, t)]
Alike(m, sh, T) == \A s \in T : m.surface[s].state = sh.surface[s].state
Agree(g, h, T)  == \A t \in SUBSET T : g[t] = h[t]

\* What a nonempty set has as soon as the sets of one element less have it, all
\* subsets of a finite set have.
LEMMA SubsetInduction ==
  ASSUME NEW S, IsFiniteSet(S), NEW G, {} \in G,
         \A t \in SUBSET S : t # {} /\ (\A x \in t : t \ {x} \in G) => t \in G
  PROVE  \A t \in SUBSET S : t \in G
<1> DEFINE n == Cardinality(S)
           P == {k \in 0..n : \A t \in SUBSET S : Cardinality(t) = k => t \in G}
<1>1. n \in Nat BY FS_CardinalityType
<1>2. \A t \in SUBSET S : IsFiniteSet(t) /\ Cardinality(t) \in 0..n
  BY <1>1, FS_Subset, FS_CardinalityType
<1> HIDE DEF n
<1>3. 0 \in P BY <1>1, <1>2, FS_EmptySet
<1>4. ASSUME NEW i \in 1..n, i - 1 \in P PROVE i \in P
  <2> SUFFICES ASSUME NEW t \in SUBSET S, Cardinality(t) = i PROVE t \in G
    BY <1>4
  <2>1. t # {} BY <1>1, FS_EmptySet
  <2>2. ASSUME NEW x \in t PROVE t \ {x} \in G
    <3>1. Cardinality(t \ {x}) = i - 1 BY <1>2, FS_RemoveElement
    <3> QED BY <1>4, <3>1
  <2> QED BY <2>1, <2>2
<1>5. ASSUME NEW k \in 0..n PROVE k \in P
  <2> DEFINE Q == P \union ((0..n) \ (0..k))
  <2> HIDE DEF P
  <2>1. k \in Nat /\ 0 \in P /\ \A i \in 1..k : i - 1 \in P => i \in P
    BY <1>1, <1>3, <1>4
  <2> QED BY <2>1, Arranges!IndexInduction
<1> QED BY <1>2, <1>5

\* A sum over all subsets of a finite set exists.
LEMMA SumExists ==
  ASSUME NEW sh, NEW a, NEW e, NEW S, IsFiniteSet(S)
  PROVE  \E g : IsSum(sh, a, e, g, SUBSET S)
<1> DEFINE n == Cardinality(S)
           Upto(k) == {t \in SUBSET S : Cardinality(t) <= k}
           P == {k \in 0..n : \E g : IsSum(sh, a, e, g, Upto(k))}
<1>1. n \in Nat BY FS_CardinalityType
<1>2. \A t \in SUBSET S : IsFiniteSet(t) /\ Cardinality(t) \in 0..n
  BY <1>1, FS_Subset, FS_CardinalityType
<1>3. \A t : t # {} => Pick(t) \in t BY DEF Pick
<1> HIDE DEF n
<1>4. 0 \in P
  <2> DEFINE g == [t \in Upto(0) |-> 0]
  <2>1. \A t \in Upto(0) : t = {} BY <1>2, FS_EmptySet
  <2>2. IsSum(sh, a, e, g, Upto(0)) BY <2>1 DEF IsSum, Summed
  <2> HIDE DEF g
  <2> QED BY <1>1, <2>2
<1>5. ASSUME NEW i \in 1..n, i - 1 \in P PROVE i \in P
  <2>1. PICK g : IsSum(sh, a, e, g, Upto(i - 1)) BY <1>5
  <2> DEFINE f == [t \in Upto(i) |-> IF t \in Upto(i - 1) THEN g[t] ELSE Summed(sh, a, e, g, t)]
  <2>2. Upto(i - 1) \subseteq Upto(i) BY <1>2
  <2>3. ASSUME NEW t \in Upto(i) PROVE f[t] = Summed(sh, a, e, f, t)
    <3>1. f[t] = Summed(sh, a, e, g, t) BY <2>1 DEF IsSum
    <3>2. CASE t = {} BY <3>1, <3>2 DEF Summed
    <3>3. CASE t # {}
      <4> DEFINE u == t \ {Pick(t)}
      <4>1. u \in SUBSET S /\ Cardinality(u) <= i - 1 BY <1>2, <1>3, <3>3, FS_RemoveElement
      <4>2. u \in Upto(i - 1) BY <4>1
      <4>3. f[u] = g[u] BY <2>2, <4>2
      <4> QED BY <3>1, <3>3, <4>3 DEF Summed
    <3> QED BY <3>2, <3>3
  <2>4. f = [t \in Upto(i) |-> f[t]] OBVIOUS
  <2> HIDE DEF f
  <2>5. IsSum(sh, a, e, f, Upto(i)) BY <2>3, <2>4 DEF IsSum
  <2> HIDE DEF Upto
  <2> QED BY <2>5
<1>6. n \in P
  <2> HIDE DEF P
  <2> QED BY <1>1, <1>4, <1>5, Arranges!IndexInduction
<1>7. Upto(n) = SUBSET S BY <1>2
<1> HIDE DEF Upto
<1> QED BY <1>6, <1>7

\* Two sums of the same weights agree where both are defined.
LEMMA SumUnique ==
  ASSUME NEW sh, NEW m, NEW a, NEW e, NEW S, IsFiniteSet(S), NEW T, T \subseteq S,
         Alike(m, sh, T),
         NEW g, IsSum(sh, a, e, g, SUBSET S), NEW h, IsSum(m, a, e, h, SUBSET T)
  PROVE  Agree(g, h, T)
<1> DEFINE P == {t \in SUBSET T : g[t] = h[t]}
<1>1. \A t : t # {} => Pick(t) \in t BY DEF Pick
<1>2. /\ \A t \in SUBSET T : h[t] = Summed(m, a, e, h, t)
      /\ \A t \in SUBSET T : g[t] = Summed(sh, a, e, g, t)
  BY DEF IsSum
<1>3. {} \in P BY <1>2 DEF Summed
<1>4. ASSUME NEW t \in SUBSET T, t # {}, \A x \in t : t \ {x} \in P PROVE t \in P
  <2>1. Pick(t) \in t /\ t \ {Pick(t)} \in P BY <1>1, <1>4
  <2>2. Taken(m, a, e, Pick(t)) = Taken(sh, a, e, Pick(t)) BY <2>1 DEF Taken, Alike
  <2> QED BY <1>2, <1>4, <2>1, <2>2 DEF Summed
<1>5. IsFiniteSet(T) BY FS_Subset
<1> HIDE DEF P
<1>6. \A t \in SUBSET T : t \in P BY <1>3, <1>4, <1>5, SubsetInduction
<1> QED BY <1>6 DEF P, Agree

\* What a set takes depends on the states of its surfaces only.
LEMMA TakenByAlike ==
  ASSUME NEW sh, NEW m, NEW a, NEW e, NEW S, IsFiniteSet(S),
         Alike(m, sh, S)
  PROVE  TakenBy(m, a, e, S) = TakenBy(sh, a, e, S)
<1> DEFINE g == CHOOSE f : IsSum(sh, a, e, f, SUBSET S)
           h == CHOOSE f : IsSum(m, a, e, f, SUBSET S)
<1>1. TakenBy(sh, a, e, S) = g[S]
  BY DEF TakenBy, MapThenSumSet, MapThenFoldSet, IsSum, Summed, Taken, Pick
<1>2. TakenBy(m, a, e, S) = h[S]
  BY DEF TakenBy, MapThenSumSet, MapThenFoldSet, IsSum, Summed, Taken, Pick
<1>3. IsSum(sh, a, e, g, SUBSET S) /\ IsSum(m, a, e, h, SUBSET S) BY SumExists
<1> HIDE DEF g, h
<1>4. Agree(g, h, S)
  <2>1. S \subseteq S OBVIOUS
  <2> QED BY <1>3, <2>1, SumUnique
<1> QED BY <1>1, <1>2, <1>4 DEF Agree

\* The first surface that is picked gives the sum its first term.
LEMMA TakenByPick ==
  ASSUME NEW sh, NEW a, NEW e, NEW S, IsFiniteSet(S)
  PROVE  /\ TakenBy(sh, a, e, {}) = 0
         /\ S # {} => /\ Pick(S) \in S
                      /\ TakenBy(sh, a, e, S) = Taken(sh, a, e, Pick(S))
                                                  + TakenBy(sh, a, e, S \ {Pick(S)})
<1> DEFINE Sum(T) == CHOOSE f : IsSum(sh, a, e, f, SUBSET T)
           u == S \ {Pick(S)}
<1>1. ASSUME NEW T PROVE TakenBy(sh, a, e, T) = Sum(T)[T]
  BY DEF TakenBy, MapThenSumSet, MapThenFoldSet, IsSum, Summed, Taken, Pick
<1>2. \A T : IsFiniteSet(T) => IsSum(sh, a, e, Sum(T), SUBSET T) BY SumExists
<1>3. IsFiniteSet({}) /\ IsFiniteSet(u) BY FS_EmptySet, FS_RemoveElement
<1> HIDE DEF Sum
<1>4. TakenBy(sh, a, e, {}) = 0
  <2>1. IsSum(sh, a, e, Sum({}), SUBSET {}) BY <1>2, <1>3
  <2>2. Sum({})[{}] = 0 BY <2>1 DEF IsSum, Summed
  <2> QED BY <1>1, <2>2
<1>5. ASSUME S # {}
      PROVE  /\ Pick(S) \in S
             /\ TakenBy(sh, a, e, S) = Taken(sh, a, e, Pick(S)) + TakenBy(sh, a, e, u)
  <2>1. Pick(S) \in S BY <1>5 DEF Pick
  <2>2. IsSum(sh, a, e, Sum(S), SUBSET S) /\ IsSum(sh, a, e, Sum(u), SUBSET u) BY <1>2, <1>3
  <2>3. Sum(S)[S] = Taken(sh, a, e, Pick(S)) + Sum(S)[u]
    <3>1. S \in SUBSET S /\ u \in SUBSET S OBVIOUS
    <3>2. Sum(S)[S] = Summed(sh, a, e, Sum(S), S) BY <2>2, <3>1 DEF IsSum
    <3> QED BY <1>5, <3>2 DEF Summed
  <2>4. Agree(Sum(S), Sum(u), u)
    <3>1. u \subseteq S /\ Alike(sh, sh, u) BY DEF Alike
    <3> HIDE DEF u
    <3> QED BY <2>2, <3>1, SumUnique
  <2>5. Sum(S)[u] = Sum(u)[u] BY <2>4 DEF Agree
  <2> QED BY <1>1, <2>1, <2>3, <2>5
<1> QED BY <1>4, <1>5

\* What a set takes is the sum over any of its surfaces and the rest.
LEMMA TakenByAny ==
  ASSUME NEW sh, NEW a, NEW e, NEW S, IsFiniteSet(S), \A s \in S : Taken(sh, a, e, s) \in Int
  PROVE  /\ TakenBy(sh, a, e, S) \in Int
         /\ \A x \in S : TakenBy(sh, a, e, S) = Taken(sh, a, e, x) + TakenBy(sh, a, e, S \ {x})
<1> DEFINE K(t) == TakenBy(sh, a, e, t)
           w(x) == Taken(sh, a, e, x)
           P == {t \in SUBSET S : K(t) \in Int}
           Q == {t \in SUBSET S : \A x \in t : K(t) = w(x) + K(t \ {x})}
<1>1. \A t \in SUBSET S : t # {} => Pick(t) \in t /\ K(t) = w(Pick(t)) + K(t \ {Pick(t)})
  BY FS_Subset, TakenByPick
<1>2. K({}) = 0 BY TakenByPick
<1>3. \A t \in SUBSET S : t \in P
  <2> HIDE DEF K
  <2>1. {} \in P BY <1>2
  <2>2. ASSUME NEW t \in SUBSET S, t # {}, \A x \in t : t \ {x} \in P PROVE t \in P
    <3>1. Pick(t) \in t /\ K(t) = w(Pick(t)) + K(t \ {Pick(t)}) BY <1>1, <2>2
    <3>2. K(t \ {Pick(t)}) \in Int BY <2>2, <3>1
    <3>3. w(Pick(t)) \in Int BY <3>1
    <3> HIDE DEF w
    <3> QED BY <3>1, <3>2, <3>3
  <2> HIDE DEF P
  <2> QED BY <2>1, <2>2, SubsetInduction
<1>4. \A t \in SUBSET S : t \in Q
  <2> HIDE DEF K, w
  <2>1. {} \in Q OBVIOUS
  <2>2. ASSUME NEW t \in SUBSET S, t # {}, \A x \in t : t \ {x} \in Q PROVE t \in Q
    <3> SUFFICES ASSUME NEW x \in t, x # Pick(t) PROVE K(t) = w(x) + K(t \ {x})
      BY <1>1, <2>2
    <3> DEFINE c == Pick(t)
               r == (t \ {c}) \ {x}
    <3>1. c \in t /\ K(t) = w(c) + K(t \ {c}) BY <1>1, <2>2
    <3> HIDE DEF c
    <3>2. x \in t \ {c} /\ c \in t \ {x} BY <3>1 DEF c
    <3>3. K(t \ {c}) = w(x) + K(r) BY <2>2, <3>1, <3>2
    <3>4. (t \ {x}) \ {c} = r OBVIOUS
    <3>5. K(t \ {x}) = w(c) + K(r) BY <2>2, <3>2, <3>4
    <3>6. w(c) \in Int /\ w(x) \in Int /\ K(r) \in Int BY <1>3, <3>1 DEF w
    <3> QED BY <3>1, <3>3, <3>5, <3>6
  <2> HIDE DEF Q
  <2> QED BY <2>1, <2>2, SubsetInduction
<1> QED BY <1>3, <1>4

----------------------------------------------------------------------------
(* What is left of an area, and one pass over an output's surfaces.        *)

LEMMA EdgeFacts ==
  ASSUME NEW a \in Axes
  PROVE  /\ LowEdge[a] \in Sides /\ HighEdge[a] \in Sides /\ LowEdge[a] # HighEdge[a]
         /\ LowEdge[a] \notin EdgesOf(OtherAxis[a]) /\ HighEdge[a] \notin EdgesOf(OtherAxis[a])
BY DEF Axes, LowEdge, HighEdge, Sides, EdgesOf, OtherAxis

\* Room is a number of pixels.
LEMMA RoomTakenType ==
  ASSUME NEW st \in State, NEW a \in Axes, NEW e \in Sides
  PROVE  RoomTaken(st, a, e) \in Int
BY DEF RoomTaken, State

\* A surface that reserves room takes it from one end of an axis, or none.
LEMMA ShrunkTakes ==
  ASSUME NEW st \in State, NEW a \in Axes, NEW span \in Span, st.zone > 0
  PROVE  Shrunk(st, a, span) =
           [pos |-> span.pos + RoomTaken(st, a, LowEdge[a]),
            dim |-> span.dim - RoomTaken(st, a, LowEdge[a]) - RoomTaken(st, a, HighEdge[a])]
<1> DEFINE l == LowEdge[a]
           h == HighEdge[a]
<1>1. /\ l \in Sides /\ h \in Sides /\ l # h
      /\ l \notin EdgesOf(OtherAxis[a]) /\ h \notin EdgesOf(OtherAxis[a])
  BY EdgeFacts
<1> HIDE DEF l, h
<1>2. ~(GivesRoom(st, a, l) /\ GivesRoom(st, a, h)) BY <1>1 DEF GivesRoom
<1>3. /\ st.zone \in Int /\ st.margin[l] \in Int /\ st.margin[h] \in Int
      /\ span = [pos |-> span.pos, dim |-> span.dim] /\ span.pos \in Int /\ span.dim \in Int
  BY <1>1 DEF State, Span
<1>4. CASE GivesRoom(st, a, l)
  <2>1. Shrunk(st, a, span) = [pos |-> span.pos + st.zone + st.margin[l],
                               dim |-> span.dim - st.zone - st.margin[l]]
    <3>1. GivesRoom(st, a, LowEdge[a]) /\ ~GivesRoom(st, a, HighEdge[a])
      BY <1>2, <1>4 DEF l, h
    <3> QED BY <3>1 DEF Shrunk, l
  <2>2. RoomTaken(st, a, l) = st.zone + st.margin[l] /\ RoomTaken(st, a, h) = 0
    BY <1>2, <1>4 DEF RoomTaken
  <2> QED BY <1>3, <2>1, <2>2 DEF l, h
<1>5. CASE ~GivesRoom(st, a, l) /\ GivesRoom(st, a, h)
  <2>1. Shrunk(st, a, span) = [span EXCEPT !.dim = @ - st.zone - st.margin[h]]
    BY <1>5 DEF Shrunk, l, h
  <2>2. Shrunk(st, a, span) = [pos |-> span.pos, dim |-> span.dim - st.zone - st.margin[h]]
    BY <1>3, <2>1
  <2>3. RoomTaken(st, a, h) = st.zone + st.margin[h] /\ RoomTaken(st, a, l) = 0
    BY <1>5 DEF RoomTaken
  <2> QED BY <1>3, <2>2, <2>3 DEF l, h
<1>6. CASE ~GivesRoom(st, a, l) /\ ~GivesRoom(st, a, h)
  <2>1. Shrunk(st, a, span) = span BY <1>6 DEF Shrunk, l, h
  <2>2. RoomTaken(st, a, h) = 0 /\ RoomTaken(st, a, l) = 0 BY <1>6 DEF RoomTaken
  <2> QED BY <1>3, <2>1, <2>2 DEF l, h
<1> QED BY <1>4, <1>5, <1>6

\* No panel leaves all of an area. One more leaves of it what it leaves of what
\* the others leave.
LEMMA LeftOfOne ==
  ASSUME NEW sh, NEW area \in Box, NEW T, IsFiniteSet(T),
         \A s \in T : sh.surface[s].state \in State
  PROVE  /\ LeftOf(sh, area, {}) = area
         /\ LeftOf(sh, area, T) \in Box
         /\ \A x : x \notin T /\ sh.surface[x].state \in State =>
              LeftOf(sh, area, T \union {x}) =
                IF sh.surface[x].state.zone > 0
                THEN Remaining(sh.surface[x].state, LeftOf(sh, area, T))
                ELSE LeftOf(sh, area, T)
<1>1. \A a \in Axes : area[a] \in Span /\ area[a] = [pos |-> area[a].pos, dim |-> area[a].dim]
                      /\ area[a].pos \in Int /\ area[a].dim \in Int
  BY DEF Box, Span
<1>2. LeftOf(sh, area, {}) = area
  <2>1. \A a \in Axes, e \in Sides : TakenBy(sh, a, e, {}) = 0 BY TakenByPick, FS_EmptySet
  <2>2. ASSUME NEW a \in Axes PROVE LeftOf(sh, area, {})[a] = area[a]
    <3>1. LowEdge[a] \in Sides /\ HighEdge[a] \in Sides BY EdgeFacts
    <3>2. TakenBy(sh, a, LowEdge[a], {}) = 0 /\ TakenBy(sh, a, HighEdge[a], {}) = 0
      BY <2>1, <3>1
    <3>3. LeftOf(sh, area, {})[a] = [pos |-> area[a].pos + 0, dim |-> area[a].dim - 0 - 0]
      BY <3>2 DEF LeftOf
    <3>4. /\ area[a] = [pos |-> area[a].pos, dim |-> area[a].dim]
          /\ area[a].pos \in Int /\ area[a].dim \in Int
      BY <1>1
    <3>5. area[a].pos + 0 = area[a].pos /\ area[a].dim - 0 - 0 = area[a].dim BY <3>4
    <3> QED BY <3>3, <3>4, <3>5
  <2>3. DOMAIN area = Axes /\ area = [a \in Axes |-> area[a]] BY DEF Box
  <2>4. LeftOf(sh, area, {}) = [a \in Axes |-> LeftOf(sh, area, {})[a]] BY DEF LeftOf
  <2> QED BY <2>2, <2>3, <2>4
<1>3. \A S : IsFiniteSet(S) /\ (\A s \in S : sh.surface[s].state \in State) =>
        \A a \in Axes, e \in Sides :
          /\ TakenBy(sh, a, e, S) \in Int
          /\ \A x \in S : TakenBy(sh, a, e, S) = RoomTaken(sh.surface[x].state, a, e)
                                                   + TakenBy(sh, a, e, S \ {x})
  <2> SUFFICES ASSUME NEW S, IsFiniteSet(S), \A s \in S : sh.surface[s].state \in State,
                      NEW a \in Axes, NEW e \in Sides
               PROVE  /\ TakenBy(sh, a, e, S) \in Int
                      /\ \A x \in S : TakenBy(sh, a, e, S) = RoomTaken(sh.surface[x].state, a, e)
                                                               + TakenBy(sh, a, e, S \ {x})
    OBVIOUS
  <2>1. \A s \in S : Taken(sh, a, e, s) \in Int BY RoomTakenType DEF Taken
  <2>2. /\ TakenBy(sh, a, e, S) \in Int
        /\ \A x \in S : TakenBy(sh, a, e, S) = Taken(sh, a, e, x) + TakenBy(sh, a, e, S \ {x})
    BY <2>1, TakenByAny
  <2> QED BY <2>2 DEF Taken
<1>4. LeftOf(sh, area, T) \in Box
  <2>1. ASSUME NEW a \in Axes PROVE LeftOf(sh, area, T)[a] \in Span
    <3>1. LowEdge[a] \in Sides /\ HighEdge[a] \in Sides BY EdgeFacts
    <3>2. TakenBy(sh, a, LowEdge[a], T) \in Int /\ TakenBy(sh, a, HighEdge[a], T) \in Int
      BY <1>3, <3>1
    <3>3. area[a].pos \in Int /\ area[a].dim \in Int BY <1>1
    <3>4. LeftOf(sh, area, T)[a] =
            [pos |-> area[a].pos + TakenBy(sh, a, LowEdge[a], T),
             dim |-> area[a].dim - TakenBy(sh, a, LowEdge[a], T)
                                 - TakenBy(sh, a, HighEdge[a], T)]
      BY DEF LeftOf
    <3> QED BY <3>2, <3>3, <3>4 DEF Span
  <2>2. LeftOf(sh, area, T) = [a \in Axes |-> LeftOf(sh, area, T)[a]] BY DEF LeftOf
  <2> QED BY <2>1, <2>2 DEF Box
<1>5. ASSUME NEW x, x \notin T, sh.surface[x].state \in State
      PROVE  LeftOf(sh, area, T \union {x}) =
               IF sh.surface[x].state.zone > 0
               THEN Remaining(sh.surface[x].state, LeftOf(sh, area, T))
               ELSE LeftOf(sh, area, T)
  <2> DEFINE st == sh.surface[x].state
             S == T \union {x}
             w(a, e) == RoomTaken(st, a, e)
             K(a, e) == TakenBy(sh, a, e, T)
  <2>1. IsFiniteSet(S) /\ (\A s \in S : sh.surface[s].state \in State) /\ S \ {x} = T /\ x \in S
    BY <1>5, FS_AddElement
  <2>2. ASSUME NEW a \in Axes, NEW e \in Sides
        PROVE  TakenBy(sh, a, e, S) = w(a, e) + K(a, e) /\ K(a, e) \in Int /\ w(a, e) \in Int
    <3>1. w(a, e) \in Int BY <1>5, RoomTakenType
    <3>2. K(a, e) \in Int BY <1>3
    <3> HIDE DEF S
    <3>3. TakenBy(sh, a, e, S) = RoomTaken(st, a, e) + TakenBy(sh, a, e, S \ {x})
      BY <1>3, <2>1
    <3> QED BY <2>1, <3>1, <3>2, <3>3
  <2> HIDE DEF S, K, w, st
  <2>3. ASSUME NEW a \in Axes
        PROVE  LeftOf(sh, area, S)[a] =
                 [pos |-> LeftOf(sh, area, T)[a].pos + w(a, LowEdge[a]),
                  dim |-> LeftOf(sh, area, T)[a].dim - w(a, LowEdge[a]) - w(a, HighEdge[a])]
    <3>1. /\ LeftOf(sh, area, T)[a].pos = area[a].pos + K(a, LowEdge[a])
          /\ LeftOf(sh, area, T)[a].dim = area[a].dim - K(a, LowEdge[a]) - K(a, HighEdge[a])
      BY DEF LeftOf, K
    <3>2. LeftOf(sh, area, S)[a] =
            [pos |-> area[a].pos + TakenBy(sh, a, LowEdge[a], S),
             dim |-> area[a].dim - TakenBy(sh, a, LowEdge[a], S) - TakenBy(sh, a, HighEdge[a], S)]
      BY DEF LeftOf
    <3>3. LowEdge[a] \in Sides /\ HighEdge[a] \in Sides BY EdgeFacts
    <3>4. /\ TakenBy(sh, a, LowEdge[a], S) = w(a, LowEdge[a]) + K(a, LowEdge[a])
          /\ TakenBy(sh, a, HighEdge[a], S) = w(a, HighEdge[a]) + K(a, HighEdge[a])
          /\ K(a, LowEdge[a]) \in Int /\ K(a, HighEdge[a]) \in Int
          /\ w(a, LowEdge[a]) \in Int /\ w(a, HighEdge[a]) \in Int
      BY <2>2, <3>3
    <3>5. area[a].pos \in Int /\ area[a].dim \in Int BY <1>1
    <3> QED BY <3>1, <3>2, <3>4, <3>5
  <2>4. \A a \in Axes : LeftOf(sh, area, T)[a] \in Span BY <1>4 DEF Box
  <2>5. DOMAIN LeftOf(sh, area, S) = Axes /\ DOMAIN LeftOf(sh, area, T) = Axes BY DEF LeftOf
  <2>6. CASE st.zone > 0
    <3>1. ASSUME NEW a \in Axes
          PROVE  LeftOf(sh, area, S)[a] = Shrunk(st, a, LeftOf(sh, area, T)[a])
      <4>1. LeftOf(sh, area, T)[a] \in Span /\ st \in State BY <1>5, <2>4 DEF st
      <4>2. Shrunk(st, a, LeftOf(sh, area, T)[a]) =
              [pos |-> LeftOf(sh, area, T)[a].pos + w(a, LowEdge[a]),
               dim |-> LeftOf(sh, area, T)[a].dim - w(a, LowEdge[a]) - w(a, HighEdge[a])]
        BY <2>6, <4>1, ShrunkTakes DEF w
      <4> QED BY <2>3, <4>2
    <3>2. LeftOf(sh, area, S) = [a \in Axes |-> LeftOf(sh, area, S)[a]] BY DEF LeftOf
    <3> QED BY <2>6, <3>1, <3>2 DEF Remaining, st, S
  <2>7. CASE ~(st.zone > 0)
    <3>1. ASSUME NEW a \in Axes PROVE LeftOf(sh, area, S)[a] = LeftOf(sh, area, T)[a]
      <4>1. w(a, LowEdge[a]) = 0 /\ w(a, HighEdge[a]) = 0 BY <2>7 DEF w, RoomTaken
      <4>2. LeftOf(sh, area, S)[a] = [pos |-> LeftOf(sh, area, T)[a].pos + 0,
                                      dim |-> LeftOf(sh, area, T)[a].dim - 0 - 0]
        BY <2>3, <4>1
      <4>3. /\ LeftOf(sh, area, T)[a].pos \in Int /\ LeftOf(sh, area, T)[a].dim \in Int
            /\ LeftOf(sh, area, T)[a] = [pos |-> LeftOf(sh, area, T)[a].pos,
                                         dim |-> LeftOf(sh, area, T)[a].dim]
        BY <2>4 DEF Span
      <4> QED BY <4>2, <4>3
    <3>2. /\ LeftOf(sh, area, S) = [a \in Axes |-> LeftOf(sh, area, S)[a]]
          /\ LeftOf(sh, area, T) = [a \in Axes |-> LeftOf(sh, area, T)[a]]
      BY DEF LeftOf
    <3>3. LeftOf(sh, area, S) = LeftOf(sh, area, T) BY <3>1, <3>2
    <3> QED BY <2>7, <3>3 DEF st, S
  <2> QED BY <2>6, <2>7 DEF st, S
<1> QED BY <1>2, <1>4, <1>5

\* What a surface leaves of an area, and where it goes in one, are areas.
LEMMA RemainingType ==
  ASSUME NEW st \in State, NEW area \in Box, st.zone > 0
  PROVE  Remaining(st, area) \in Box
<1>1. ASSUME NEW a \in Axes PROVE Shrunk(st, a, area[a]) \in Span
  <2>1. area[a] \in Span /\ area[a].pos \in Int /\ area[a].dim \in Int BY DEF Box, Span
  <2>2. LowEdge[a] \in Sides /\ HighEdge[a] \in Sides BY EdgeFacts
  <2>3. RoomTaken(st, a, LowEdge[a]) \in Int /\ RoomTaken(st, a, HighEdge[a]) \in Int
    BY <2>2, RoomTakenType
  <2>4. Shrunk(st, a, area[a]) =
          [pos |-> area[a].pos + RoomTaken(st, a, LowEdge[a]),
           dim |-> area[a].dim - RoomTaken(st, a, LowEdge[a]) - RoomTaken(st, a, HighEdge[a])]
    BY <2>1, ShrunkTakes
  <2> QED BY <2>1, <2>3, <2>4 DEF Span
<1> QED BY <1>1 DEF Remaining, Box

LEMMA AnchoredType ==
  ASSUME NEW st \in State, NEW a \in Axes, NEW bounds \in Span
  PROVE  Anchored(st, a, bounds) \in Span
<1>1. st.size[a] \in Nat /\ bounds.pos \in Int /\ bounds.dim \in Int BY DEF State, Span
<1>2. Truncated(bounds.dim) \in Int BY <1>1 DEF Truncated
<1>3. st.size[a] \div 2 \in Int BY <1>1
<1> DEFINE low  == [pos |-> bounds.pos, dim |-> st.size[a]]
           high == [pos |-> bounds.pos + bounds.dim - st.size[a], dim |-> st.size[a]]
           mid  == [pos |-> bounds.pos + Truncated(bounds.dim) - st.size[a] \div 2,
                    dim |-> st.size[a]]
<1>4. bounds \in Span /\ low \in Span /\ high \in Span /\ mid \in Span
  BY <1>1, <1>2, <1>3 DEF Span
<1> HIDE DEF low, high, mid
<1>5. CASE st.anchor \intersect EdgesOf(a) # {} /\ st.size[a] = 0
  BY <1>4, <1>5 DEF Anchored
<1>6. CASE ~(st.anchor \intersect EdgesOf(a) # {} /\ st.size[a] = 0) /\ st.size[a] # 0
  <2>1. CASE LowEdge[a] \in st.anchor
    <3>1. st.anchor \intersect EdgesOf(a) # {HighEdge[a]}
      BY <2>1, EdgeFacts DEF EdgesOf
    <3>2. Anchored(st, a, bounds) = low BY <1>6, <2>1, <3>1 DEF Anchored, low
    <3> QED BY <1>4, <3>2
  <2>2. CASE LowEdge[a] \notin st.anchor /\ st.anchor \intersect EdgesOf(a) = {HighEdge[a]}
    <3>1. Anchored(st, a, bounds) = high BY <1>6, <2>2 DEF Anchored, high
    <3> QED BY <1>4, <3>1
  <2>3. CASE LowEdge[a] \notin st.anchor /\ st.anchor \intersect EdgesOf(a) # {HighEdge[a]}
    <3>1. Anchored(st, a, bounds) = mid BY <1>6, <2>3 DEF Anchored, mid
    <3> QED BY <1>4, <3>1
  <2> QED BY <2>1, <2>2, <2>3
<1>7. CASE st.anchor \intersect EdgesOf(a) = {} /\ st.size[a] = 0
  <2>1. Anchored(st, a, bounds) = mid BY <1>7 DEF Anchored, mid
  <2> QED BY <1>4, <2>1
<1> QED BY <1>5, <1>6, <1>7

LEMMA WithMarginsType ==
  ASSUME NEW st \in State, NEW a \in Axes, NEW span \in Span
  PROVE  WithMargins(st, a, span) \in Span
<1> DEFINE l == LowEdge[a]
           h == HighEdge[a]
           both == [pos |-> span.pos + st.margin[l],
                    dim |-> span.dim - st.margin[l] - st.margin[h]]
           low  == [span EXCEPT !.pos = @ + st.margin[l]]
           high == [span EXCEPT !.pos = @ - st.margin[h]]
<1>1. l \in Sides /\ h \in Sides /\ l # h /\ EdgesOf(a) = {l, h} BY EdgeFacts DEF EdgesOf
<1>2. /\ st.margin[l] \in Int /\ st.margin[h] \in Int
      /\ span.pos \in Int /\ span.dim \in Int
  BY <1>1 DEF State, Span
<1>3. span \in Span /\ both \in Span /\ low \in Span /\ high \in Span BY <1>2 DEF Span
<1> HIDE DEF both, low, high
<1>4. CASE EdgesOf(a) \subseteq st.anchor
  <2>1. st.anchor \intersect EdgesOf(a) # {l} /\ st.anchor \intersect EdgesOf(a) # {h}
    BY <1>1, <1>4
  <2>2. WithMargins(st, a, span) = both BY <1>4, <2>1 DEF WithMargins, both
  <2> QED BY <1>3, <2>2
<1>5. CASE st.anchor \intersect EdgesOf(a) = {l}
  <2>1. ~(EdgesOf(a) \subseteq st.anchor) /\ st.anchor \intersect EdgesOf(a) # {h}
    BY <1>1, <1>5
  <2>2. WithMargins(st, a, span) = low BY <1>5, <2>1 DEF WithMargins, low
  <2> QED BY <1>3, <2>2
<1>6. CASE st.anchor \intersect EdgesOf(a) = {h}
  <2>1. ~(EdgesOf(a) \subseteq st.anchor) /\ st.anchor \intersect EdgesOf(a) # {l}
    BY <1>1, <1>6
  <2>2. WithMargins(st, a, span) = high BY <1>6, <2>1 DEF WithMargins, high
  <2> QED BY <1>3, <2>2
<1>7. CASE /\ ~(EdgesOf(a) \subseteq st.anchor)
           /\ st.anchor \intersect EdgesOf(a) # {l} /\ st.anchor \intersect EdgesOf(a) # {h}
  <2>1. WithMargins(st, a, span) = span BY <1>7 DEF WithMargins
  <2> QED BY <1>3, <2>1
<1> QED BY <1>4, <1>5, <1>6, <1>7

LEMMA RegionType ==
  ASSUME NEW st \in State, NEW area \in Box
  PROVE  SurfaceRegion(st, area) \in Box
<1>1. ASSUME NEW a \in Axes PROVE WithMargins(st, a, Anchored(st, a, area[a])) \in Span
  <2>1. area[a] \in Span BY DEF Box
  <2>2. Anchored(st, a, area[a]) \in Span BY <2>1, AnchoredType
  <2> QED BY <2>2, WithMarginsType
<1> QED BY <1>1 DEF SurfaceRegion, Box

----------------------------------------------------------------------------
(* What an output lists.                                                   *)

LEMMA ConcatRange ==
  ASSUME NEW S, NEW s \in Seq(S), NEW t \in Seq(S)
  PROVE  s \o t \in Seq(S) /\ Range(s \o t) = Range(s) \union Range(t)
<1> DEFINE r == s \o t
<1>1. /\ Len(s) \in Nat /\ Len(t) \in Nat /\ DOMAIN s = 1..Len(s) /\ DOMAIN t = 1..Len(t)
      /\ r \in Seq(S) /\ Len(r) = Len(s) + Len(t) /\ DOMAIN r = 1..(Len(s) + Len(t))
      /\ \A i \in 1..(Len(s) + Len(t)) :
           r[i] = IF i <= Len(s) THEN s[i] ELSE t[i - Len(s)]
  OBVIOUS
<1> HIDE DEF r
<1>2. Range(s) \subseteq Range(r) BY <1>1 DEF Range
<1>3. Range(t) \subseteq Range(r)
  <2> SUFFICES ASSUME NEW i \in 1..Len(t) PROVE t[i] \in Range(r) BY <1>1 DEF Range
  <2>1. /\ i + Len(s) \in 1..(Len(s) + Len(t)) /\ ~(i + Len(s) <= Len(s))
        /\ (i + Len(s)) - Len(s) = i
    BY <1>1
  <2>2. r[i + Len(s)] = t[i] BY <1>1, <2>1
  <2> QED BY <1>1, <2>1, <2>2 DEF Range
<1>4. Range(r) \subseteq Range(s) \union Range(t)
  <2> SUFFICES ASSUME NEW i \in 1..(Len(s) + Len(t)) PROVE r[i] \in Range(s) \union Range(t)
    BY <1>1 DEF Range
  <2>1. CASE i <= Len(s) BY <1>1, <2>1 DEF Range
  <2>2. CASE ~(i <= Len(s))
    <3>1. i - Len(s) \in 1..Len(t) /\ r[i] = t[i - Len(s)] BY <1>1, <2>2
    <3> QED BY <1>1, <3>1 DEF Range
  <2> QED BY <2>1, <2>2
<1> QED BY <1>1, <1>2, <1>3, <1>4 DEF r

LEMMA ShellParts ==
  ASSUME NEW sh \in Shells
  PROVE  /\ sh.attached \subseteq Outputs /\ sh.full \in [Outputs -> Box \union {Null}]
         /\ sh.placeable \in [Outputs -> Box \union {Null}]
         /\ sh.laid \in [Outputs -> Box \union {Null}]
         /\ sh.lists \in [Outputs -> [LayerNames -> Seq(Surfaces)]]
         /\ sh.surface \in [Surfaces -> SurfaceRecords]
         /\ sh.open \subseteq Views /\ sh.menus \subseteq Menus /\ sh.focus \in Views \union {Null}
         /\ sh.keyboard \in Surfaces \union Views \union Menus \union {Null} /\ sh.up \in BOOLEAN
BY DEF Shells

LEMMA PrefixFinite ==
  ASSUME NEW S, NEW s \in Seq(S), NEW i \in 0..Len(s)
  PROVE  IsFiniteSet({s[j] : j \in 1..i}) /\ {s[j] : j \in 1..i} \subseteq S
<1> DEFINE f == [j \in 1..i |-> s[j]]
           T == {s[j] : j \in 1..i}
<1>1. \A j \in 1..i : s[j] \in S OBVIOUS
<1>2. f \in Surjection(1..i, T) BY DEF Surjection
<1>3. IsFiniteSet(1..i) BY FS_Interval
<1> HIDE DEF f, T
<1>4. IsFiniteSet(T) BY <1>2, <1>3, FS_Surjection
<1> QED BY <1>1, <1>4 DEF T

LEMMA ListedFacts ==
  ASSUME NEW sh \in Shells, NEW o \in Outputs
  PROVE  /\ Listed(sh, o) \in Seq(Surfaces)
         /\ SurfacesOf(sh, o) \subseteq Surfaces /\ IsFiniteSet(SurfacesOf(sh, o))
         /\ \A s : s \in SurfacesOf(sh, o) <=> \E l \in LayerNames : s \in Range(sh.lists[o][l])
<1> DEFINE a == sh.lists[o]["overlay"]
           b == sh.lists[o]["top"]
           c == sh.lists[o]["bottom"]
           d == sh.lists[o]["background"]
           r == Listed(sh, o)
<1>1. /\ a \in Seq(Surfaces) /\ b \in Seq(Surfaces)
      /\ c \in Seq(Surfaces) /\ d \in Seq(Surfaces)
  BY ShellParts DEF LayerNames
<1>2. \A s : (\E l \in LayerNames : s \in Range(sh.lists[o][l])) <=>
               s \in ((Range(a) \union Range(b)) \union Range(c)) \union Range(d)
  BY DEF LayerNames
<1>3. r = ((a \o b) \o c) \o d BY DEF Listed
<1> HIDE DEF a, b, c, d, r
<1>4. a \o b \in Seq(Surfaces) /\ Range(a \o b) = Range(a) \union Range(b)
  BY <1>1, ConcatRange
<1>5. /\ (a \o b) \o c \in Seq(Surfaces)
      /\ Range((a \o b) \o c) = (Range(a) \union Range(b)) \union Range(c)
  <2> DEFINE ab == a \o b
  <2> HIDE DEF ab
  <2>1. ab \in Seq(Surfaces) BY <1>4 DEF ab
  <2>2. ab \o c \in Seq(Surfaces) /\ Range(ab \o c) = Range(ab) \union Range(c)
    BY <1>1, <2>1, ConcatRange
  <2> QED BY <1>4, <2>2 DEF ab
<1>6. /\ ((a \o b) \o c) \o d \in Seq(Surfaces)
      /\ Range(((a \o b) \o c) \o d) = ((Range(a) \union Range(b)) \union Range(c)) \union Range(d)
  <2> DEFINE abc == (a \o b) \o c
  <2> HIDE DEF abc
  <2>1. abc \in Seq(Surfaces) BY <1>5 DEF abc
  <2>2. abc \o d \in Seq(Surfaces) /\ Range(abc \o d) = Range(abc) \union Range(d)
    BY <1>1, <2>1, ConcatRange
  <2> QED BY <1>5, <2>2 DEF abc
<1>7. r \in Seq(Surfaces)
      /\ Range(r) = ((Range(a) \union Range(b)) \union Range(c)) \union Range(d)
  BY <1>3, <1>6
<1>8. SurfacesOf(sh, o) = Range(r) BY DEF SurfacesOf, r
<1>9. Range(r) \subseteq Surfaces /\ IsFiniteSet(Range(r))
  <2>1. DOMAIN r = 1..Len(r) /\ Len(r) \in Nat /\ \A i \in 1..Len(r) : r[i] \in Surfaces BY <1>7
  <2>2. Range(r) = {r[j] : j \in 1..Len(r)} BY <2>1 DEF Range
  <2>3. Len(r) \in 0..Len(r) BY <2>1
  <2>4. IsFiniteSet({r[j] : j \in 1..Len(r)}) BY <1>7, <2>3, PrefixFinite
  <2> QED BY <2>1, <2>2, <2>4
<1> QED BY <1>2, <1>7, <1>8, <1>9 DEF r

----------------------------------------------------------------------------
(* One pass over the surfaces of an output.                                *)

SameSurfaces(sh, m) ==
  \A s \in Surfaces : /\ m.surface[s].alive = sh.surface[s].alive
                      /\ m.surface[s].mapped = sh.surface[s].mapped
                      /\ m.surface[s].output = sh.surface[s].output
                      /\ m.surface[s].state = sh.surface[s].state
SameShell(sh, m) ==
  /\ m.attached = sh.attached /\ m.full = sh.full /\ m.lists = sh.lists
  /\ m.open = sh.open /\ m.menus = sh.menus /\ m.focus = sh.focus

\* The surfaces have gone to other places, and one has perhaps gone for good.
Reshaped(sh, m) ==
  /\ m \in Shells /\ SameShell(sh, m) /\ SameSurfaces(sh, m)
  /\ m.placeable = sh.placeable /\ m.laid = sh.laid /\ m.keyboard = sh.keyboard
  /\ m.up => sh.up

ListedLive(sh, o) == \A i \in DOMAIN Listed(sh, o) : sh.surface[Listed(sh, o)[i]].alive

\* The first i surfaces have been arranged.
FirstOf(sh, o, i) == {Listed(sh, o)[j] : j \in 1..i}
Accs == [shell : Shells, output : Outputs, exclusive : BOOLEAN, area : Box]
Through(sh, o, b, area, acc, i) ==
  /\ acc \in Accs /\ acc.output = o /\ acc.exclusive = b /\ Reshaped(sh, acc.shell)
  /\ b /\ ListsOnce(sh, o) /\ acc.shell.up => acc.area = LeftOf(sh, area, FirstOf(sh, o, i))

LEMMA SurfaceReshaped ==
  ASSUME NEW sh, NEW m, Reshaped(sh, m), NEW s \in Surfaces, NEW r \in Box
  PROVE  /\ Reshaped(sh, [m EXCEPT !.surface[s].region = r])
         /\ Reshaped(sh, [m EXCEPT !.up = FALSE])
         /\ [m EXCEPT !.surface[s].region = r].up = m.up
<1> DEFINE k == [m EXCEPT !.surface[s].region = r]
           q == [m.surface[s] EXCEPT !.region = r]
           f == [m.surface EXCEPT ![s] = q]
<1>1. m \in Shells /\ m.surface \in [Surfaces -> SurfaceRecords] /\ m.surface[s] \in SurfaceRecords
  BY ShellParts DEF Reshaped
<1>2. /\ q \in SurfaceRecords /\ q.alive = m.surface[s].alive /\ q.mapped = m.surface[s].mapped
      /\ q.output = m.surface[s].output /\ q.state = m.surface[s].state
  BY <1>1 DEF SurfaceRecords
<1>3. k = [m EXCEPT !.surface = f] BY <1>1 DEF Shells, SurfaceRecords
<1> HIDE DEF q, k
<1>4. f \in [Surfaces -> SurfaceRecords] BY <1>1, <1>2
<1>5. \A t \in Surfaces : /\ f[t].alive = m.surface[t].alive
                          /\ f[t].mapped = m.surface[t].mapped
                          /\ f[t].output = m.surface[t].output
                          /\ f[t].state = m.surface[t].state
  BY <1>1, <1>2
<1> HIDE DEF f
<1>6. /\ k \in Shells /\ SameShell(m, k) /\ k.surface = f
      /\ k.placeable = m.placeable /\ k.laid = m.laid /\ k.keyboard = m.keyboard /\ k.up = m.up
  BY <1>1, <1>3, <1>4 DEF Shells, SameShell
<1>7. Reshaped(sh, k) BY <1>5, <1>6 DEF Reshaped, SameShell, SameSurfaces
<1>8. Reshaped(sh, [m EXCEPT !.up = FALSE])
  BY <1>1 DEF Reshaped, SameShell, SameSurfaces, Shells
<1> QED BY <1>6, <1>7, <1>8 DEF k

LEMMA FirstOfNext ==
  ASSUME NEW sh \in Shells, NEW o \in Outputs, NEW i \in 1..Len(Listed(sh, o))
  PROVE  /\ FirstOf(sh, o, 0) = {}
         /\ FirstOf(sh, o, i) = FirstOf(sh, o, i - 1) \union {Listed(sh, o)[i]}
         /\ ListsOnce(sh, o) => Listed(sh, o)[i] \notin FirstOf(sh, o, i - 1)
         /\ IsFiniteSet(FirstOf(sh, o, i - 1)) /\ FirstOf(sh, o, i - 1) \subseteq Surfaces
         /\ \A s \in FirstOf(sh, o, i) : \E j \in DOMAIN Listed(sh, o) : s = Listed(sh, o)[j]
<1> DEFINE r == Listed(sh, o)
<1>1. r \in Seq(Surfaces) BY ListedFacts
<1> HIDE DEF r
<1>2. DOMAIN r = 1..Len(r) /\ Len(r) \in Nat BY <1>1
<1> SUFFICES /\ {r[j] : j \in 1..0} = {}
             /\ {r[j] : j \in 1..i} = {r[j] : j \in 1..(i - 1)} \union {r[i]}
             /\ IsInjective(r) => r[i] \notin {r[j] : j \in 1..(i - 1)}
             /\ IsFiniteSet({r[j] : j \in 1..(i - 1)}) /\ {r[j] : j \in 1..(i - 1)} \subseteq Surfaces
             /\ \A s \in {r[j] : j \in 1..i} : \E j \in DOMAIN r : s = r[j]
  BY DEF r, FirstOf, ListsOnce
<1> USE DEF r
<1>3. i \in 1..Len(r) BY DEF r
<1> HIDE DEF r
<1>4. i - 1 \in 0..Len(r) /\ 1..i = (1..(i - 1)) \union {i} BY <1>2, <1>3
<1>5. {r[j] : j \in 1..0} = {} OBVIOUS
<1>6. {r[j] : j \in 1..i} = {r[j] : j \in 1..(i - 1)} \union {r[i]} BY <1>4
<1>7. ASSUME IsInjective(r), NEW j \in 1..(i - 1), r[j] = r[i] PROVE FALSE
  <2>1. j \in DOMAIN r /\ i \in DOMAIN r /\ j # i BY <1>2, <1>3, <1>7
  <2> QED BY <1>7, <2>1 DEF IsInjective
<1>8. IsFiniteSet({r[j] : j \in 1..(i - 1)}) /\ {r[j] : j \in 1..(i - 1)} \subseteq Surfaces
  BY <1>1, <1>4, PrefixFinite
<1>9. \A s \in {r[j] : j \in 1..i} : \E j \in DOMAIN r : s = r[j] BY <1>2, <1>3
<1> QED BY <1>5, <1>6, <1>7, <1>8, <1>9

LEMMA PassStep ==
  ASSUME NEW sh \in Shells, Wired(sh), NEW o \in Outputs, sh.full[o] \in Box, ListedLive(sh, o),
         NEW b \in BOOLEAN, NEW area \in Box, NEW i \in 1..Len(Listed(sh, o)),
         NEW acc, Through(sh, o, b, area, acc, i - 1)
  PROVE  Through(sh, o, b, area, ArrangeSurface(acc, Listed(sh, o)[i]), i)
<1> DEFINE s  == Listed(sh, o)[i]
           st == sh.surface[s].state
           T  == FirstOf(sh, o, i - 1)
           F  == FirstOf(sh, o, i)
           n  == ArrangeSurface(acc, s)
           room == IF st.zone = -1 THEN acc.shell.full[acc.output] ELSE acc.area
           r  == SurfaceRegion(st, room)
           q  == IF st.zone > 0 THEN Remaining(st, acc.area) ELSE acc.area
<1>1. s \in Surfaces /\ sh.surface[s].alive /\ st \in State
  <2>1. Listed(sh, o) \in Seq(Surfaces) /\ i \in DOMAIN Listed(sh, o) BY ListedFacts
  <2> QED BY <2>1 DEF ListedLive, Wired
<1>2. /\ F = T \union {s} /\ (ListsOnce(sh, o) => s \notin T)
      /\ IsFiniteSet(T) /\ T \subseteq Surfaces
  BY FirstOfNext
<1>3. \A t \in T : sh.surface[t].state \in State
  <2>1. \A t \in F : \E j \in DOMAIN Listed(sh, o) : t = Listed(sh, o)[j] BY FirstOfNext
  <2> QED BY <1>2, <2>1 DEF ListedLive, Wired
<1>4. /\ acc \in Accs /\ acc.output = o /\ acc.exclusive = b /\ Reshaped(sh, acc.shell)
      /\ b /\ ListsOnce(sh, o) /\ acc.shell.up => acc.area = LeftOf(sh, area, T)
  BY DEF Through
<1>5. acc.shell.surface[s].state = st /\ acc.shell.full = sh.full
  BY <1>1, <1>4 DEF Reshaped, SameShell, SameSurfaces
<1>6. ListsOnce(sh, o) => LeftOf(sh, area, F) =
                            IF st.zone > 0 THEN Remaining(st, LeftOf(sh, area, T))
                                           ELSE LeftOf(sh, area, T)
  BY <1>1, <1>2, <1>3, LeftOfOne
<1>7. n = IF b # (st.zone > 0) THEN acc ELSE Placed(acc, s, st, r)
  BY <1>4, <1>5 DEF ArrangeSurface
<1>8. r \in Box
  <2>1. room \in Box BY <1>4, <1>5 DEF Accs
  <2> HIDE DEF room
  <2> QED BY <1>1, <2>1, RegionType
<1>9. q \in Box
  <2>1. acc.area \in Box BY <1>4 DEF Accs
  <2> QED BY <1>1, <2>1, RemainingType
<1>10. (st.zone > 0) \in BOOLEAN OBVIOUS
<1> HIDE DEF s, st, T, F, n, r
<1>11. CASE b # (st.zone > 0)
  <2>1. n = acc BY <1>7, <1>11
  <2>2. b => ~(st.zone > 0) BY <1>10, <1>11
  <2>3. b /\ ListsOnce(sh, o) /\ n.shell.up => n.area = LeftOf(sh, area, F)
    BY <1>4, <1>6, <2>1, <2>2
  <2> QED BY <1>4, <2>1, <2>3 DEF Through, F, n, s
<1>12. CASE b = (st.zone > 0) /\ \E a \in Axes : r[a].dim < 0
  <2>1. n = [acc EXCEPT !.shell.up = FALSE] BY <1>7, <1>12 DEF Placed
  <2> DEFINE k == [acc.shell EXCEPT !.up = FALSE]
  <2>2. Reshaped(sh, k) /\ k \in Shells /\ ~k.up
    <3>1. Reshaped(sh, k) BY <1>1, <1>4, <1>8, SurfaceReshaped
    <3>2. acc.shell \in Shells BY <1>4 DEF Accs
    <3> QED BY <3>1, <3>2 DEF Reshaped, Shells
  <2>3. n = [acc EXCEPT !.shell = k] BY <1>4, <2>1 DEF Accs
  <2> HIDE DEF k
  <2>4. n \in Accs /\ n.output = o /\ n.exclusive = b /\ n.shell = k
    BY <1>4, <2>2, <2>3 DEF Accs
  <2> QED BY <2>2, <2>4 DEF Through, n, s
<1>13. CASE b = (st.zone > 0) /\ ~\E a \in Axes : r[a].dim < 0
  <2> DEFINE k == [acc.shell EXCEPT !.surface[s].region = r]
  <2>1. n = [acc EXCEPT !.shell.surface[s].region = r, !.area = q]
    <3>1. n = Placed(acc, s, st, r) BY <1>7, <1>13
    <3> QED BY <1>13, <3>1 DEF Placed
  <2>2. Reshaped(sh, k) /\ k \in Shells /\ k.up = acc.shell.up
    <3>1. Reshaped(sh, k) /\ k.up = acc.shell.up BY <1>1, <1>4, <1>8, SurfaceReshaped
    <3> HIDE DEF k
    <3> QED BY <3>1 DEF Reshaped
  <2> HIDE DEF q
  <2>3. n = [acc EXCEPT !.shell = k, !.area = q]
    <3>1. acc \in Accs /\ acc.shell \in Shells BY <1>4 DEF Accs
    <3> QED BY <2>1, <3>1 DEF Accs
  <2> HIDE DEF k
  <2>4. /\ n \in Accs /\ n.output = o /\ n.exclusive = b /\ n.shell = k /\ n.area = q
    BY <1>4, <1>9, <2>2, <2>3 DEF Accs
  <2>5. b /\ ListsOnce(sh, o) /\ k.up => q = LeftOf(sh, area, F)
    BY <1>4, <1>6, <1>13, <2>2 DEF q
  <2>6. b /\ ListsOnce(sh, o) /\ n.shell.up => n.area = LeftOf(sh, area, F)
    BY <2>4, <2>5
  <2>7. Reshaped(sh, n.shell) BY <2>2, <2>4
  <2> QED BY <2>4, <2>6, <2>7 DEF Through, n, s, F
<1> QED BY <1>10, <1>11, <1>12, <1>13 DEF n, s

LEMMA ArrangeFold ==
  ASSUME NEW D, NEW s, NEW n \in Nat, DOMAIN s = 1..n, NEW m \in D[0],
         \A i \in 1..n : \A x \in D[i - 1] : ArrangeSurface(x, s[i]) \in D[i]
  PROVE  FoldLeft(ArrangeSurface, m, s) \in D[n]
<1>1. Arranges!Folded(m, s) \in D[n] BY Arranges!FoldReaches
<1>2. FoldLeft(ArrangeSurface, m, s) = Arranges!Folded(m, s)
  BY DEF Arranges!Folded, FoldLeft, Arranges!FoldLeft, MapThenFoldSet,
         Arranges!MapThenFoldSet, Max, Arranges!Max
<1> QED BY <1>1, <1>2

\* A pass changes no more than where surfaces are, and the pass over those that
\* reserve room leaves what they all leave.
LEMMA PassFacts ==
  ASSUME NEW sh \in Shells, Wired(sh), NEW o \in Outputs, sh.full[o] \in Box, ListedLive(sh, o),
         NEW b \in BOOLEAN, NEW area \in Box
  PROVE  /\ Pass(sh, o, b, area).shell \in Shells /\ Pass(sh, o, b, area).area \in Box
         /\ Reshaped(sh, Pass(sh, o, b, area).shell)
         /\ b /\ ListsOnce(sh, o) /\ Pass(sh, o, b, area).shell.up =>
              Pass(sh, o, b, area).area = LeftOf(sh, area, SurfacesOf(sh, o))
<1> DEFINE r == Listed(sh, o)
           n == Len(r)
           D == [i \in 0..n |-> {acc \in Accs : Through(sh, o, b, area, acc, i)}]
           m == [shell |-> sh, output |-> o, exclusive |-> b, area |-> area]
           p == Pass(sh, o, b, area)
<1>1. r \in Seq(Surfaces) BY ListedFacts
<1>2. n \in Nat /\ DOMAIN r = 1..n BY <1>1
<1>3. Through(sh, o, b, area, m, 0)
  <2>1. FirstOf(sh, o, 0) = {} BY DEF FirstOf
  <2>2. LeftOf(sh, area, {}) = area BY LeftOfOne, FS_EmptySet
  <2>3. Reshaped(sh, sh) BY DEF Reshaped, SameShell, SameSurfaces
  <2> QED BY <2>1, <2>2, <2>3 DEF Through, Accs
<1>4. m \in D[0] BY <1>2, <1>3 DEF Through
<1>5. ASSUME NEW i \in 1..n, NEW x \in D[i - 1] PROVE ArrangeSurface(x, r[i]) \in D[i]
  <2>1. Through(sh, o, b, area, x, i - 1) BY <1>2, <1>5
  <2>2. Through(sh, o, b, area, ArrangeSurface(x, r[i]), i) BY <2>1, PassStep
  <2>3. i \in 0..n BY <1>2, <1>5
  <2> QED BY <2>2, <2>3 DEF Through
<1>6. p = FoldLeft(ArrangeSurface, m, r) BY DEF Pass
<1>7. FirstOf(sh, o, n) = SurfacesOf(sh, o) BY <1>2 DEF FirstOf, SurfacesOf, Range
<1>8. n \in 0..n BY <1>2
<1> HIDE DEF r, n, m, p, D
<1>9. p \in D[n] BY <1>2, <1>4, <1>5, <1>6, ArrangeFold
<1>10. Through(sh, o, b, area, p, n) BY <1>8, <1>9 DEF D
<1> QED BY <1>7, <1>10 DEF Through, Accs, p

----------------------------------------------------------------------------
(* Arranging an output.                                                    *)

\* Arranging o has left all else as it was; a panel has perhaps the keyboard.
Redone(sh, m, o) ==
  /\ m \in Shells /\ SameShell(sh, m) /\ SameSurfaces(sh, m)
  /\ \A p \in Outputs : p # o => /\ m.placeable[p] = sh.placeable[p]
                                 /\ m.laid[p] = sh.laid[p]
  /\ m.keyboard = sh.keyboard \/ (m.keyboard \in Surfaces /\ sh.surface[m.keyboard].mapped)
  /\ m.up => sh.up

\* What an output lists, where it lies and what is left there depend on little.
LEMMA FitsAlike ==
  ASSUME NEW sh \in Shells, NEW m, NEW o \in Outputs, m.lists[o] = sh.lists[o],
         m.full[o] = sh.full[o],
         \A s \in SurfacesOf(sh, o) : m.surface[s].state = sh.surface[s].state
  PROVE  /\ Listed(m, o) = Listed(sh, o) /\ SurfacesOf(m, o) = SurfacesOf(sh, o)
         /\ RoomLeft(m, o) = RoomLeft(sh, o)
         /\ m.placeable[o] = sh.placeable[o] => (Fits(sh, o) <=> Fits(m, o))
<1>1. Listed(m, o) = Listed(sh, o) BY DEF Listed
<1>2. SurfacesOf(m, o) = SurfacesOf(sh, o) BY <1>1 DEF SurfacesOf
<1> DEFINE S == SurfacesOf(sh, o)
           full == sh.full[o]
<1>3. IsFiniteSet(S) BY ListedFacts
<1>4. Alike(m, sh, S) BY DEF Alike
<1> HIDE DEF S, full
<1>5. \A a, e : TakenBy(m, a, e, S) = TakenBy(sh, a, e, S) BY <1>3, <1>4, TakenByAlike
<1>6. LeftOf(m, full, S) = LeftOf(sh, full, S) BY <1>5 DEF LeftOf
<1>7. RoomLeft(m, o) = RoomLeft(sh, o) BY <1>2, <1>6 DEF RoomLeft, S, full
<1> QED BY <1>1, <1>2, <1>7 DEF Fits, ListsOnce

LEMMA LaidOutAnew ==
  ASSUME NEW sh, NEW m, Reshaped(sh, m), Sized(sh), NEW o \in Outputs, NEW area \in Box
  PROVE  /\ Redone(sh, LayOut(m, o, area), o) /\ Sized(LayOut(m, o, area))
         /\ LayOut(m, o, area).placeable[o] = area /\ LayOut(m, o, area).up = m.up
         /\ LayOut(m, o, area).keyboard = sh.keyboard
<1>1. /\ m \in Shells /\ SameShell(sh, m) /\ SameSurfaces(sh, m)
      /\ m.placeable = sh.placeable /\ m.laid = sh.laid /\ m.keyboard = sh.keyboard
      /\ m.up => sh.up
  BY DEF Reshaped
<1>2. m.placeable \in [Outputs -> Box \union {Null}] /\ m.laid \in [Outputs -> Box \union {Null}]
  BY <1>1, ShellParts
<1>3. CASE area = sh.placeable[o]
  <2>1. LayOut(m, o, area) = m BY <1>1, <1>3 DEF LayOut
  <2>2. Redone(sh, m, o) BY <1>1 DEF Redone
  <2>3. Sized(m) BY <1>1 DEF Sized, SameShell
  <2> QED BY <1>1, <1>3, <2>1, <2>2, <2>3
<1>4. CASE area # sh.placeable[o]
  <2> DEFINE k == LayOut(m, o, area)
             f == [m.placeable EXCEPT ![o] = area]
             g == [m.laid EXCEPT ![o] = area]
  <2>1. k = [m EXCEPT !.placeable = f, !.laid = g] BY <1>1, <1>2, <1>4 DEF LayOut, Shells
  <2>2. /\ f \in [Outputs -> Box \union {Null}] /\ g \in [Outputs -> Box \union {Null}]
        /\ f[o] = area /\ g[o] = area
        /\ \A p \in Outputs : p # o => f[p] = m.placeable[p] /\ g[p] = m.laid[p]
    BY <1>2
  <2> HIDE DEF k, f, g
  <2>3. /\ k \in Shells /\ k.placeable = f /\ k.laid = g /\ k.up = m.up
        /\ k.keyboard = m.keyboard /\ k.surface = m.surface /\ SameShell(m, k)
    BY <1>1, <2>1, <2>2 DEF Shells, SameShell
  <2>4. Redone(sh, k, o)
    BY <1>1, <2>2, <2>3 DEF Redone, SameShell, SameSurfaces
  <2>5. Sized(k)
    <3>1. k.attached = sh.attached /\ k.full = sh.full BY <1>1, <2>3 DEF SameShell
    <3>2. ASSUME NEW p \in sh.attached
          PROVE  k.placeable[p] \in Box /\ k.laid[p] \in {k.placeable[p], Null}
      <4>1. sh.placeable[p] \in Box /\ sh.laid[p] \in {sh.placeable[p], Null} BY DEF Sized
      <4>2. p \in Outputs BY <1>1, <3>1, ShellParts DEF SameShell
      <4> QED BY <1>1, <2>2, <2>3, <4>1, <4>2
    <3> QED BY <3>1, <3>2 DEF Sized
  <2> QED BY <1>1, <2>2, <2>3, <2>4, <2>5 DEF k
<1> QED BY <1>3, <1>4

LEMMA LeastOf ==
  ASSUME NEW n \in Nat, NEW E, E \subseteq 1..n, E # {}
  PROVE  Min(E) \in E
<1> DEFINE R == OpToRel(<, Nat)
<1>1. IsWellFoundedOn(R, Nat) BY NatLessThanWellFounded
<1>2. E \subseteq Nat OBVIOUS
<1> HIDE DEF R
<1>3. PICK x \in E : \A y \in E : << y, x >> \notin R BY <1>1, <1>2, WFMin
<1>4. ASSUME NEW y \in E PROVE x <= y
  <2>1. x \in Nat /\ y \in Nat BY <1>2
  <2>2. y < x => << y, x >> \in R BY <2>1 DEF R, OpToRel
  <2> QED BY <1>3, <2>1, <2>2
<1> QED BY <1>4 DEF Min

LEMMA AskedFacts ==
  ASSUME NEW sh \in Shells, NEW o \in Outputs
  PROVE  AskedInTurn(sh, o) \in Seq(Surfaces)
<1> DEFINE a == sh.lists[o]["overlay"]
           b == sh.lists[o]["top"]
<1>1. a \in Seq(Surfaces) /\ b \in Seq(Surfaces) BY ShellParts DEF LayerNames
<1> HIDE DEF a, b
<1>2. Reverse(a) \in Seq(Surfaces) /\ Reverse(b) \in Seq(Surfaces) BY <1>1 DEF Reverse
<1>3. Reverse(a) \o Reverse(b) \in Seq(Surfaces)
  <2> DEFINE u == Reverse(a)
             v == Reverse(b)
  <2>1. u \in Seq(Surfaces) /\ v \in Seq(Surfaces) BY <1>2
  <2> HIDE DEF u, v
  <2>2. u \o v \in Seq(Surfaces) BY <2>1
  <2> QED BY <2>2 DEF u, v
<1> QED BY <1>3 DEF AskedInTurn, a, b

\* The keyboard goes to a mapped panel, or stays.
LEMMA KeyboardGiven ==
  ASSUME NEW sh, NEW m \in Shells, NEW o \in Outputs, Redone(sh, m, o), Sized(m)
  PROVE  /\ Redone(sh, GiveKeyboard(m, o), o) /\ Sized(GiveKeyboard(m, o))
         /\ GiveKeyboard(m, o).placeable = m.placeable /\ GiveKeyboard(m, o).up = m.up
<1> DEFINE r == AskedInTurn(m, o)
           E == Eager(m, o)
           k == [m EXCEPT !.keyboard = r[Min(E)]]
<1>1. r \in Seq(Surfaces) BY AskedFacts
<1>2. DOMAIN r = 1..Len(r) /\ Len(r) \in Nat BY <1>1
<1>3. E \subseteq 1..Len(r) /\ \A i \in E : m.surface[r[i]].mapped BY <1>2 DEF Eager
<1>4. CASE E = {}
  BY <1>4 DEF GiveKeyboard
<1>5. CASE E # {}
  <2>1. GiveKeyboard(m, o) = k BY <1>5 DEF GiveKeyboard
  <2> HIDE DEF r, E
  <2>2. Min(E) \in E BY <1>2, <1>3, <1>5, LeastOf
  <2>3. r[Min(E)] \in Surfaces /\ m.surface[r[Min(E)]].mapped
    <3> DEFINE i == Min(E)
    <3>1. i \in E BY <2>2
    <3> HIDE DEF i
    <3>2. i \in 1..Len(r) /\ m.surface[r[i]].mapped BY <1>3, <3>1
    <3>3. r[i] \in Surfaces BY <1>1, <1>2, <3>2
    <3> QED BY <3>2, <3>3 DEF i
  <2> DEFINE s == r[Min(E)]
  <2> HIDE DEF s
  <2>4. s \in Surfaces /\ m.surface[s].mapped BY <2>3 DEF s
  <2>5. sh.surface[s].mapped BY <2>4 DEF Redone, SameSurfaces
  <2>6. k = [m EXCEPT !.keyboard = s] BY DEF s
  <2> HIDE DEF k
  <2>7. /\ k \in Shells /\ SameShell(m, k) /\ k.surface = m.surface /\ k.placeable = m.placeable
        /\ k.laid = m.laid /\ k.up = m.up /\ k.keyboard = s
    BY <2>4, <2>6 DEF Shells, SameShell
  <2>8. Redone(sh, k, o) BY <2>4, <2>5, <2>7 DEF Redone, SameShell, SameSurfaces
  <2>9. Sized(k) BY <2>7 DEF Sized, SameShell
  <2> QED BY <2>1, <2>7, <2>8, <2>9
<1> QED BY <1>4, <1>5

LEMMA WiredAlike ==
  ASSUME NEW sh, NEW m, Wired(sh), m.attached = sh.attached, m.lists = sh.lists,
         SameSurfaces(sh, m)
  PROVE  Wired(m)
<1>1. \A o : SurfacesOf(m, o) = SurfacesOf(sh, o) BY DEF SurfacesOf, Listed
<1> QED BY <1>1 DEF Wired, SameSurfaces

\* Then arranged once more: the regions change, and the keyboard.
LEMMA RedoneReshaped ==
  ASSUME NEW sh, NEW m, NEW k, NEW o \in Outputs, Redone(sh, m, o), Sized(m), Reshaped(m, k)
  PROVE  Redone(sh, k, o) /\ Sized(k) /\ k \in Shells
<1>1. Redone(sh, k, o) BY DEF Redone, Reshaped, SameShell, SameSurfaces
<1>2. Sized(k) BY DEF Sized, Reshaped, SameShell
<1> QED BY <1>1, <1>2 DEF Reshaped

\* If the program is up in the end, every surface listed was there, and what
\* they leave has been shared out.
ArrangedFrom(sh, m, o) ==
  /\ m \in Sound /\ Redone(sh, m, o)
  /\ m.up => ListedLive(sh, o) /\ Fits(m, o)

LEMMA ArrangedFacts ==
  ASSUME NEW sh \in Sound, NEW o \in sh.attached
  PROVE  ArrangedFrom(sh, ArrangeLayers(sh, o), o)
<1>1. sh \in Shells /\ Sized(sh) /\ Wired(sh) /\ FocusOpen(sh) BY DEF Sound
<1>2. o \in Outputs /\ sh.full[o] \in Box BY <1>1, ShellParts DEF Sized
<1>3. CASE ~ListedLive(sh, o)
  <2> DEFINE k == [sh EXCEPT !.up = FALSE]
  <2>1. ArrangeLayers(sh, o) = k BY <1>3 DEF ArrangeLayers, ListedLive
  <2>2. /\ k \in Shells /\ SameShell(sh, k) /\ k.surface = sh.surface /\ k.laid = sh.laid
        /\ k.placeable = sh.placeable /\ k.keyboard = sh.keyboard /\ k.up = FALSE
    BY <1>1 DEF Shells, SameShell
  <2> HIDE DEF k
  <2>3. SameSurfaces(sh, k) BY <2>2 DEF SameSurfaces
  <2>4. Redone(sh, k, o) BY <2>2, <2>3 DEF Redone
  <2>5. Sized(k) /\ FocusOpen(k) BY <1>1, <2>2 DEF Sized, FocusOpen, SameShell
  <2>6. Wired(k) BY <1>1, <2>2, <2>3, WiredAlike DEF SameShell
  <2> QED BY <2>1, <2>2, <2>4, <2>5, <2>6 DEF ArrangedFrom, Sound
<1>4. CASE ListedLive(sh, o)
  <2> DEFINE full == sh.full[o]
             p1 == Pass(sh, o, TRUE, full)
             m1 == LayOut(p1.shell, o, p1.area)
             p2 == Pass(m1, o, FALSE, p1.area)
             n  == GiveKeyboard(p2.shell, o)
  <2>1. ArrangeLayers(sh, o) = n BY <1>4 DEF ArrangeLayers, ListedLive, AfterExclusive
  <2>2. TRUE \in BOOLEAN /\ FALSE \in BOOLEAN OBVIOUS
  <2> HIDE DEF full
  <2>3. /\ p1.shell \in Shells /\ p1.area \in Box
        /\ Reshaped(sh, p1.shell)
        /\ ListsOnce(sh, o) /\ p1.shell.up => p1.area = LeftOf(sh, full, SurfacesOf(sh, o))
    <3>1. full \in Box BY <1>2 DEF full
    <3> QED BY <1>1, <1>2, <1>4, <2>2, <3>1, PassFacts
  <2> HIDE DEF p1
  <2>4. /\ Redone(sh, m1, o) /\ Sized(m1)
        /\ m1.placeable[o] = p1.area /\ m1.up = p1.shell.up
    BY <1>1, <1>2, <2>3, LaidOutAnew
  <2> HIDE DEF m1
  <2>5. m1 \in Shells /\ SameShell(sh, m1) /\ SameSurfaces(sh, m1) BY <2>4 DEF Redone
  <2>6. Wired(m1) BY <1>1, <2>5, WiredAlike DEF SameShell
  <2>7. Listed(m1, o) = Listed(sh, o) BY <2>5 DEF Listed, SameShell
  <2>8. ListedLive(m1, o)
    <3>1. Listed(sh, o) \in Seq(Surfaces) BY <1>1, <1>2, ListedFacts
    <3> QED BY <1>4, <2>5, <2>7, <3>1 DEF ListedLive, SameSurfaces
  <2>9. m1.full[o] \in Box BY <1>2, <2>5 DEF SameShell
  <2>10. Reshaped(m1, p2.shell)
    BY <1>2, <2>2, <2>3, <2>5, <2>6, <2>8, <2>9, PassFacts
  <2> HIDE DEF p2
  <2>11. Redone(sh, p2.shell, o) /\ Sized(p2.shell) /\ p2.shell \in Shells
    BY <1>2, <2>4, <2>10, RedoneReshaped
  <2>12. /\ Redone(sh, n, o) /\ Sized(n) /\ n.placeable = p2.shell.placeable
         /\ n.up = p2.shell.up
    BY <1>2, <2>11, KeyboardGiven
  <2> HIDE DEF n
  <2>13. n \in Shells /\ SameShell(sh, n) /\ SameSurfaces(sh, n) BY <2>12 DEF Redone
  <2>14. Wired(n) /\ FocusOpen(n)
    <3>1. Wired(n) BY <1>1, <2>13, WiredAlike DEF SameShell
    <3> QED BY <1>1, <2>13, <3>1 DEF FocusOpen, SameShell
  <2>15. n.up => p1.shell.up BY <2>4, <2>10, <2>12 DEF Reshaped
  <2>16. n.placeable[o] = p1.area BY <2>4, <2>10, <2>12 DEF Reshaped
  <2>17. /\ Listed(n, o) = Listed(sh, o) /\ RoomLeft(n, o) = RoomLeft(sh, o)
    <3>1. n.lists[o] = sh.lists[o] /\ n.full[o] = sh.full[o] BY <2>13 DEF SameShell
    <3>2. \A s \in SurfacesOf(sh, o) : n.surface[s].state = sh.surface[s].state
      BY <1>1, <1>2, <2>13, ListedFacts DEF SameSurfaces
    <3> QED BY <1>1, <1>2, <3>1, <3>2, FitsAlike
  <2>18. n.up => Fits(n, o)
    BY <2>3, <2>15, <2>16, <2>17 DEF Fits, ListsOnce, RoomLeft, full
  <2> QED BY <1>4, <2>1, <2>12, <2>13, <2>14, <2>18 DEF ArrangedFrom, Sound
<1> QED BY <1>3, <1>4

----------------------------------------------------------------------------
(* What a change at one output leaves settled at the others.               *)

Belongs(sh, o) == \A s \in SurfacesOf(sh, o) : sh.surface[s].alive => sh.surface[s].output = o

SameListed(sh, m, p) ==
  /\ m.lists[p] = sh.lists[p]
  /\ \A s \in SurfacesOf(sh, p) : /\ m.surface[s].alive = sh.surface[s].alive
                                  /\ m.surface[s].output = sh.surface[s].output
                                  /\ m.surface[s].state = sh.surface[s].state
AlikeBut(sh, m, D) ==
  /\ \A p \in Outputs \ D : SameListed(sh, m, p)
  /\ \A p \in m.attached \ D : /\ p \in sh.attached /\ m.full[p] = sh.full[p]
                               /\ m.placeable[p] = sh.placeable[p]


LEMMA StillSettled ==
  ASSUME NEW sh \in Shells, NEW m \in Shells, NEW D, SettledBut(sh, D), AlikeBut(sh, m, D)
  PROVE  SettledBut(m, D)
<1>1. ASSUME NEW o \in Outputs \ D PROVE Registered(m, o)
  <2>1. SameListed(sh, m, o) /\ Registered(sh, o) BY DEF AlikeBut, SettledBut
  <2>2. SurfacesOf(m, o) = SurfacesOf(sh, o) BY <2>1 DEF SameListed, SurfacesOf, Listed
  <2> QED BY <2>1, <2>2 DEF SameListed, Registered
<1>2. ASSUME NEW o \in m.attached \ D PROVE Fits(m, o)
  <2>1. /\ o \in sh.attached /\ m.full[o] = sh.full[o] /\ m.placeable[o] = sh.placeable[o]
    BY DEF AlikeBut
  <2>2. o \in Outputs /\ Fits(sh, o) BY <2>1, ShellParts DEF SettledBut
  <2>3. /\ m.lists[o] = sh.lists[o]
        /\ \A s \in SurfacesOf(sh, o) : m.surface[s].state = sh.surface[s].state
    BY <2>2 DEF AlikeBut, SameListed
  <2> QED BY <2>1, <2>2, <2>3, FitsAlike
<1> QED BY <1>1, <1>2 DEF SettledBut

LEMMA NothingElse ==
  ASSUME NEW sh \in Shells, SettledBut(sh, {}), NEW D
  PROVE  SettledBut(sh, D)
BY DEF SettledBut

\* Arranging an output that is not settled settles it.
LEMMA ArrangedSettles ==
  ASSUME NEW sh \in Sound, NEW o \in sh.attached, sh.up => SettledBut(sh, {o}) /\ Belongs(sh, o)
  PROVE  ArrangeLayers(sh, o).up => SettledBut(ArrangeLayers(sh, o), {})
<1> DEFINE n == ArrangeLayers(sh, o)
<1>1. ArrangedFrom(sh, n, o) BY ArrangedFacts
<1> HIDE DEF n
<1>2. sh \in Shells /\ o \in Outputs BY ShellParts DEF Sound
<1>3. /\ n \in Shells /\ Redone(sh, n, o) /\ SameShell(sh, n) /\ SameSurfaces(sh, n)
      /\ n.up => sh.up /\ ListedLive(sh, o) /\ Fits(n, o)
  BY <1>1 DEF ArrangedFrom, Redone
<1> SUFFICES ASSUME n.up PROVE SettledBut(n, {}) BY DEF n
<1>4. \A p \in Outputs : SurfacesOf(sh, p) \subseteq Surfaces BY <1>2, ListedFacts
<1>5. AlikeBut(sh, n, {o})
  <2>1. n.attached \subseteq Outputs BY <1>3, ShellParts
  <2> QED BY <1>3, <1>4, <2>1 DEF AlikeBut, SameListed, SameShell, SameSurfaces, Redone
<1>6. SettledBut(n, {o}) BY <1>2, <1>3, <1>5, StillSettled
<1>7. Registered(n, o)
  <2>1. SurfacesOf(n, o) = SurfacesOf(sh, o) BY <1>3 DEF SameShell, SurfacesOf, Listed
  <2>2. \A s \in SurfacesOf(sh, o) : sh.surface[s].alive
    BY <1>3 DEF ListedLive, SurfacesOf, Range
  <2>3. \A s \in SurfacesOf(sh, o) : n.surface[s].alive /\ n.surface[s].output = o
    BY <1>2, <1>3, <1>4, <2>2 DEF Belongs, SameSurfaces
  <2> QED BY <2>1, <2>3 DEF Registered
<1> QED BY <1>3, <1>6, <1>7 DEF SettledBut

----------------------------------------------------------------------------
(* Propagating a change of the output layout.                              *)

\* Outputs have been moved, and a panel has perhaps the keyboard.
Moved(sh, m) ==
  /\ Good(m) /\ SameSurfaces(sh, m)
  /\ m.attached = sh.attached /\ m.lists = sh.lists
  /\ m.open = sh.open /\ m.menus = sh.menus /\ m.focus = sh.focus
  /\ m.keyboard = sh.keyboard \/ (m.keyboard \in Surfaces /\ sh.surface[m.keyboard].mapped)
  /\ m.up => sh.up

LEMMA FullChanged ==
  ASSUME NEW sh, Good(sh), NEW o \in sh.attached, NEW r \in Box
  PROVE  LET k == [sh EXCEPT !.full[o] = r]
         IN  /\ k \in Sound /\ (k.up => SettledBut(k, {o})) /\ k.up = sh.up
             /\ Belongs(sh, o) => Belongs(k, o)
             /\ k.attached = sh.attached /\ k.lists = sh.lists /\ k.surface = sh.surface
             /\ k.open = sh.open /\ k.menus = sh.menus /\ k.focus = sh.focus
             /\ k.keyboard = sh.keyboard
<1> DEFINE k == [sh EXCEPT !.full[o] = r]
           f == [sh.full EXCEPT ![o] = r]
<1>1. sh \in Shells /\ Sized(sh) /\ Wired(sh) /\ FocusOpen(sh) BY DEF Good, Sound
<1>2. sh.full \in [Outputs -> Box \union {Null}] /\ o \in Outputs BY <1>1, ShellParts
<1>3. k = [sh EXCEPT !.full = f] BY <1>1, <1>2 DEF Shells
<1>4. /\ f \in [Outputs -> Box \union {Null}] /\ f[o] = r
      /\ \A p \in Outputs : p # o => f[p] = sh.full[p]
  BY <1>2
<1> HIDE DEF k, f
<1>5. /\ k \in Shells /\ k.full = f
      /\ k.attached = sh.attached /\ k.lists = sh.lists /\ k.surface = sh.surface
      /\ k.open = sh.open /\ k.menus = sh.menus /\ k.focus = sh.focus
      /\ k.keyboard = sh.keyboard /\ k.up = sh.up
      /\ k.placeable = sh.placeable /\ k.laid = sh.laid
  BY <1>1, <1>3, <1>4 DEF Shells
<1>6. \A p \in sh.attached : p \in Outputs BY <1>1, ShellParts
<1>7. Sized(k) /\ Wired(k) /\ FocusOpen(k)
  <2>1. Sized(k) BY <1>1, <1>4, <1>5, <1>6 DEF Sized
  <2>2. Wired(k)
    <3>1. SameSurfaces(sh, k) BY <1>5 DEF SameSurfaces
    <3> QED BY <1>1, <1>5, <3>1, WiredAlike
  <2> QED BY <1>1, <1>5, <2>1, <2>2 DEF FocusOpen
<1>8. AlikeBut(sh, k, {o}) BY <1>4, <1>5, <1>6 DEF AlikeBut, SameListed
<1>9. k.up => SettledBut(k, {o})
  <2> SUFFICES ASSUME k.up PROVE SettledBut(k, {o}) OBVIOUS
  <2>1. SettledBut(sh, {}) BY <1>5 DEF Good
  <2>2. SettledBut(sh, {o}) BY <1>1, <2>1, NothingElse
  <2> QED BY <1>1, <1>5, <1>8, <2>2, StillSettled
<1>10. Belongs(sh, o) => Belongs(k, o) BY <1>5 DEF Belongs, SurfacesOf, Listed
<1> QED BY <1>5, <1>7, <1>9, <1>10 DEF k, Sound

\* Laying the windows of an output out again.
LEMMA LaidAgain ==
  ASSUME NEW sh, Good(sh), NEW o \in sh.attached
  PROVE  LET k == Propagated(sh, o)
         IN  /\ Good(k) /\ k.up = sh.up
             /\ k.attached = sh.attached /\ k.lists = sh.lists /\ k.surface = sh.surface
             /\ k.open = sh.open /\ k.menus = sh.menus /\ k.focus = sh.focus
             /\ k.keyboard = sh.keyboard
<1> DEFINE k == Propagated(sh, o)
           f == [sh.laid EXCEPT ![o] = sh.placeable[o]]
<1>1. sh \in Shells /\ Sized(sh) /\ Wired(sh) /\ FocusOpen(sh) BY DEF Good, Sound
<1>2. /\ sh.laid \in [Outputs -> Box \union {Null}] /\ o \in Outputs
      /\ sh.placeable \in [Outputs -> Box \union {Null}]
  BY <1>1, ShellParts
<1>3. k = [sh EXCEPT !.laid = f] BY <1>1, <1>2 DEF Shells, Propagated
<1>4. /\ f \in [Outputs -> Box \union {Null}] /\ f[o] = sh.placeable[o]
      /\ \A p \in Outputs : p # o => f[p] = sh.laid[p]
  BY <1>2
<1> HIDE DEF k, f
<1>5. /\ k \in Shells /\ k.laid = f
      /\ k.attached = sh.attached /\ k.lists = sh.lists /\ k.surface = sh.surface
      /\ k.open = sh.open /\ k.menus = sh.menus /\ k.focus = sh.focus
      /\ k.keyboard = sh.keyboard /\ k.up = sh.up
      /\ k.placeable = sh.placeable /\ k.full = sh.full
  BY <1>1, <1>3, <1>4 DEF Shells
<1>6. \A p \in sh.attached : p \in Outputs BY <1>1, ShellParts
<1>7. Sized(k) /\ Wired(k) /\ FocusOpen(k)
  <2>1. Sized(k) BY <1>1, <1>4, <1>5, <1>6 DEF Sized
  <2>2. Wired(k)
    <3>1. SameSurfaces(sh, k) BY <1>5 DEF SameSurfaces
    <3> QED BY <1>1, <1>5, <3>1, WiredAlike
  <2> QED BY <1>1, <1>5, <2>1, <2>2 DEF FocusOpen
<1>8. AlikeBut(sh, k, {}) BY <1>5 DEF AlikeBut, SameListed
<1>9. k.up => SettledBut(k, {})
  <2> SUFFICES ASSUME k.up PROVE SettledBut(k, {}) OBVIOUS
  <2>1. SettledBut(sh, {}) BY <1>5 DEF Good
  <2> QED BY <1>1, <1>5, <1>8, <2>1, StillSettled
<1> QED BY <1>5, <1>7, <1>9 DEF k, Good, Sound

LEMMA PropagatedToOne ==
  ASSUME NEW sh, Good(sh), NEW o \in sh.attached, NEW r \in Box
  PROVE  Moved(sh, Propagated(ArrangeLayers([sh EXCEPT !.full[o] = r], o), o))
<1> DEFINE k == [sh EXCEPT !.full[o] = r]
           n == ArrangeLayers(k, o)
           l == Propagated(n, o)
<1>1. sh \in Shells /\ o \in Outputs BY ShellParts DEF Good, Sound
<1>2. /\ k \in Sound /\ (k.up => SettledBut(k, {o})) /\ k.up = sh.up
      /\ Belongs(sh, o) => Belongs(k, o)
      /\ k.attached = sh.attached /\ k.lists = sh.lists /\ k.surface = sh.surface
      /\ k.open = sh.open /\ k.menus = sh.menus /\ k.focus = sh.focus
      /\ k.keyboard = sh.keyboard
  BY FullChanged
<1> HIDE DEF k
<1>3. k.up => SettledBut(k, {o}) /\ Belongs(k, o)
  <2>1. sh.up => Registered(sh, o) BY <1>1 DEF Good, SettledBut
  <2>2. sh.up => Belongs(sh, o) BY <2>1 DEF Belongs, Registered
  <2> QED BY <1>2, <2>2
<1>4. n.up => SettledBut(n, {}) BY <1>2, <1>3, ArrangedSettles
<1>5. ArrangedFrom(k, n, o) BY <1>2, ArrangedFacts
<1> HIDE DEF n
<1>6. n \in Sound /\ Redone(k, n, o) BY <1>5 DEF ArrangedFrom
<1>7. Good(n) BY <1>4, <1>6 DEF Good
<1>8. /\ SameShell(k, n) /\ SameSurfaces(k, n) /\ (n.up => k.up)
      /\ n.keyboard = k.keyboard \/ (n.keyboard \in Surfaces /\ k.surface[n.keyboard].mapped)
  BY <1>6 DEF Redone
<1>9. o \in n.attached BY <1>2, <1>8 DEF SameShell
<1>10. /\ Good(l) /\ l.up = n.up
       /\ l.attached = n.attached /\ l.lists = n.lists /\ l.surface = n.surface
       /\ l.open = n.open /\ l.menus = n.menus /\ l.focus = n.focus
       /\ l.keyboard = n.keyboard
  BY <1>7, <1>9, LaidAgain
<1> HIDE DEF l
<1>11. Moved(sh, l) BY <1>2, <1>8, <1>10 DEF Moved, SameShell, SameSurfaces
<1> QED BY <1>11 DEF l, n, k

LEMMA MovedOn ==
  ASSUME NEW sh, NEW m, NEW n, Moved(sh, m), Moved(m, n), sh.surface \in [Surfaces -> SurfaceRecords]
  PROVE  Moved(sh, n)
BY DEF Moved, SameSurfaces

LEMMA PropagateFold ==
  ASSUME NEW G, NEW m \in G, NEW s, NEW n \in Nat, DOMAIN s = 1..n,
         \A x \in G, i \in 1..n : PropagateTo(x, s[i]) \in G
  PROVE  FoldLeft(PropagateTo, m, s) \in G
<1>1. Propagates!Folded(m, s) \in G BY Propagates!FoldKeeps
<1>2. FoldLeft(PropagateTo, m, s) = Propagates!Folded(m, s)
  BY DEF Propagates!Folded, FoldLeft, Propagates!FoldLeft, MapThenFoldSet,
         Propagates!MapThenFoldSet, Max, Propagates!Max
<1> QED BY <1>1, <1>2

LEMMA SequenceOf ==
  ASSUME NEW S, IsFiniteSet(S)
  PROVE  /\ SetToSeq(S) \in [1..Cardinality(S) -> S] /\ Cardinality(S) \in Nat
<1>1. /\ Cardinality(S) \in Nat
      /\ \E f : f \in Bijection(1..Cardinality(S), S)
  BY FS_CardinalityType DEF ExistsBijection
<1>2. PICK f : f \in Bijection(1..Cardinality(S), S) BY <1>1
<1>3. f \in [1..Cardinality(S) -> S] /\ IsInjective(f)
  BY <1>2 DEF Bijection, Injection, IsInjective
<1>4. \E g \in [1..Cardinality(S) -> S] : IsInjective(g) BY <1>3
<1> QED BY <1>1, <1>4 DEF SetToSeq

\* Moving outputs keeps what is good.
LEMMA PropagatedFacts ==
  ASSUME NEW sh, Good(sh), NEW outputs \in SUBSET sh.attached, NEW full,
         \A o \in outputs : full[o] \in Box
  PROVE  Moved(sh, PropagateOutputLayoutChange(sh, outputs, full))
<1> DEFINE s == SetToSeq(outputs)
           n == Cardinality(outputs)
           m == [shell |-> sh, full |-> full]
           G == {x \in [shell : Shells, full : {full}] : Moved(sh, x.shell)}
<1>1. IsFiniteSet(outputs) BY FS_Subset DEF Good, Sound, Sized
<1>2. s \in [1..n -> outputs] /\ n \in Nat BY <1>1, SequenceOf
<1>3. DOMAIN s = 1..n /\ \A i \in 1..n : s[i] \in outputs BY <1>2
<1>4. sh \in Shells /\ sh.surface \in [Surfaces -> SurfaceRecords] BY ShellParts DEF Good, Sound
<1>5. m \in G
  <2>1. Moved(sh, sh) BY DEF Moved, SameSurfaces
  <2> QED BY <1>4, <2>1
<1>6. ASSUME NEW x \in G, NEW i \in 1..n PROVE PropagateTo(x, s[i]) \in G
  <2> DEFINE o == s[i]
             k == x.shell
             l == Propagated(ArrangeLayers([k EXCEPT !.full[o] = full[o]], o), o)
  <2>1. o \in outputs /\ full[o] \in Box BY <1>3, <1>6
  <2>2. x = [shell |-> k, full |-> full] /\ Moved(sh, k) BY <1>6
  <2>3. PropagateTo(x, o) = [shell |-> l, full |-> full] BY <2>2 DEF PropagateTo
  <2> HIDE DEF o, k
  <2>4. Good(k) /\ o \in k.attached BY <2>1, <2>2 DEF Moved
  <2>5. Moved(k, l) BY <2>1, <2>4, PropagatedToOne
  <2> HIDE DEF l
  <2>6. Moved(sh, l) BY <1>4, <2>2, <2>5, MovedOn
  <2>7. l \in Shells BY <2>6 DEF Moved, Good, Sound
  <2> QED BY <2>3, <2>6, <2>7 DEF o
<1> HIDE DEF s, n, G
<1>7. FoldLeft(PropagateTo, m, s) \in G BY <1>2, <1>3, <1>5, <1>6, PropagateFold
<1>8. PropagateOutputLayoutChange(sh, outputs, full) = FoldLeft(PropagateTo, m, s).shell
  BY DEF PropagateOutputLayoutChange, s
<1> QED BY <1>7, <1>8 DEF G

----------------------------------------------------------------------------
(* Layer surfaces come, change and go.                                     *)

LEMMA Erasing ==
  ASSUME NEW S, NEW s \in Seq(S), NEW e
  PROVE  /\ Lists!EraseRemove(s, e) \in Seq(S)
         /\ Range(Lists!EraseRemove(s, e)) = Range(s) \ {e}
<1> DEFINE kept == {i \in DOMAIN s : s[i] # e}
           k == Erased!Kept(s, kept)
<1>1. Lists!EraseRemove(s, e) = k
  BY DEF Lists!EraseRemove, Lists!Kept, Erased!Kept, Lists!Cardinality, Erased!Cardinality
<1>2. kept \subseteq DOMAIN s OBVIOUS
<1>3. Range(s) \ {e} = {s[i] : i \in kept} BY DEF Range
<1> HIDE DEF kept, k
<1>4. k \in Seq(S) /\ Erased!Range(k) = {s[i] : i \in kept}
  BY <1>2, Erased!KeptFacts DEF k
<1>5. Range(k) = Erased!Range(k) BY DEF Range, Erased!Range
<1> QED BY <1>1, <1>3, <1>4, <1>5

\* Only a list of o is another, or only the surface s is.
OnlyLists(sh, m, o) ==
  /\ m \in Shells /\ m.attached = sh.attached /\ m.full = sh.full
  /\ m.placeable = sh.placeable /\ m.laid = sh.laid /\ m.surface = sh.surface
  /\ m.open = sh.open /\ m.menus = sh.menus /\ m.focus = sh.focus
  /\ m.keyboard = sh.keyboard /\ m.up = sh.up
  /\ \A p \in Outputs : p # o => m.lists[p] = sh.lists[p]
OnlySurface(sh, m, s) ==
  /\ m \in Shells /\ m.attached = sh.attached /\ m.full = sh.full
  /\ m.placeable = sh.placeable /\ m.laid = sh.laid /\ m.lists = sh.lists
  /\ m.open = sh.open /\ m.menus = sh.menus /\ m.focus = sh.focus
  /\ m.keyboard = sh.keyboard /\ m.up = sh.up
  /\ \A t \in Surfaces : t # s => m.surface[t] = sh.surface[t]

SetsList(sh, m, o, l, q) == m = [sh EXCEPT !.lists[o][l] = q]
SetsSurface(sh, m, s, q) == m = [sh EXCEPT !.surface[s] = q]

LEMMA ListReplaced ==
  ASSUME NEW sh \in Shells, NEW o \in Outputs, NEW l \in LayerNames, NEW q \in Seq(Surfaces),
         NEW m, SetsList(sh, m, o, l, q)
  PROVE  /\ OnlyLists(sh, m, o) /\ m.lists[o][l] = q
         /\ \A j \in LayerNames : j # l => m.lists[o][j] = sh.lists[o][j]
<1> DEFINE g == [sh.lists[o] EXCEPT ![l] = q]
           f == [sh.lists EXCEPT ![o] = g]
<1>1. sh.lists \in [Outputs -> [LayerNames -> Seq(Surfaces)]] BY ShellParts
<1>2. sh.lists[o] \in [LayerNames -> Seq(Surfaces)] BY <1>1
<1>3. /\ g \in [LayerNames -> Seq(Surfaces)] /\ g[l] = q
      /\ \A j \in LayerNames : j # l => g[j] = sh.lists[o][j]
  BY <1>2
<1>4. m = [sh EXCEPT !.lists = f] BY <1>1 DEF Shells, SetsList
<1> HIDE DEF g
<1>5. /\ f \in [Outputs -> [LayerNames -> Seq(Surfaces)]] /\ f[o] = g
      /\ \A p \in Outputs : p # o => f[p] = sh.lists[p]
  BY <1>1, <1>3
<1> HIDE DEF f
<1>6. OnlyLists(sh, m, o) /\ m.lists = f BY <1>4, <1>5 DEF OnlyLists, Shells
<1> QED BY <1>3, <1>5, <1>6

LEMMA SurfaceReplaced ==
  ASSUME NEW sh \in Shells, NEW s \in Surfaces, NEW q \in SurfaceRecords,
         NEW m, SetsSurface(sh, m, s, q)
  PROVE  OnlySurface(sh, m, s) /\ m.surface[s] = q
<1> DEFINE f == [sh.surface EXCEPT ![s] = q]
<1>1. sh.surface \in [Surfaces -> SurfaceRecords] BY ShellParts
<1>2. m = [sh EXCEPT !.surface = f] BY <1>1 DEF Shells, SetsSurface
<1>3. /\ f \in [Surfaces -> SurfaceRecords] /\ f[s] = q
      /\ \A t \in Surfaces : t # s => f[t] = sh.surface[t]
  BY <1>1
<1> HIDE DEF f
<1>4. OnlySurface(sh, m, s) /\ m.surface = f BY <1>2, <1>3 DEF OnlySurface, Shells
<1> QED BY <1>3, <1>4

LEMMA AddedFacts ==
  ASSUME NEW sh \in Shells, NEW o \in Outputs, NEW l \in LayerNames, NEW s \in Surfaces
  PROVE  /\ OnlyLists(sh, AddLayer(sh, o, l, s), o)
         /\ SurfacesOf(AddLayer(sh, o, l, s), o) = SurfacesOf(sh, o) \union {s}
<1> DEFINE m == AddLayer(sh, o, l, s)
           w == sh.lists[o][l]
           q == Append(w, s)
<1>1. w \in Seq(Surfaces) BY ShellParts
<1> HIDE DEF w
<1>2. q \in Seq(Surfaces) /\ Range(q) = Range(w) \union {s}
  <2> DEFINE u == << s >>
  <2>1. u \in Seq(Surfaces) /\ q = w \o u /\ Range(u) = {s} BY <1>1 DEF Range
  <2> HIDE DEF u
  <2>2. w \o u \in Seq(Surfaces) /\ Range(w \o u) = Range(w) \union Range(u)
    BY <1>1, <2>1, ConcatRange
  <2> HIDE DEF q
  <2> QED BY <2>1, <2>2
<1>3. SetsList(sh, m, o, l, q) BY DEF AddLayer, SetsList, w
<1> HIDE DEF m, q
<1>4. /\ OnlyLists(sh, m, o) /\ m.lists[o][l] = q
      /\ \A j \in LayerNames : j # l => m.lists[o][j] = sh.lists[o][j]
  BY <1>2, <1>3, ListReplaced
<1>5. m \in Shells BY <1>4 DEF OnlyLists
<1>6. \A t : t \in SurfacesOf(m, o) <=> t \in SurfacesOf(sh, o) \union {s}
  <2>1. \A t : (\E j \in LayerNames : t \in Range(m.lists[o][j])) <=>
               \/ \E j \in LayerNames : t \in Range(sh.lists[o][j])
               \/ t = s
    BY <1>2, <1>4 DEF w
  <2> QED BY <1>5, <2>1, ListedFacts
<1> QED BY <1>4, <1>6 DEF m

LEMMA RemovedFacts ==
  ASSUME NEW sh \in Shells, NEW o \in Outputs, NEW l \in LayerNames, NEW s \in Surfaces
  PROVE  /\ OnlyLists(sh, RemoveLayer(sh, o, l, s), o)
         /\ SurfacesOf(RemoveLayer(sh, o, l, s), o) \subseteq SurfacesOf(sh, o)
         /\ SurfacesOf(sh, o) \subseteq SurfacesOf(RemoveLayer(sh, o, l, s), o) \union {s}
<1> DEFINE m == RemoveLayer(sh, o, l, s)
           w == sh.lists[o][l]
           q == Lists!EraseRemove(w, s)
<1>1. w \in Seq(Surfaces) BY ShellParts
<1>2. q \in Seq(Surfaces) /\ Range(q) = Range(w) \ {s}
  <2> HIDE DEF w
  <2> QED BY <1>1, Erasing
<1>3. SetsList(sh, m, o, l, q) BY DEF RemoveLayer, SetsList
<1> HIDE DEF m, q, w
<1>4. /\ OnlyLists(sh, m, o) /\ m.lists[o][l] = q
      /\ \A j \in LayerNames : j # l => m.lists[o][j] = sh.lists[o][j]
  BY <1>2, <1>3, ListReplaced
<1>5. m \in Shells BY <1>4 DEF OnlyLists
<1>6. \A t : /\ t \in SurfacesOf(m, o) => t \in SurfacesOf(sh, o)
             /\ t \in SurfacesOf(sh, o) => t \in SurfacesOf(m, o) \union {s}
  <2>1. \A j \in LayerNames : /\ Range(m.lists[o][j]) \subseteq Range(sh.lists[o][j])
                              /\ Range(sh.lists[o][j]) \subseteq Range(m.lists[o][j]) \union {s}
    BY <1>2, <1>4 DEF w
  <2>2. \A t : /\ (\E j \in LayerNames : t \in Range(m.lists[o][j])) =>
                  \E j \in LayerNames : t \in Range(sh.lists[o][j])
               /\ (\E j \in LayerNames : t \in Range(sh.lists[o][j])) =>
                  (\E j \in LayerNames : t \in Range(m.lists[o][j])) \/ t = s
    BY <2>1
  <2> QED BY <1>5, <2>2, ListedFacts
<1> QED BY <1>4, <1>6 DEF m

\* Between a change at o and the arrangement that follows it.
Unsettled(sh, o) ==
  /\ sh \in Sound /\ o \in sh.attached
  /\ sh.up => SettledBut(sh, {o}) /\ Belongs(sh, o)

\* Nothing on display has gone, the keyboard has come to a panel if it has moved.
ArrangedGood(sh, m) ==
  /\ Good(m) /\ SameShell(sh, m) /\ SameSurfaces(sh, m)
  /\ m.keyboard = sh.keyboard \/ (m.keyboard \in Surfaces /\ sh.surface[m.keyboard].mapped)

LEMMA SettlesIt ==
  ASSUME NEW sh, NEW o, Unsettled(sh, o)
  PROVE  ArrangedGood(sh, ArrangeLayers(sh, o))
<1> DEFINE n == ArrangeLayers(sh, o)
<1>1. sh \in Sound /\ o \in sh.attached /\ (sh.up => SettledBut(sh, {o}) /\ Belongs(sh, o))
  BY DEF Unsettled
<1>2. n.up => SettledBut(n, {}) BY <1>1, ArrangedSettles
<1>3. ArrangedFrom(sh, n, o) BY <1>1, ArrangedFacts
<1> HIDE DEF n
<1>4. ArrangedGood(sh, n) BY <1>2, <1>3 DEF ArrangedFrom, Redone, ArrangedGood, Good
<1> QED BY <1>4 DEF n

LEMMA GoodParts ==
  ASSUME NEW sh, Good(sh)
  PROVE  /\ sh \in Shells /\ sh \in Sound /\ Sized(sh) /\ Wired(sh) /\ FocusOpen(sh)
         /\ sh.up => \A o \in Outputs :
                       /\ Registered(sh, o)
                       /\ o \in sh.attached => Fits(sh, o)
BY DEF Good, Sound, SettledBut

\* A surface goes to the list of another layer, if it had not been there already.
LEMMA CreatedUnsettled ==
  ASSUME NEW sh, Good(sh), sh.up, NEW s \in Surfaces, NEW o \in sh.attached, NEW st \in State,
         \A p \in Outputs : s \notin SurfacesOf(sh, p)
  PROVE  /\ Unsettled(Created(sh, s, o, st), o)
         /\ Created(sh, s, o, st).menus = sh.menus
         /\ \A t \in Surfaces : t # s => Created(sh, s, o, st).surface[t] = sh.surface[t]
<1> DEFINE a == AddLayer(sh, o, st.layer, s)
           q == [alive |-> TRUE, mapped |-> FALSE, output |-> o, state |-> st,
                 region |-> sh.full[o]]
           m == Created(sh, s, o, st)
<1>1. sh \in Shells /\ Sized(sh) /\ Wired(sh) /\ FocusOpen(sh) BY GoodParts
<1>2. o \in Outputs /\ \A p \in sh.attached : p \in Outputs BY <1>1, ShellParts
<1>3. st.layer \in LayerNames BY DEF State
<1>4. OnlyLists(sh, a, o) /\ SurfacesOf(a, o) = SurfacesOf(sh, o) \union {s}
  BY <1>1, <1>2, <1>3, AddedFacts
<1>5. q \in SurfaceRecords
  <2>1. sh.full[o] \in Box \union {Null} BY <1>1, <1>2, ShellParts
  <2> QED BY <1>2, <2>1 DEF SurfaceRecords
<1>6. SetsSurface(a, m, s, q) BY DEF Created, SetsSurface
<1>7. /\ q.alive = TRUE /\ q.mapped = FALSE /\ q.output = o /\ q.state = st OBVIOUS
<1> HIDE DEF a, q, m
<1>8. a \in Shells BY <1>4 DEF OnlyLists
<1>9. OnlySurface(a, m, s) /\ m.surface[s] = q BY <1>5, <1>6, <1>8, SurfaceReplaced
<1>10. /\ m \in Shells /\ m.attached = sh.attached /\ m.full = sh.full
       /\ m.placeable = sh.placeable /\ m.laid = sh.laid
       /\ m.open = sh.open /\ m.menus = sh.menus /\ m.focus = sh.focus
       /\ m.keyboard = sh.keyboard /\ m.up = sh.up
       /\ \A t \in Surfaces : t # s => m.surface[t] = sh.surface[t]
       /\ \A p \in Outputs : p # o => m.lists[p] = sh.lists[p]
       /\ m.lists = a.lists
  BY <1>4, <1>9 DEF OnlyLists, OnlySurface
<1>11. SurfacesOf(m, o) = SurfacesOf(sh, o) \union {s}
  BY <1>4, <1>10 DEF SurfacesOf, Listed
<1>12. \A p \in Outputs : p # o => SurfacesOf(m, p) = SurfacesOf(sh, p)
  BY <1>10 DEF SurfacesOf, Listed
<1>13. Sized(m) /\ FocusOpen(m) BY <1>1, <1>10 DEF Sized, FocusOpen
<1>14. Wired(m)
  <2> SUFFICES ASSUME NEW t \in Surfaces
               PROVE  /\ m.surface[t].alive => m.surface[t].state \in State
                      /\ m.surface[t].mapped => m.surface[t].alive
                      /\ m.surface[t].alive /\ m.surface[t].output # Null =>
                           /\ m.surface[t].output \in m.attached
                           /\ t \in SurfacesOf(m, m.surface[t].output)
    BY DEF Wired
  <2>1. CASE t = s BY <1>7, <1>9, <1>10, <1>11, <2>1
  <2>2. CASE t # s
    <3>1. m.surface[t] = sh.surface[t] BY <1>10, <2>2
    <3>2. /\ sh.surface[t].alive => sh.surface[t].state \in State
          /\ sh.surface[t].mapped => sh.surface[t].alive
          /\ sh.surface[t].alive /\ sh.surface[t].output # Null =>
               /\ sh.surface[t].output \in sh.attached
               /\ t \in SurfacesOf(sh, sh.surface[t].output)
      BY <1>1 DEF Wired
    <3>3. \A p \in Outputs : SurfacesOf(sh, p) \subseteq SurfacesOf(m, p) BY <1>11, <1>12
    <3> QED BY <1>2, <1>10, <3>1, <3>2, <3>3
  <2> QED BY <2>1, <2>2
<1>15. Belongs(m, o)
  <2>1. Registered(sh, o) BY <1>2, GoodParts
  <2>2. SurfacesOf(sh, o) \subseteq Surfaces BY <1>1, <1>2, ListedFacts
  <2> QED BY <1>2, <1>7, <1>9, <1>10, <1>11, <2>1, <2>2 DEF Belongs, Registered
<1>16. SettledBut(m, {o})
  <2>1. SettledBut(sh, {o}) BY <1>1, NothingElse DEF Good
  <2>2. \A p \in Outputs : SurfacesOf(sh, p) \subseteq Surfaces BY <1>1, ListedFacts
  <2>3. AlikeBut(sh, m, {o}) BY <1>2, <1>10, <2>2 DEF AlikeBut, SameListed
  <2> QED BY <1>1, <1>10, <2>1, <2>3, StillSettled
<1>17. Unsettled(m, o) BY <1>10, <1>13, <1>14, <1>15, <1>16 DEF Unsettled, Sound
<1> QED BY <1>10, <1>17 DEF m

----------------------------------------------------------------------------
(* Where the keyboard goes.                                                *)

OnlyKeyboard(sh, m) ==
  /\ m \in Shells /\ m.attached = sh.attached /\ m.full = sh.full
  /\ m.placeable = sh.placeable /\ m.laid = sh.laid /\ m.lists = sh.lists
  /\ m.surface = sh.surface
  /\ m.open = sh.open /\ m.menus = sh.menus /\ m.focus = sh.focus /\ m.up = sh.up

\* There is a focused window on display, which can be given the keyboard.
Returnable(sh) == sh.focus # Null /\ Home[sh.focus] \in sh.attached

LEMMA RefocusFacts ==
  ASSUME NEW sh \in Shells
  PROVE  /\ OnlyKeyboard(sh, Refocus(sh))
         /\ Refocus(sh).keyboard = IF Returnable(sh) THEN sh.focus ELSE sh.keyboard
<1>1. CASE ~Returnable(sh)
  <2>1. Refocus(sh) = sh BY <1>1 DEF Refocus, Returnable
  <2> QED BY <1>1, <2>1 DEF OnlyKeyboard
<1>2. CASE Returnable(sh)
  <2>1. Refocus(sh) = [sh EXCEPT !.keyboard = sh.focus] BY <1>2 DEF Refocus, Returnable
  <2>2. sh.focus \in Views BY <1>2, ShellParts DEF Returnable
  <2> QED BY <1>2, <2>1, <2>2 DEF OnlyKeyboard, Shells
<1> QED BY <1>1, <1>2

\* A surface has changed, and has perhaps given the keyboard up.
SurfaceStep(sh, m, s) ==
  /\ m \in Shells /\ m.attached = sh.attached /\ m.full = sh.full
  /\ m.placeable = sh.placeable /\ m.laid = sh.laid /\ m.lists = sh.lists
  /\ m.open = sh.open /\ m.menus = sh.menus /\ m.focus = sh.focus /\ m.up = sh.up
  /\ \A t \in Surfaces : t # s => m.surface[t] = sh.surface[t]
  /\ m.surface[s].alive = sh.surface[s].alive /\ m.surface[s].output = sh.surface[s].output
  /\ sh.keyboard = s /\ sh.surface[s].mapped /\ ~m.surface[s].mapped /\ Returnable(sh) =>
       m.keyboard = sh.focus

LEMMA UnmapFacts ==
  ASSUME NEW sh \in Shells, NEW s \in Surfaces
  PROVE  /\ SurfaceStep(sh, UnmapLayer(sh, s), s)
         /\ UnmapLayer(sh, s).surface[s].state = sh.surface[s].state
         /\ UnmapLayer(sh, s).surface[s].mapped = FALSE
<1> DEFINE q == [sh.surface[s] EXCEPT !.mapped = FALSE]
           k == [sh EXCEPT !.surface[s].mapped = FALSE]
           u == UnmapLayer(sh, s)
<1>1. sh.surface \in [Surfaces -> SurfaceRecords] /\ sh.surface[s] \in SurfaceRecords
  BY ShellParts
<1>2. /\ q \in SurfaceRecords /\ q.alive = sh.surface[s].alive /\ q.mapped = FALSE
      /\ q.output = sh.surface[s].output /\ q.state = sh.surface[s].state
  BY <1>1 DEF SurfaceRecords
<1>3. SetsSurface(sh, k, s, q) BY <1>1 DEF SetsSurface, Shells
<1>4. u = IF sh.keyboard = s THEN Refocus(k) ELSE k BY DEF UnmapLayer
<1> HIDE DEF q, k, u
<1>5. OnlySurface(sh, k, s) /\ k.surface[s] = q BY <1>2, <1>3, SurfaceReplaced
<1>6. k \in Shells /\ (Returnable(k) <=> Returnable(sh)) BY <1>5 DEF OnlySurface, Returnable
<1>7. /\ OnlyKeyboard(k, Refocus(k))
      /\ Refocus(k).keyboard = IF Returnable(k) THEN k.focus ELSE k.keyboard
  BY <1>6, RefocusFacts
<1>8. CASE sh.keyboard = s
  <2>1. u = Refocus(k) BY <1>4, <1>8
  <2>2. SurfaceStep(sh, u, s)
    BY <1>2, <1>5, <1>6, <1>7, <2>1 DEF SurfaceStep, OnlySurface, OnlyKeyboard
  <2>3. u.surface[s] = q BY <1>5, <1>7, <2>1 DEF OnlyKeyboard
  <2> QED BY <1>2, <2>2, <2>3 DEF u
<1>9. CASE sh.keyboard # s
  <2>1. u = k BY <1>4, <1>9
  <2>2. SurfaceStep(sh, u, s) BY <1>2, <1>5, <1>9, <2>1 DEF SurfaceStep, OnlySurface
  <2> QED BY <1>2, <1>5, <2>1, <2>2 DEF u
<1> QED BY <1>8, <1>9

LEMMA CommittedFacts ==
  ASSUME NEW sh \in Shells, NEW s \in Surfaces, NEW st \in State, NEW buffer \in BOOLEAN
  PROVE  /\ SurfaceStep(sh, Committed(sh, s, st, buffer), s)
         /\ Committed(sh, s, st, buffer).surface[s].state = st
         /\ Committed(sh, s, st, buffer).surface[s].mapped = buffer
<1> DEFINE c == Committed(sh, s, st, buffer)
<1>1. sh.surface \in [Surfaces -> SurfaceRecords] /\ sh.surface[s] \in SurfaceRecords
  BY ShellParts
<1>2. CASE sh.surface[s].mapped /\ ~buffer
  <2> DEFINE q == [sh.surface[s] EXCEPT !.state = st]
             k == [sh EXCEPT !.surface[s].state = st]
  <2>1. /\ q \in SurfaceRecords /\ q.alive = sh.surface[s].alive
        /\ q.mapped = sh.surface[s].mapped
        /\ q.output = sh.surface[s].output /\ q.state = st
    BY <1>1 DEF SurfaceRecords
  <2>2. SetsSurface(sh, k, s, q) BY <1>1 DEF SetsSurface, Shells
  <2>3. c = UnmapLayer(k, s) BY <1>2 DEF Committed
  <2> HIDE DEF q, k, c
  <2>4. OnlySurface(sh, k, s) /\ k.surface[s] = q BY <2>1, <2>2, SurfaceReplaced
  <2>5. k \in Shells /\ (Returnable(k) <=> Returnable(sh)) BY <2>4 DEF OnlySurface, Returnable
  <2>6. /\ SurfaceStep(k, c, s) /\ c.surface[s].state = k.surface[s].state
        /\ c.surface[s].mapped = FALSE
    BY <2>3, <2>5, UnmapFacts
  <2>7. SurfaceStep(sh, c, s) BY <1>2, <2>1, <2>4, <2>5, <2>6 DEF SurfaceStep, OnlySurface
  <2> QED BY <1>2, <2>1, <2>4, <2>6, <2>7 DEF c
<1>3. CASE ~(sh.surface[s].mapped /\ ~buffer)
  <2> DEFINE q == [sh.surface[s] EXCEPT !.state = st, !.mapped = buffer]
  <2>1. /\ q \in SurfaceRecords /\ q.alive = sh.surface[s].alive /\ q.mapped = buffer
        /\ q.output = sh.surface[s].output /\ q.state = st
    BY <1>1 DEF SurfaceRecords
  <2>2. SetsSurface(sh, c, s, q) BY <1>1, <1>3 DEF SetsSurface, Shells, Committed
  <2> HIDE DEF q, c
  <2>4. OnlySurface(sh, c, s) /\ c.surface[s] = q BY <2>1, <2>2, SurfaceReplaced
  <2>5. SurfaceStep(sh, c, s) BY <1>3, <2>1, <2>4 DEF SurfaceStep, OnlySurface
  <2> QED BY <2>1, <2>4, <2>5 DEF c
<1> QED BY <1>2, <1>3

\* All that is shown still is, and the keyboard, if it has moved, is a panel's.
StillShown(sh, m) ==
  /\ m.open = sh.open /\ m.menus = sh.menus
  /\ \A t \in Surfaces : m.surface[t].mapped = sh.surface[t].mapped
  /\ m.keyboard = sh.keyboard \/ (m.keyboard \in Surfaces /\ sh.surface[m.keyboard].mapped)

\* A commit that is not followed by an arrangement.
LEMMA CommitKept ==
  ASSUME NEW sh, Good(sh), sh.up, NEW s \in Surfaces, sh.surface[s].alive,
         NEW c, SurfaceStep(sh, c, s), c.surface[s].state \in State,
         sh.surface[s].output = Null \/ c.surface[s].state = sh.surface[s].state
  PROVE  Good(c)
<1>1. sh \in Shells /\ Sized(sh) /\ Wired(sh) /\ FocusOpen(sh) BY GoodParts
<1>2. /\ c \in Shells /\ c.attached = sh.attached /\ c.full = sh.full
      /\ c.placeable = sh.placeable /\ c.laid = sh.laid /\ c.lists = sh.lists
      /\ c.open = sh.open /\ c.menus = sh.menus /\ c.focus = sh.focus /\ c.up = sh.up
      /\ \A t \in Surfaces : t # s => c.surface[t] = sh.surface[t]
      /\ c.surface[s].alive = sh.surface[s].alive /\ c.surface[s].output = sh.surface[s].output
  BY DEF SurfaceStep
<1>3. \A p : SurfacesOf(c, p) = SurfacesOf(sh, p) BY <1>2 DEF SurfacesOf, Listed
<1>4. Sized(c) /\ FocusOpen(c) BY <1>1, <1>2 DEF Sized, FocusOpen
<1>5. Wired(c)
  <2> SUFFICES ASSUME NEW t \in Surfaces
               PROVE  /\ c.surface[t].alive => c.surface[t].state \in State
                      /\ c.surface[t].mapped => c.surface[t].alive
                      /\ c.surface[t].alive /\ c.surface[t].output # Null =>
                           /\ c.surface[t].output \in c.attached
                           /\ t \in SurfacesOf(c, c.surface[t].output)
    BY DEF Wired
  <2>1. /\ sh.surface[t].alive => sh.surface[t].state \in State
        /\ sh.surface[t].mapped => sh.surface[t].alive
        /\ sh.surface[t].alive /\ sh.surface[t].output # Null =>
             /\ sh.surface[t].output \in sh.attached
             /\ t \in SurfacesOf(sh, sh.surface[t].output)
    BY <1>1 DEF Wired
  <2>2. CASE t = s BY <1>2, <1>3, <2>1, <2>2
  <2>3. CASE t # s BY <1>2, <1>3, <2>1, <2>3
  <2> QED BY <2>2, <2>3
<1>6. AlikeBut(sh, c, {})
  <2>1. ASSUME NEW p \in Outputs, NEW t \in SurfacesOf(sh, p)
        PROVE  /\ c.surface[t].alive = sh.surface[t].alive
               /\ c.surface[t].output = sh.surface[t].output
               /\ c.surface[t].state = sh.surface[t].state
    <3>1. t \in Surfaces BY <1>1, ListedFacts
    <3>2. CASE t # s BY <1>2, <3>1, <3>2
    <3>3. CASE t = s
      <4>1. Registered(sh, p) BY GoodParts
      <4>2. sh.surface[s].output # Null BY <2>1, <3>3, <4>1, LayersAssumption DEF Registered
      <4> QED BY <1>2, <3>3, <4>2
    <3> QED BY <3>2, <3>3
  <2> QED BY <1>2, <2>1 DEF AlikeBut, SameListed
<1>7. SettledBut(sh, {}) BY DEF Good
<1>8. SettledBut(c, {}) BY <1>1, <1>2, <1>6, <1>7, StillSettled
<1> QED BY <1>2, <1>4, <1>5, <1>8 DEF Good, Sound

\* A commit puts the surface last in the list of its layer: the output lists the
\* surfaces it did.
LEMMA RelayeredUnsettled ==
  ASSUME NEW sh, Good(sh), sh.up, NEW s \in Surfaces, sh.surface[s].alive,
         sh.surface[s].output # Null,
         NEW c, SurfaceStep(sh, c, s), c.surface[s].state \in State, NEW l \in LayerNames,
         c.surface[s].mapped \in BOOLEAN
  PROVE  /\ Unsettled(RelayerLayer(c, sh.surface[s].output, l, s), sh.surface[s].output)
         /\ RelayerLayer(c, sh.surface[s].output, l, s).surface = c.surface
         /\ RelayerLayer(c, sh.surface[s].output, l, s).keyboard = c.keyboard
         /\ RelayerLayer(c, sh.surface[s].output, l, s).menus = sh.menus
         /\ RelayerLayer(c, sh.surface[s].output, l, s).open = sh.open
<1> DEFINE o == sh.surface[s].output
           d == RemoveLayer(c, o, l, s)
           r == RelayerLayer(c, o, l, s)
<1>1. sh \in Shells /\ Sized(sh) /\ Wired(sh) /\ FocusOpen(sh) BY GoodParts
<1>2. o \in sh.attached /\ s \in SurfacesOf(sh, o) BY <1>1 DEF Wired
<1> HIDE DEF o
<1>3. o \in Outputs /\ \A p \in sh.attached : p \in Outputs BY <1>1, <1>2, ShellParts
<1>4. /\ c \in Shells /\ c.attached = sh.attached /\ c.full = sh.full
      /\ c.placeable = sh.placeable /\ c.laid = sh.laid /\ c.lists = sh.lists
      /\ c.open = sh.open /\ c.menus = sh.menus /\ c.focus = sh.focus /\ c.up = sh.up
      /\ \A t \in Surfaces : t # s => c.surface[t] = sh.surface[t]
      /\ c.surface[s].alive = sh.surface[s].alive /\ c.surface[s].output = sh.surface[s].output
  BY DEF SurfaceStep
<1>5. \A p : SurfacesOf(c, p) = SurfacesOf(sh, p) BY <1>4 DEF SurfacesOf, Listed
<1>6. /\ OnlyLists(c, d, o)
      /\ SurfacesOf(d, o) \subseteq SurfacesOf(c, o)
      /\ SurfacesOf(c, o) \subseteq SurfacesOf(d, o) \union {s}
  BY <1>3, <1>4, RemovedFacts
<1>7. r = AddLayer(d, o, l, s) BY DEF RelayerLayer
<1> HIDE DEF d, r
<1>8. d \in Shells BY <1>6 DEF OnlyLists
<1>9. OnlyLists(d, r, o) /\ SurfacesOf(r, o) = SurfacesOf(d, o) \union {s}
  BY <1>3, <1>7, <1>8, AddedFacts
<1>10. SurfacesOf(r, o) = SurfacesOf(sh, o) BY <1>2, <1>5, <1>6, <1>9
<1>11. /\ r \in Shells /\ r.attached = sh.attached /\ r.full = sh.full
       /\ r.placeable = sh.placeable /\ r.laid = sh.laid
       /\ r.open = sh.open /\ r.menus = sh.menus /\ r.focus = sh.focus /\ r.up = sh.up
       /\ r.surface = c.surface /\ r.keyboard = c.keyboard
       /\ \A p \in Outputs : p # o => r.lists[p] = sh.lists[p]
  BY <1>4, <1>6, <1>9 DEF OnlyLists
<1>12. \A p \in Outputs : SurfacesOf(r, p) = SurfacesOf(sh, p)
  BY <1>10, <1>11 DEF SurfacesOf, Listed
<1>13. Sized(r) /\ FocusOpen(r) BY <1>1, <1>11 DEF Sized, FocusOpen
<1>14. Wired(r)
  <2> SUFFICES ASSUME NEW t \in Surfaces
               PROVE  /\ r.surface[t].alive => r.surface[t].state \in State
                      /\ r.surface[t].mapped => r.surface[t].alive
                      /\ r.surface[t].alive /\ r.surface[t].output # Null =>
                           /\ r.surface[t].output \in r.attached
                           /\ t \in SurfacesOf(r, r.surface[t].output)
    BY DEF Wired
  <2>1. /\ sh.surface[t].alive => sh.surface[t].state \in State
        /\ sh.surface[t].mapped => sh.surface[t].alive
        /\ sh.surface[t].alive /\ sh.surface[t].output # Null =>
             /\ sh.surface[t].output \in sh.attached
             /\ t \in SurfacesOf(sh, sh.surface[t].output)
    BY <1>1 DEF Wired
  <2>2. CASE t = s
    <3>1. r.surface[t].output = o /\ o \in r.attached /\ t \in SurfacesOf(r, o)
      BY <1>2, <1>4, <1>10, <1>11, <2>2 DEF o
    <3> QED BY <1>4, <1>11, <2>2, <3>1
  <2>3. CASE t # s
    <3>1. r.surface[t] = sh.surface[t] BY <1>4, <1>11, <2>3
    <3> QED BY <1>3, <1>11, <1>12, <2>1, <3>1
  <2> QED BY <2>2, <2>3
<1>15. Belongs(r, o)
  <2>1. Registered(sh, o) BY <1>3, GoodParts
  <2>2. SurfacesOf(sh, o) \subseteq Surfaces BY <1>1, <1>3, ListedFacts
  <2>3. \A t \in SurfacesOf(sh, o) : r.surface[t].output = sh.surface[t].output
    BY <1>4, <1>11, <2>2
  <2> QED BY <1>10, <2>1, <2>3 DEF Belongs, Registered
<1>16. SettledBut(r, {o})
  <2>1. SettledBut(sh, {o}) BY <1>1, NothingElse DEF Good
  <2>2. ASSUME NEW p \in Outputs, p # o, NEW t \in SurfacesOf(sh, p)
        PROVE  t \in Surfaces /\ t # s
    <3>1. Registered(sh, p) BY GoodParts
    <3>2. t \in Surfaces BY <1>1, ListedFacts
    <3> QED BY <2>2, <3>1, <3>2 DEF Registered, o
  <2>3. AlikeBut(sh, r, {o}) BY <1>3, <1>4, <1>11, <2>2 DEF AlikeBut, SameListed
  <2> QED BY <1>1, <1>11, <2>1, <2>3, StillSettled
<1>17. Unsettled(r, o)
  BY <1>2, <1>11, <1>13, <1>14, <1>15, <1>16 DEF Unsettled, Sound
<1> QED BY <1>11, <1>17 DEF r, o

LEMMA CommitFacts ==
  ASSUME NEW sh, Good(sh), sh.up, NEW s \in Surfaces, sh.surface[s].alive,
         NEW st \in State, NEW buffer \in BOOLEAN, NEW sets \in BOOLEAN,
         st # sh.surface[s].state => sets
  PROVE  LET c == Committed(sh, s, st, buffer)
             n == HandleCommit(c, s, sets \/ buffer # sh.surface[s].mapped)
         IN  SurfaceStep(sh, c, s) /\ c.surface[s].mapped = buffer /\ Good(n) /\ StillShown(c, n)
<1> DEFINE c == Committed(sh, s, st, buffer)
           changed == sets \/ buffer # sh.surface[s].mapped
           n == HandleCommit(c, s, changed)
           o == sh.surface[s].output
<1>1. sh \in Shells BY GoodParts
<1>2. /\ SurfaceStep(sh, c, s) /\ c.surface[s].state = st /\ c.surface[s].mapped = buffer
  BY <1>1, CommittedFacts
<1> HIDE DEF c
<1>3. c.surface[s].output = o BY <1>2 DEF SurfaceStep
<1> HIDE DEF changed
<1>4. CASE o = Null \/ ~changed
  <2>1. n = c BY <1>3, <1>4 DEF HandleCommit
  <2>2. sh.surface[s].output = Null \/ c.surface[s].state = sh.surface[s].state
    BY <1>2, <1>4 DEF changed
  <2>3. Good(c) BY <1>2, <2>2, CommitKept
  <2>4. StillShown(c, c) BY DEF StillShown
  <2> QED BY <1>2, <2>1, <2>3, <2>4 DEF c, changed
<1>5. CASE o # Null /\ changed
  <2> DEFINE l == st.layer
             r == RelayerLayer(c, o, l, s)
  <2>1. n = ArrangeLayers(r, o) BY <1>2, <1>3, <1>5 DEF HandleCommit
  <2>2. l \in LayerNames BY DEF State
  <2>3. /\ Unsettled(r, o) /\ r.surface = c.surface /\ r.keyboard = c.keyboard
        /\ r.menus = sh.menus /\ r.open = sh.open
    <3> HIDE DEF l
    <3> QED BY <1>2, <1>5, <2>2, RelayeredUnsettled
  <2> HIDE DEF r, n
  <2>4. ArrangedGood(r, n) BY <2>1, <2>3, SettlesIt
  <2>5. c.menus = sh.menus /\ c.open = sh.open BY <1>2 DEF SurfaceStep
  <2>6. StillShown(c, n)
    BY <2>3, <2>4, <2>5 DEF StillShown, ArrangedGood, SameSurfaces, SameShell
  <2>7. Good(n) BY <2>4 DEF ArrangedGood
  <2> QED BY <1>2, <2>6, <2>7 DEF n, c, changed
<1> QED BY <1>4, <1>5

\* Windows, menus, the focus and the keyboard are apart from how panels lie.
OnlyWindows(sh, m) ==
  /\ m \in Shells /\ m.attached = sh.attached /\ m.full = sh.full
  /\ m.placeable = sh.placeable /\ m.laid = sh.laid /\ m.lists = sh.lists
  /\ m.surface = sh.surface /\ m.up = sh.up

LEMMA WindowsAside ==
  ASSUME NEW sh, Good(sh), NEW m, OnlyWindows(sh, m), FocusOpen(m)
  PROVE  Good(m)
<1>1. sh \in Shells /\ Sized(sh) /\ Wired(sh) BY GoodParts
<1>2. /\ m \in Shells /\ m.attached = sh.attached /\ m.full = sh.full
      /\ m.placeable = sh.placeable /\ m.laid = sh.laid /\ m.lists = sh.lists
      /\ m.surface = sh.surface /\ m.up = sh.up
  BY DEF OnlyWindows
<1>3. Sized(m) BY <1>1, <1>2 DEF Sized
<1>4. Wired(m)
  <2>1. SameSurfaces(sh, m) BY <1>2 DEF SameSurfaces
  <2> QED BY <1>1, <1>2, <2>1, WiredAlike
<1>5. m.up => SettledBut(m, {})
  <2> SUFFICES ASSUME m.up PROVE SettledBut(m, {}) OBVIOUS
  <2>1. SettledBut(sh, {}) BY <1>2 DEF Good
  <2>2. AlikeBut(sh, m, {}) BY <1>2 DEF AlikeBut, SameListed
  <2> QED BY <1>1, <1>2, <2>1, <2>2, StillSettled
<1> QED BY <1>2, <1>3, <1>4, <1>5 DEF Good, Sound

LEMMA KeyboardAside ==
  ASSUME NEW sh, Good(sh), NEW m, OnlyKeyboard(sh, m)
  PROVE  Good(m)
<1>1. OnlyWindows(sh, m) BY DEF OnlyKeyboard, OnlyWindows
<1>2. FocusOpen(m) BY GoodParts DEF FocusOpen, OnlyKeyboard
<1> QED BY <1>1, <1>2, WindowsAside

LEMMA ForgottenFacts ==
  ASSUME NEW sh \in Shells, NEW p
  PROVE  /\ OnlyKeyboard(sh, Forgotten(sh, p))
         /\ Forgotten(sh, p).keyboard = IF sh.keyboard = p THEN Null ELSE sh.keyboard
<1>1. CASE sh.keyboard = p
  <2>1. Forgotten(sh, p) = [sh EXCEPT !.keyboard = Null] BY <1>1 DEF Forgotten
  <2> QED BY <1>1, <2>1 DEF OnlyKeyboard, Shells
<1>2. CASE sh.keyboard # p
  <2>1. Forgotten(sh, p) = sh BY <1>2 DEF Forgotten
  <2> QED BY <1>2, <2>1 DEF OnlyKeyboard
<1> QED BY <1>1, <1>2

\* KeyboardReturns, for a step from sh to m.
Returned(sh, m) ==
  \A p \in Surfaces \union Menus :
    sh.keyboard = p /\ Shown(sh, p) /\ ~Shown(m, p) /\ Returnable(sh) =>
      m.keyboard # Null /\ Shown(m, m.keyboard)

\* A panel gives the keyboard up before anything else takes it.
LEMMA PanelReturns ==
  ASSUME NEW sh, Good(sh), NEW s \in Surfaces, NEW c, SurfaceStep(sh, c, s),
         NEW d, d.open = sh.open, d.menus = sh.menus, d.keyboard = c.keyboard,
         \A t \in Surfaces : t # s => d.surface[t].mapped = sh.surface[t].mapped,
         c.surface[s].mapped => d.surface[s].mapped,
         NEW n, StillShown(d, n),
         NEW m, m.open = n.open, m.menus = n.menus,
         \A t \in Surfaces : m.surface[t].mapped = n.surface[t].mapped,
         m.keyboard = n.keyboard \/ (n.keyboard = s /\ ~d.surface[s].mapped)
  PROVE  Returned(sh, m)
<1> SUFFICES ASSUME NEW p \in Surfaces \union Menus,
                    sh.keyboard = p, Shown(sh, p), ~Shown(m, p), Returnable(sh)
             PROVE  m.keyboard # Null /\ Shown(m, m.keyboard)
  BY DEF Returned
<1>1. /\ m.open = sh.open /\ m.menus = sh.menus
      /\ \A t \in Surfaces : m.surface[t].mapped = d.surface[t].mapped
      /\ n.keyboard = d.keyboard \/ (n.keyboard \in Surfaces /\ d.surface[n.keyboard].mapped)
  BY DEF StillShown
<1>2. p = s /\ sh.surface[s].mapped /\ ~d.surface[s].mapped
  <2>1. p \in Surfaces BY <1>1 DEF Shown
  <2> QED BY <1>1, <2>1 DEF Shown
<1>3. c.keyboard = sh.focus BY <1>2 DEF SurfaceStep
<1>4. sh.focus \in Views /\ sh.focus \in sh.open /\ sh.focus # Null
  <2>1. sh.focus # Null BY DEF Returnable
  <2>2. sh \in Shells /\ FocusOpen(sh) BY GoodParts
  <2>3. sh.open \subseteq Views BY <2>2, ShellParts
  <2> QED BY <2>1, <2>2, <2>3 DEF FocusOpen
<1>5. sh.focus \notin Surfaces BY <1>4, LayersAssumption
<1>6. CASE n.keyboard = sh.focus
  <2>1. m.keyboard = sh.focus BY <1>5, <1>6
  <2> QED BY <1>1, <1>4, <1>5, <2>1 DEF Shown
<1>7. CASE n.keyboard \in Surfaces /\ d.surface[n.keyboard].mapped
  <2>1. n.keyboard # s BY <1>2, <1>7
  <2>2. m.keyboard = n.keyboard BY <2>1
  <2>3. m.surface[m.keyboard].mapped BY <1>1, <1>7, <2>2
  <2> QED BY <1>7, <2>2, <2>3, LayersAssumption DEF Shown
<1> QED BY <1>1, <1>3, <1>6, <1>7

\* Without the surface, before the room is shared out again.
Without(u, o, s) == [RemoveLayer(u, o, u.surface[s].state.layer, s) EXCEPT !.surface[s] = NoSurface]
Unheard(u, s)    == [u EXCEPT !.surface[s] = NoSurface]

LEMMA NoSurfaceType == NoSurface \in SurfaceRecords
BY DEF NoSurface, SurfaceRecords

\* A surface that is gone no longer has to be wired.
LEMMA WiredWithout ==
  ASSUME NEW sh \in Shells, Wired(sh), NEW s \in Surfaces, NEW m, m.attached = sh.attached,
         \A p \in Outputs : SurfacesOf(sh, p) \subseteq SurfacesOf(m, p) \union {s},
         \A t \in Surfaces : t # s => m.surface[t] = sh.surface[t],
         m.surface[s] = NoSurface
  PROVE  Wired(m)
<1> SUFFICES ASSUME NEW t \in Surfaces
             PROVE  /\ m.surface[t].alive => m.surface[t].state \in State
                    /\ m.surface[t].mapped => m.surface[t].alive
                    /\ m.surface[t].alive /\ m.surface[t].output # Null =>
                         /\ m.surface[t].output \in m.attached
                         /\ t \in SurfacesOf(m, m.surface[t].output)
  BY DEF Wired
<1>1. CASE t = s BY <1>1 DEF NoSurface
<1>2. CASE t # s
  <2>1. m.surface[t] = sh.surface[t] BY <1>2
  <2>2. /\ sh.surface[t].alive => sh.surface[t].state \in State
        /\ sh.surface[t].mapped => sh.surface[t].alive
        /\ sh.surface[t].alive /\ sh.surface[t].output # Null =>
             /\ sh.surface[t].output \in sh.attached
             /\ t \in SurfacesOf(sh, sh.surface[t].output)
    BY DEF Wired
  <2>3. \A p \in sh.attached : p \in Outputs BY ShellParts
  <2> QED BY <1>2, <2>1, <2>2, <2>3
<1> QED BY <1>1, <1>2

LEMMA WithoutUnsettled ==
  ASSUME NEW sh, Good(sh), sh.up, NEW s \in Surfaces, sh.surface[s].alive,
         sh.surface[s].output # Null,
         NEW u, SurfaceStep(sh, u, s), u.surface[s].state = sh.surface[s].state
  PROVE  LET d == Without(u, sh.surface[s].output, s)
         IN  /\ Unsettled(d, sh.surface[s].output)
             /\ d.surface[s] = NoSurface
             /\ \A t \in Surfaces : t # s => d.surface[t] = sh.surface[t]
             /\ d.keyboard = u.keyboard /\ d.menus = sh.menus /\ d.open = sh.open
<1> DEFINE o == sh.surface[s].output
           l == u.surface[s].state.layer
           k == RemoveLayer(u, o, l, s)
           d == Without(u, o, s)
<1>1. sh \in Shells /\ Sized(sh) /\ Wired(sh) /\ FocusOpen(sh) BY GoodParts
<1>2. o \in sh.attached /\ sh.surface[s].state \in State BY <1>1 DEF Wired
<1>3. l \in LayerNames BY <1>2 DEF State
<1> HIDE DEF o, l
<1>4. o \in Outputs /\ \A p \in sh.attached : p \in Outputs BY <1>1, <1>2, ShellParts
<1>5. /\ u \in Shells /\ u.attached = sh.attached /\ u.full = sh.full
      /\ u.placeable = sh.placeable /\ u.laid = sh.laid /\ u.lists = sh.lists
      /\ u.open = sh.open /\ u.menus = sh.menus /\ u.focus = sh.focus /\ u.up = sh.up
      /\ \A t \in Surfaces : t # s => u.surface[t] = sh.surface[t]
  BY DEF SurfaceStep
<1>6. \A p : SurfacesOf(u, p) = SurfacesOf(sh, p) BY <1>5 DEF SurfacesOf, Listed
<1>7. /\ OnlyLists(u, k, o)
      /\ SurfacesOf(k, o) \subseteq SurfacesOf(u, o)
      /\ SurfacesOf(u, o) \subseteq SurfacesOf(k, o) \union {s}
  BY <1>3, <1>4, <1>5, RemovedFacts
<1>8. SetsSurface(k, d, s, NoSurface) BY DEF Without, SetsSurface, l
<1> HIDE DEF k, d
<1>9. k \in Shells BY <1>7 DEF OnlyLists
<1>10. OnlySurface(k, d, s) /\ d.surface[s] = NoSurface
  BY <1>8, <1>9, NoSurfaceType, SurfaceReplaced
<1>11. /\ d \in Shells /\ d.attached = sh.attached /\ d.full = sh.full
       /\ d.placeable = sh.placeable /\ d.laid = sh.laid
       /\ d.open = sh.open /\ d.menus = sh.menus /\ d.focus = sh.focus /\ d.up = sh.up
       /\ d.keyboard = u.keyboard
       /\ \A t \in Surfaces : t # s => d.surface[t] = sh.surface[t]
       /\ \A p \in Outputs : p # o => d.lists[p] = sh.lists[p]
       /\ d.lists = k.lists
  BY <1>5, <1>7, <1>10 DEF OnlyLists, OnlySurface
<1>12. /\ SurfacesOf(d, o) \subseteq SurfacesOf(sh, o)
       /\ SurfacesOf(sh, o) \subseteq SurfacesOf(d, o) \union {s}
  BY <1>6, <1>7, <1>11 DEF SurfacesOf, Listed
<1>13. \A p \in Outputs : p # o => SurfacesOf(d, p) = SurfacesOf(sh, p)
  BY <1>11 DEF SurfacesOf, Listed
<1>14. Sized(d) /\ FocusOpen(d) BY <1>1, <1>11 DEF Sized, FocusOpen
<1>15. Wired(d)
  <2>1. \A p \in Outputs : SurfacesOf(sh, p) \subseteq SurfacesOf(d, p) \union {s}
    BY <1>12, <1>13
  <2> QED BY <1>1, <1>10, <1>11, <2>1, WiredWithout
<1>16. Belongs(d, o)
  <2>1. Registered(sh, o) BY <1>4, GoodParts
  <2>2. SurfacesOf(sh, o) \subseteq Surfaces BY <1>1, <1>4, ListedFacts
  <2>3. ASSUME NEW t \in SurfacesOf(d, o), d.surface[t].alive PROVE d.surface[t].output = o
    <3>1. t \in SurfacesOf(sh, o) /\ t # s BY <1>10, <1>12, <2>3 DEF NoSurface
    <3> QED BY <1>11, <2>1, <2>2, <3>1 DEF Registered
  <2> QED BY <2>3 DEF Belongs
<1>17. SettledBut(d, {o})
  <2>1. SettledBut(sh, {o}) BY <1>1, NothingElse DEF Good
  <2>2. ASSUME NEW p \in Outputs, p # o, NEW t \in SurfacesOf(sh, p)
        PROVE  t \in Surfaces /\ t # s
    <3>1. Registered(sh, p) BY GoodParts
    <3>2. t \in Surfaces BY <1>1, ListedFacts
    <3> QED BY <2>2, <3>1, <3>2 DEF Registered, o
  <2>3. AlikeBut(sh, d, {o}) BY <1>4, <1>11, <2>2 DEF AlikeBut, SameListed
  <2> QED BY <1>1, <1>11, <2>1, <2>3, StillSettled
<1>18. Unsettled(d, o)
  BY <1>2, <1>11, <1>14, <1>15, <1>16, <1>17 DEF Unsettled, Sound
<1> QED BY <1>10, <1>11, <1>18 DEF d, o

LEMMA UnheardGood ==
  ASSUME NEW sh, Good(sh), sh.up, NEW s \in Surfaces, sh.surface[s].alive,
         sh.surface[s].output = Null,
         NEW u, SurfaceStep(sh, u, s)
  PROVE  LET d == Unheard(u, s)
         IN  /\ Good(d) /\ d.surface[s] = NoSurface
             /\ \A t \in Surfaces : t # s => d.surface[t] = sh.surface[t]
             /\ d.keyboard = u.keyboard /\ d.menus = sh.menus /\ d.open = sh.open
<1> DEFINE d == Unheard(u, s)
<1>1. sh \in Shells /\ Sized(sh) /\ Wired(sh) /\ FocusOpen(sh) BY GoodParts
<1>2. /\ u \in Shells /\ u.attached = sh.attached /\ u.full = sh.full
      /\ u.placeable = sh.placeable /\ u.laid = sh.laid /\ u.lists = sh.lists
      /\ u.open = sh.open /\ u.menus = sh.menus /\ u.focus = sh.focus /\ u.up = sh.up
      /\ \A t \in Surfaces : t # s => u.surface[t] = sh.surface[t]
  BY DEF SurfaceStep
<1>3. SetsSurface(u, d, s, NoSurface) BY DEF Unheard, SetsSurface
<1> HIDE DEF d
<1>4. OnlySurface(u, d, s) /\ d.surface[s] = NoSurface
  BY <1>2, <1>3, NoSurfaceType, SurfaceReplaced
<1>5. /\ d \in Shells /\ d.attached = sh.attached /\ d.full = sh.full
      /\ d.placeable = sh.placeable /\ d.laid = sh.laid /\ d.lists = sh.lists
      /\ d.open = sh.open /\ d.menus = sh.menus /\ d.focus = sh.focus /\ d.up = sh.up
      /\ d.keyboard = u.keyboard
      /\ \A t \in Surfaces : t # s => d.surface[t] = sh.surface[t]
  BY <1>2, <1>4 DEF OnlySurface
<1>6. Sized(d) /\ FocusOpen(d) BY <1>1, <1>5 DEF Sized, FocusOpen
<1>7. Wired(d)
  <2>1. \A p \in Outputs : SurfacesOf(sh, p) \subseteq SurfacesOf(d, p) \union {s}
    BY <1>5 DEF SurfacesOf, Listed
  <2> QED BY <1>1, <1>4, <1>5, <2>1, WiredWithout
<1>8. AlikeBut(sh, d, {})
  <2>1. ASSUME NEW p \in Outputs, NEW t \in SurfacesOf(sh, p) PROVE t \in Surfaces /\ t # s
    <3>1. Registered(sh, p) BY GoodParts
    <3>2. t \in Surfaces BY <1>1, ListedFacts
    <3> QED BY <2>1, <3>1, <3>2, LayersAssumption DEF Registered
  <2> QED BY <1>5, <2>1 DEF AlikeBut, SameListed
<1>9. SettledBut(d, {})
  <2>1. SettledBut(sh, {}) BY DEF Good
  <2> QED BY <1>1, <1>5, <1>8, <2>1, StillSettled
<1> QED BY <1>4, <1>5, <1>6, <1>7, <1>9 DEF d, Good, Sound

LEMMA DestroyFacts ==
  ASSUME NEW sh, Good(sh), sh.up, NEW s \in Surfaces, sh.surface[s].alive,
         NEW u, u = IF sh.surface[s].mapped THEN UnmapLayer(sh, s) ELSE sh,
         NEW m, m = Forgotten(HandleDestroy(u, s), s)
  PROVE  Good(m) /\ Returned(sh, m)
<1> DEFINE o == sh.surface[s].output
           n == HandleDestroy(u, s)
<1>1. sh \in Shells BY GoodParts
<1>2. /\ SurfaceStep(sh, u, s) /\ u.surface[s].state = sh.surface[s].state
      /\ ~u.surface[s].mapped
  <2>1. CASE sh.surface[s].mapped
    <3>1. u = UnmapLayer(sh, s) BY <2>1
    <3> QED BY <1>1, <3>1, UnmapFacts
  <2>2. CASE ~sh.surface[s].mapped
    <3>1. u = sh BY <2>2
    <3> QED BY <1>1, <2>2, <3>1 DEF SurfaceStep
  <2> QED BY <2>1, <2>2
<1>3. u.surface[s].output = o BY <1>2 DEF SurfaceStep
<1>4. \E d : /\ \A t \in Surfaces : t # s => d.surface[t] = sh.surface[t]
             /\ d.surface[s] = NoSurface
             /\ d.keyboard = u.keyboard /\ d.menus = sh.menus /\ d.open = sh.open
             /\ Good(n) /\ StillShown(d, n)
  <2>1. CASE o = Null
    <3> DEFINE d == Unheard(u, s)
    <3>1. n = d BY <1>3, <2>1 DEF HandleDestroy, Unheard
    <3> HIDE DEF n
    <3>2. /\ Good(d) /\ d.surface[s] = NoSurface
          /\ \A t \in Surfaces : t # s => d.surface[t] = sh.surface[t]
          /\ d.keyboard = u.keyboard /\ d.menus = sh.menus /\ d.open = sh.open
      BY <1>2, <2>1, UnheardGood
    <3> HIDE DEF d
    <3>3. StillShown(d, n) BY <3>1 DEF StillShown
    <3> QED BY <3>1, <3>2, <3>3
  <2>2. CASE o # Null
    <3> DEFINE d == Without(u, o, s)
    <3>1. n = ArrangeLayers(d, o) BY <1>3, <2>2 DEF HandleDestroy, Removed, Without
    <3> HIDE DEF n
    <3>2. /\ Unsettled(d, o)
          /\ d.surface[s] = NoSurface
          /\ \A t \in Surfaces : t # s => d.surface[t] = sh.surface[t]
          /\ d.keyboard = u.keyboard /\ d.menus = sh.menus /\ d.open = sh.open
      BY <1>2, <2>2, WithoutUnsettled
    <3> HIDE DEF d
    <3>3. ArrangedGood(d, n) BY <3>1, <3>2, SettlesIt
    <3>4. Good(n) /\ StillShown(d, n)
      BY <3>3 DEF ArrangedGood, StillShown, SameShell, SameSurfaces
    <3> QED BY <3>2, <3>4
  <2> QED BY <2>1, <2>2
<1> HIDE DEF n
<1>5. n \in Shells /\ Good(n) BY <1>4, GoodParts
<1>6. OnlyKeyboard(n, m) /\ m.keyboard = IF n.keyboard = s THEN Null ELSE n.keyboard
  BY <1>5, ForgottenFacts DEF n
<1>7. Good(m) BY <1>5, <1>6, KeyboardAside
<1>8. Returned(sh, m)
  <2>1. PICK d : /\ \A t \in Surfaces : t # s => d.surface[t] = sh.surface[t]
                 /\ d.surface[s] = NoSurface
                 /\ d.keyboard = u.keyboard /\ d.menus = sh.menus /\ d.open = sh.open
                 /\ StillShown(d, n)
    BY <1>4
  <2>2. ~d.surface[s].mapped BY <2>1 DEF NoSurface
  <2>3. /\ m.open = n.open /\ m.menus = n.menus
        /\ \A t \in Surfaces : m.surface[t].mapped = n.surface[t].mapped
    BY <1>6 DEF OnlyKeyboard
  <2>4. m.keyboard = n.keyboard \/ (n.keyboard = s /\ ~d.surface[s].mapped) BY <1>6, <2>2
  <2>5. \A t \in Surfaces : t # s => d.surface[t].mapped = sh.surface[t].mapped BY <2>1
  <2> QED BY <1>2, <2>1, <2>3, <2>4, <2>5, PanelReturns
<1> QED BY <1>7, <1>8

----------------------------------------------------------------------------
(* Outputs come and go.                                                    *)

\* No panel and no menu has gone.
NoneGone(sh, m) ==
  /\ \A t \in Surfaces : sh.surface[t].mapped => m.surface[t].mapped
  /\ sh.menus \subseteq m.menus

LEMMA NoneGoneReturns ==
  ASSUME NEW sh \in Shells, NEW m, NoneGone(sh, m)
  PROVE  Returned(sh, m)
<1> SUFFICES ASSUME NEW p \in Surfaces \union Menus, Shown(sh, p) PROVE Shown(m, p)
  BY DEF Returned
<1>1. CASE p \in Surfaces BY <1>1 DEF Shown, NoneGone
<1>2. CASE p \notin Surfaces
  <2>1. p \in Menus /\ p \in sh.open \union sh.menus BY <1>2 DEF Shown
  <2>2. p \in sh.menus BY <2>1, ShellParts, LayersAssumption
  <2> QED BY <1>2, <2>2 DEF Shown, NoneGone
<1> QED BY <1>1, <1>2

LEMMA MovedParts ==
  ASSUME NEW sh, NEW m, Moved(sh, m)
  PROVE  Good(m) /\ m.attached = sh.attached /\ NoneGone(sh, m)
BY DEF Moved, NoneGone, SameSurfaces

LEMMA LayoutBoxes ==
  ASSUME NEW outputs \in SUBSET Outputs, NEW full \in Layouts(outputs), NEW o \in outputs
  PROVE  full[o] \in Box
BY LayersAssumption DEF Layouts, Box

\* An output that is not there lists nothing.
LEMMA NothingListed ==
  ASSUME NEW sh, Good(sh), sh.up, NEW o \in Outputs \ sh.attached
  PROVE  SurfacesOf(sh, o) = {}
<1>1. sh \in Shells /\ Wired(sh) /\ Registered(sh, o) BY GoodParts
<1>2. SurfacesOf(sh, o) \subseteq Surfaces BY <1>1, ListedFacts
<1> QED BY <1>1, <1>2, LayersAssumption DEF Registered, Wired

LEMMA ArrivedGood ==
  ASSUME NEW sh, Good(sh), NEW o \in Outputs \ sh.attached, NEW region \in Box
  PROVE  Good(Arrived(sh, o, region)) /\ NoneGone(sh, Arrived(sh, o, region))
<1> DEFINE m == Arrived(sh, o, region)
           full == [sh.full EXCEPT ![o] = region]
           placeable == [sh.placeable EXCEPT ![o] = region]
           laid == [sh.laid EXCEPT ![o] = Null]
<1>1. sh \in Shells /\ Sized(sh) /\ Wired(sh) /\ FocusOpen(sh) BY GoodParts
<1>2. /\ sh.full \in [Outputs -> Box \union {Null}] /\ sh.laid \in [Outputs -> Box \union {Null}]
      /\ sh.placeable \in [Outputs -> Box \union {Null}] /\ sh.attached \subseteq Outputs
  BY <1>1, ShellParts
<1>3. m = [sh EXCEPT !.attached = @ \union {o}, !.full = full, !.placeable = placeable,
                     !.laid = laid]
  BY <1>1, <1>2 DEF Shells, Arrived
<1>4. /\ full \in [Outputs -> Box \union {Null}] /\ laid \in [Outputs -> Box \union {Null}]
      /\ placeable \in [Outputs -> Box \union {Null}]
      /\ full[o] = region /\ placeable[o] = region /\ laid[o] = Null
      /\ \A p \in Outputs : p # o => /\ full[p] = sh.full[p] /\ laid[p] = sh.laid[p]
                                     /\ placeable[p] = sh.placeable[p]
  BY <1>2
<1> HIDE DEF m, full, placeable, laid
<1>5. /\ m \in Shells /\ m.attached = sh.attached \union {o} /\ m.full = full
      /\ m.placeable = placeable /\ m.laid = laid /\ m.lists = sh.lists
      /\ m.surface = sh.surface /\ m.open = sh.open /\ m.menus = sh.menus
      /\ m.focus = sh.focus /\ m.keyboard = sh.keyboard /\ m.up = sh.up
  BY <1>1, <1>2, <1>3, <1>4 DEF Shells
<1>6. \A p : SurfacesOf(m, p) = SurfacesOf(sh, p) BY <1>5 DEF SurfacesOf, Listed
<1>7. Sized(m)
  <2>1. IsFiniteSet(m.attached) BY <1>1, <1>5, FS_AddElement DEF Sized
  <2>2. ASSUME NEW p \in m.attached
        PROVE  /\ m.full[p] \in Box /\ m.placeable[p] \in Box
               /\ m.laid[p] \in {m.placeable[p], Null}
    <3>1. CASE p = o BY <1>4, <1>5, <3>1
    <3>2. CASE p # o
      <4>1. p \in sh.attached /\ p \in Outputs BY <1>2, <1>5, <3>2
      <4> QED BY <1>1, <1>4, <1>5, <3>2, <4>1 DEF Sized
    <3> QED BY <3>1, <3>2
  <2> QED BY <2>1, <2>2 DEF Sized
<1>8. FocusOpen(m) BY <1>1, <1>5 DEF FocusOpen
<1>9. Wired(m) BY <1>1, <1>5, <1>6 DEF Wired
<1>10. ASSUME m.up PROVE SettledBut(m, {})
  <2>1. sh.up BY <1>5, <1>10
  <2>2. \A p \in Outputs : Registered(m, p)
    <3>1. \A p \in Outputs : Registered(sh, p) BY <2>1, GoodParts
    <3> QED BY <1>5, <1>6, <3>1 DEF Registered
  <2>3. ASSUME NEW p \in m.attached PROVE Fits(m, p)
    <3>1. CASE p = o
      <4>1. SurfacesOf(m, o) = {} BY <1>6, <2>1, NothingListed
      <4>2. RoomLeft(m, o) = LeftOf(m, region, {}) BY <1>4, <1>5, <4>1 DEF RoomLeft
      <4>3. LeftOf(m, region, {}) = region BY LeftOfOne, FS_EmptySet
      <4> QED BY <1>4, <1>5, <3>1, <4>2, <4>3 DEF Fits
    <3>2. CASE p # o
      <4>1. p \in sh.attached /\ p \in Outputs BY <1>2, <1>5, <3>2
      <4>2. Fits(sh, p) BY <2>1, <4>1, GoodParts
      <4>3. /\ m.lists[p] = sh.lists[p] /\ m.full[p] = sh.full[p]
            /\ m.placeable[p] = sh.placeable[p]
            /\ \A s \in SurfacesOf(sh, p) : m.surface[s].state = sh.surface[s].state
        BY <1>4, <1>5, <3>2, <4>1
      <4> QED BY <1>1, <4>1, <4>2, <4>3, FitsAlike
    <3> QED BY <3>1, <3>2
  <2> QED BY <2>2, <2>3 DEF SettledBut
<1>11. NoneGone(sh, m) BY <1>5 DEF NoneGone
<1> QED BY <1>5, <1>7, <1>8, <1>9, <1>10, <1>11 DEF m, Good, Sound

LEMMA DepartedGood ==
  ASSUME NEW sh, Good(sh), NEW o \in sh.attached
  PROVE  Good(Departed(sh, o)) /\ NoneGone(sh, Departed(sh, o))
<1> DEFINE m == Departed(sh, o)
           full == [sh.full EXCEPT ![o] = Null]
           placeable == [sh.placeable EXCEPT ![o] = Null]
           laid == [sh.laid EXCEPT ![o] = Null]
           lists == [sh.lists EXCEPT ![o] = [l \in LayerNames |-> << >>]]
           away(s) == [sh.surface[s] EXCEPT !.output = Null]
           surface == [s \in Surfaces |->
                         IF \E l \in LayerNames : Contains(sh.lists[o][l], s)
                         THEN away(s) ELSE sh.surface[s]]
<1>1. sh \in Shells /\ Sized(sh) /\ Wired(sh) /\ FocusOpen(sh) BY GoodParts
<1>2. /\ sh.full \in [Outputs -> Box \union {Null}] /\ sh.laid \in [Outputs -> Box \union {Null}]
      /\ sh.placeable \in [Outputs -> Box \union {Null}] /\ sh.attached \subseteq Outputs
      /\ sh.lists \in [Outputs -> [LayerNames -> Seq(Surfaces)]]
      /\ sh.surface \in [Surfaces -> SurfaceRecords] /\ o \in Outputs
  BY <1>1, ShellParts
<1>3. m = [sh EXCEPT !.attached = @ \ {o}, !.full = full, !.placeable = placeable,
                     !.laid = laid, !.surface = surface, !.lists = lists]
  BY <1>1, <1>2 DEF Shells, Departed
<1>4. /\ full \in [Outputs -> Box \union {Null}] /\ laid \in [Outputs -> Box \union {Null}]
      /\ placeable \in [Outputs -> Box \union {Null}]
      /\ \A p \in Outputs : p # o => /\ full[p] = sh.full[p] /\ laid[p] = sh.laid[p]
                                     /\ placeable[p] = sh.placeable[p]
  BY <1>2
<1>5. /\ lists \in [Outputs -> [LayerNames -> Seq(Surfaces)]]
      /\ lists[o] = [l \in LayerNames |-> << >>]
      /\ \A p \in Outputs : p # o => lists[p] = sh.lists[p]
  BY <1>2
<1>6. \A s \in Surfaces : (\E l \in LayerNames : Contains(sh.lists[o][l], s)) <=>
                          s \in SurfacesOf(sh, o)
  <2>1. ASSUME NEW l \in LayerNames, NEW s
        PROVE  Contains(sh.lists[o][l], s) <=> s \in Range(sh.lists[o][l])
    <3>1. sh.lists[o][l] \in Seq(Surfaces) BY <1>2
    <3> QED BY <3>1 DEF Contains, Range
  <2> QED BY <1>1, <1>2, <2>1, ListedFacts
<1>7. /\ surface \in [Surfaces -> SurfaceRecords]
      /\ \A s \in Surfaces : s \notin SurfacesOf(sh, o) => surface[s] = sh.surface[s]
      /\ \A s \in Surfaces : s \in SurfacesOf(sh, o) => surface[s] = away(s)
      /\ \A s \in Surfaces : /\ away(s).output = Null
                             /\ away(s).alive = sh.surface[s].alive
                             /\ away(s).mapped = sh.surface[s].mapped
                             /\ away(s).state = sh.surface[s].state
  BY <1>2, <1>6 DEF SurfaceRecords
<1> HIDE DEF m, full, placeable, laid, lists, surface, away
<1>8. /\ m \in Shells /\ m.attached = sh.attached \ {o} /\ m.full = full
      /\ m.placeable = placeable /\ m.laid = laid /\ m.lists = lists
      /\ m.surface = surface /\ m.open = sh.open /\ m.menus = sh.menus
      /\ m.focus = sh.focus /\ m.keyboard = sh.keyboard /\ m.up = sh.up
  BY <1>1, <1>2, <1>3, <1>4, <1>5, <1>7 DEF Shells
<1>9. \A p \in Outputs : p # o => SurfacesOf(m, p) = SurfacesOf(sh, p)
  BY <1>5, <1>8 DEF SurfacesOf, Listed
<1>10. SurfacesOf(m, o) = {}
  <2>1. \A l \in LayerNames : Range(m.lists[o][l]) = {} BY <1>5, <1>8 DEF Range
  <2> QED BY <1>2, <1>8, <2>1, ListedFacts
<1>11. Sized(m)
  <2>1. IsFiniteSet(m.attached) BY <1>1, <1>8, FS_RemoveElement DEF Sized
  <2> QED BY <1>1, <1>2, <1>4, <1>8, <2>1 DEF Sized
<1>12. FocusOpen(m) BY <1>1, <1>8 DEF FocusOpen
<1>13. Wired(m)
  <2> SUFFICES ASSUME NEW t \in Surfaces
               PROVE  /\ m.surface[t].alive => m.surface[t].state \in State
                      /\ m.surface[t].mapped => m.surface[t].alive
                      /\ m.surface[t].alive /\ m.surface[t].output # Null =>
                           /\ m.surface[t].output \in m.attached
                           /\ t \in SurfacesOf(m, m.surface[t].output)
    BY DEF Wired
  <2>1. /\ sh.surface[t].alive => sh.surface[t].state \in State
        /\ sh.surface[t].mapped => sh.surface[t].alive
        /\ sh.surface[t].alive /\ sh.surface[t].output # Null =>
             /\ sh.surface[t].output \in sh.attached
             /\ t \in SurfacesOf(sh, sh.surface[t].output)
    BY <1>1 DEF Wired
  <2>2. CASE t \in SurfacesOf(sh, o) BY <1>7, <1>8, <2>1, <2>2
  <2>3. CASE t \notin SurfacesOf(sh, o)
    <3>1. m.surface[t] = sh.surface[t] BY <1>7, <1>8, <2>3
    <3> QED BY <1>2, <1>8, <1>9, <2>1, <2>3, <3>1
  <2> QED BY <2>2, <2>3
<1>14. ASSUME m.up PROVE SettledBut(m, {})
  <2>1. sh.up /\ \A p \in Outputs : Registered(sh, p) BY <1>8, <1>14, GoodParts
  <2>2. ASSUME NEW p \in Outputs, p # o, NEW s \in SurfacesOf(sh, p)
        PROVE  m.surface[s] = sh.surface[s]
    <3>1. s \in Surfaces BY <1>1, ListedFacts
    <3>2. s \notin SurfacesOf(sh, o) BY <1>2, <2>1, <2>2 DEF Registered
    <3> QED BY <1>7, <1>8, <3>1, <3>2
  <2>3. ASSUME NEW p \in Outputs PROVE Registered(m, p)
    <3>1. CASE p = o BY <1>10, <3>1 DEF Registered
    <3>2. CASE p # o BY <1>9, <2>1, <2>2, <3>2 DEF Registered
    <3> QED BY <3>1, <3>2
  <2>4. ASSUME NEW p \in m.attached PROVE Fits(m, p)
    <3>1. p \in sh.attached /\ p \in Outputs /\ p # o BY <1>2, <1>8
    <3>2. Fits(sh, p) BY <2>1, <3>1, GoodParts
    <3>3. /\ m.lists[p] = sh.lists[p] /\ m.full[p] = sh.full[p]
          /\ m.placeable[p] = sh.placeable[p]
          /\ \A s \in SurfacesOf(sh, p) : m.surface[s].state = sh.surface[s].state
      BY <1>4, <1>5, <1>8, <2>2, <3>1
    <3> QED BY <1>1, <3>1, <3>2, <3>3, FitsAlike
  <2> QED BY <2>3, <2>4 DEF SettledBut
<1>15. NoneGone(sh, m)
  <2>1. \A t \in Surfaces : m.surface[t].mapped = sh.surface[t].mapped BY <1>7, <1>8
  <2> QED BY <1>8, <2>1 DEF NoneGone
<1> QED BY <1>8, <1>11, <1>12, <1>13, <1>14, <1>15 DEF m, Good, Sound

----------------------------------------------------------------------------
(* Windows and menus.                                                      *)

LEMMA FocusFacts ==
  ASSUME NEW sh \in Shells, NEW v \in sh.open,
         FocusOpen(sh) \/ (v # sh.focus /\ Home[v] \in sh.attached)
  PROVE  /\ OnlyWindows(sh, FocusView(sh, v)) /\ FocusOpen(FocusView(sh, v))
         /\ FocusView(sh, v).menus = sh.menus
<1>1. v \in Views BY ShellParts
<1>2. CASE v = sh.focus \/ Home[v] \notin sh.attached
  <2>1. FocusView(sh, v) = sh BY <1>2 DEF FocusView
  <2> QED BY <1>2, <2>1 DEF OnlyWindows
<1>3. CASE ~(v = sh.focus \/ Home[v] \notin sh.attached)
  <2> DEFINE m == [sh EXCEPT !.focus = v, !.keyboard = v]
  <2>1. FocusView(sh, v) = m BY <1>3 DEF FocusView
  <2>2. OnlyWindows(sh, m) /\ m.focus = v /\ m.open = sh.open /\ m.menus = sh.menus
    BY <1>1 DEF OnlyWindows, Shells
  <2> HIDE DEF m
  <2> QED BY <2>1, <2>2 DEF FocusOpen
<1> QED BY <1>2, <1>3

LEMMA OnlyWindowsOn ==
  ASSUME NEW sh, NEW m, NEW n, OnlyWindows(sh, m), OnlyWindows(m, n)
  PROVE  OnlyWindows(sh, n)
BY DEF OnlyWindows

LEMMA WindowStep ==
  ASSUME NEW sh, Good(sh), NEW m, OnlyWindows(sh, m), FocusOpen(m), sh.menus \subseteq m.menus
  PROVE  Good(m) /\ Returned(sh, m)
<1>1. NoneGone(sh, m) BY DEF NoneGone, OnlyWindows
<1> QED BY <1>1, GoodParts, NoneGoneReturns, WindowsAside

LEMMA OpenFacts ==
  ASSUME NEW sh, Good(sh), NEW v \in Views, NEW k, k = [sh EXCEPT !.open = @ \union {v}]
  PROVE  /\ Good(k) /\ Returned(sh, k)
         /\ Good(FocusView(k, v)) /\ Returned(sh, FocusView(k, v))
<1>1. sh \in Shells /\ FocusOpen(sh) /\ sh.open \subseteq Views BY GoodParts, ShellParts
<1>2. /\ OnlyWindows(sh, k) /\ k.menus = sh.menus /\ FocusOpen(k)
      /\ v \in k.open
  BY <1>1 DEF OnlyWindows, Shells, FocusOpen
<1>3. k \in Shells BY <1>2 DEF OnlyWindows
<1>4. /\ OnlyWindows(k, FocusView(k, v)) /\ FocusOpen(FocusView(k, v))
      /\ FocusView(k, v).menus = k.menus
  BY <1>2, <1>3, FocusFacts
<1>5. OnlyWindows(sh, FocusView(k, v)) BY <1>2, <1>4, OnlyWindowsOn
<1>6. Good(k) /\ Returned(sh, k) BY <1>2, WindowStep
<1>7. Good(FocusView(k, v)) /\ Returned(sh, FocusView(k, v)) BY <1>2, <1>4, <1>5, WindowStep
<1> QED BY <1>6, <1>7

LEMMA RelinquishFacts ==
  ASSUME NEW sh \in Shells
  PROVE  OnlyKeyboard(sh, RelinquishFocus(sh))
<1>1. \/ RelinquishFocus(sh) = sh
      \/ RelinquishFocus(sh) = [sh EXCEPT !.keyboard = Null]
  BY DEF RelinquishFocus
<1> QED BY <1>1 DEF OnlyKeyboard, Shells

LEMMA CloseFacts ==
  ASSUME NEW sh, Good(sh), NEW v \in sh.open, Home[v] \in sh.attached,
         NEW k, k = [sh EXCEPT !.open = @ \ {v}]
  PROVE  /\ v # sh.focus => Good(Forgotten(k, v)) /\ Returned(sh, Forgotten(k, v))
         /\ v = sh.focus =>
              \A next \in {w \in sh.open \ {v} : Home[w] = Home[v]} \union {Null} :
                Good(Forgotten(SyncFocus(k, next), v))
                /\ Returned(sh, Forgotten(SyncFocus(k, next), v))
<1>1. sh \in Shells /\ FocusOpen(sh) /\ sh.open \subseteq Views BY GoodParts, ShellParts
<1>2. /\ OnlyWindows(sh, k) /\ k.menus = sh.menus /\ k.focus = sh.focus
      /\ k.open = sh.open \ {v} /\ k.attached = sh.attached
  BY <1>1 DEF OnlyWindows, Shells
<1>3. k \in Shells BY <1>2 DEF OnlyWindows
<1>4. ASSUME NEW n, OnlyWindows(k, n), n.menus = k.menus, FocusOpen(n)
      PROVE  Good(Forgotten(n, v)) /\ Returned(sh, Forgotten(n, v))
  <2> DEFINE f == Forgotten(n, v)
  <2>1. OnlyKeyboard(n, f) BY <1>4, ForgottenFacts DEF OnlyWindows
  <2> HIDE DEF f
  <2>2. /\ OnlyWindows(n, f) /\ f.menus = sh.menus /\ FocusOpen(f)
    BY <1>2, <1>4, <2>1 DEF OnlyKeyboard, OnlyWindows, FocusOpen
  <2>3. OnlyWindows(sh, n) BY <1>2, <1>4, OnlyWindowsOn
  <2>4. OnlyWindows(sh, f) BY <2>2, <2>3, OnlyWindowsOn
  <2>5. Good(f) /\ Returned(sh, f) BY <2>2, <2>4, WindowStep
  <2> QED BY <2>5 DEF f
<1>5. CASE v # sh.focus
  <2>1. FocusOpen(k) BY <1>1, <1>2, <1>5 DEF FocusOpen
  <2>2. OnlyWindows(k, k) BY <1>3 DEF OnlyWindows
  <2> QED BY <1>4, <1>5, <2>1, <2>2
<1>6. CASE v = sh.focus
  <2> SUFFICES ASSUME NEW next \in {w \in sh.open \ {v} : Home[w] = Home[v]} \union {Null}
               PROVE  Good(Forgotten(SyncFocus(k, next), v))
                      /\ Returned(sh, Forgotten(SyncFocus(k, next), v))
    BY <1>6
  <2> DEFINE n == SyncFocus(k, next)
  <2>1. CASE next = Null
    <3> DEFINE r == RelinquishFocus(k)
    <3>1. OnlyKeyboard(k, r) BY <1>3, RelinquishFacts
    <3>2. n = [r EXCEPT !.focus = Null] BY <2>1 DEF SyncFocus
    <3> HIDE DEF r, n
    <3>3. r \in Shells BY <3>1 DEF OnlyKeyboard
    <3>4. OnlyWindows(r, n) /\ n.focus = Null /\ n.menus = r.menus
      BY <3>2, <3>3 DEF OnlyWindows, Shells
    <3>5. OnlyWindows(k, n) /\ n.menus = k.menus
      BY <3>1, <3>4 DEF OnlyWindows, OnlyKeyboard
    <3>6. FocusOpen(n) BY <3>4 DEF FocusOpen
    <3> QED BY <1>4, <3>5, <3>6 DEF n
  <2>2. CASE next # Null
    <3>1. n = FocusView(k, next) BY <2>2 DEF SyncFocus
    <3>2. next \in k.open /\ next # k.focus /\ Home[next] \in k.attached
      BY <1>2, <1>6, <2>2
    <3>3. OnlyWindows(k, n) /\ FocusOpen(n) /\ n.menus = k.menus
      BY <1>3, <3>1, <3>2, FocusFacts
    <3> HIDE DEF n
    <3>4. Good(Forgotten(n, v)) /\ Returned(sh, Forgotten(n, v)) BY <1>4, <3>3
    <3> QED BY <3>4 DEF n
  <2> QED BY <2>1, <2>2
<1> QED BY <1>5, <1>6

LEMMA MapMenuFacts ==
  ASSUME NEW sh, Good(sh), NEW u \in Menus, NEW m,
         \/ m = [sh EXCEPT !.menus = @ \union {u}, !.keyboard = u]
         \/ m = [sh EXCEPT !.keyboard = u]
  PROVE  Good(m) /\ Returned(sh, m)
<1>1. sh \in Shells /\ FocusOpen(sh) /\ sh.menus \subseteq Menus BY GoodParts, ShellParts
<1>2. CASE m = [sh EXCEPT !.menus = @ \union {u}, !.keyboard = u]
  <2>1. OnlyWindows(sh, m) /\ FocusOpen(m) /\ sh.menus \subseteq m.menus
    BY <1>1, <1>2 DEF OnlyWindows, Shells, FocusOpen
  <2> QED BY <2>1, WindowStep
<1>3. CASE m = [sh EXCEPT !.keyboard = u]
  <2>1. OnlyWindows(sh, m) /\ FocusOpen(m) /\ sh.menus \subseteq m.menus
    BY <1>1, <1>3 DEF OnlyWindows, Shells, FocusOpen
  <2> QED BY <2>1, WindowStep
<1> QED BY <1>2, <1>3

LEMMA UnmapMenuFacts ==
  ASSUME NEW sh, Good(sh), NEW u \in sh.menus, NEW wants \in BOOLEAN, NEW m,
         m = IF sh.keyboard # u THEN [sh EXCEPT !.menus = @ \ {u}]
             ELSE IF wants /\ Parent[u] \in sh.open
             THEN [sh EXCEPT !.menus = @ \ {u}, !.keyboard = Parent[u]]
             ELSE Refocus([sh EXCEPT !.menus = @ \ {u}])
  PROVE  Good(m) /\ Returned(sh, m)
<1> DEFINE k == [sh EXCEPT !.menus = @ \ {u}]
<1>1. /\ sh \in Shells /\ FocusOpen(sh) /\ sh.menus \subseteq Menus /\ sh.open \subseteq Views
      /\ sh.focus \in Views \union {Null}
  BY GoodParts, ShellParts
<1>2. /\ OnlyWindows(sh, k) /\ k.menus = sh.menus \ {u} /\ k.open = sh.open
      /\ k.focus = sh.focus /\ k.keyboard = sh.keyboard /\ k.attached = sh.attached
  BY <1>1 DEF OnlyWindows, Shells
<1>3. /\ OnlyWindows(sh, m) /\ m.open = sh.open /\ m.menus = sh.menus \ {u}
      /\ m.focus = sh.focus
      /\ \/ sh.keyboard # u
         \/ m.keyboard \in sh.open
         \/ m.keyboard = (IF Returnable(sh) THEN sh.focus ELSE sh.keyboard)
  <2>1. CASE sh.keyboard # u
    <3>1. m = k BY <2>1
    <3> HIDE DEF k
    <3> QED BY <1>2, <2>1, <3>1
  <2>2. CASE sh.keyboard = u /\ wants /\ Parent[u] \in sh.open
    <3>1. m = [sh EXCEPT !.menus = @ \ {u}, !.keyboard = Parent[u]] BY <2>2
    <3> QED BY <1>1, <2>2, <3>1 DEF OnlyWindows, Shells
  <2>3. CASE sh.keyboard = u /\ ~(wants /\ Parent[u] \in sh.open)
    <3>1. m = Refocus(k) BY <2>3
    <3> HIDE DEF k
    <3>2. k \in Shells BY <1>2 DEF OnlyWindows
    <3>3. /\ OnlyKeyboard(k, m)
          /\ m.keyboard = IF Returnable(k) THEN k.focus ELSE k.keyboard
      BY <3>1, <3>2, RefocusFacts
    <3>4. Returnable(k) <=> Returnable(sh) BY <1>2 DEF Returnable
    <3>5. m.keyboard = (IF Returnable(sh) THEN sh.focus ELSE sh.keyboard)
      BY <1>2, <3>3, <3>4
    <3>6. OnlyWindows(sh, m) BY <1>2, <3>3 DEF OnlyWindows, OnlyKeyboard
    <3> QED BY <1>2, <3>3, <3>5, <3>6 DEF OnlyKeyboard
  <2> QED BY <2>1, <2>2, <2>3
<1>4. Good(m)
  <2>1. FocusOpen(m) BY <1>1, <1>3 DEF FocusOpen
  <2> QED BY <1>3, <2>1, WindowsAside
<1>5. Returned(sh, m)
  <2> SUFFICES ASSUME NEW p \in Surfaces \union Menus, sh.keyboard = p, Shown(sh, p),
                      ~Shown(m, p), Returnable(sh)
               PROVE  m.keyboard # Null /\ Shown(m, m.keyboard)
    BY DEF Returned
  <2>1. m.surface = sh.surface BY <1>3 DEF OnlyWindows
  <2>2. p \notin Surfaces BY <2>1 DEF Shown
  <2>3. p = u BY <1>1, <1>3, <2>2, LayersAssumption DEF Shown
  <2>4. sh.focus \in sh.open BY <1>1 DEF FocusOpen, Returnable
  <2>5. m.keyboard \in sh.open BY <1>3, <2>3, <2>4
  <2>6. m.keyboard \in m.open /\ m.keyboard \in Views BY <1>1, <1>3, <2>5
  <2> QED BY <2>6, LayersAssumption DEF Shown
<1> QED BY <1>4, <1>5

----------------------------------------------------------------------------
(* Every step.                                                             *)

\* What a step from sh to m has to keep.
Kept(sh, m) == Good(m) /\ Returned(sh, m)

LEMMA OfferedStates ==
  ASSUME NEW s \in Surfaces, NEW st \in Offers[s]
  PROVE  st \in State
BY LayersAssumption

LEMMA NoneGoneOn ==
  ASSUME NEW sh, NEW m, NEW n, NoneGone(sh, m), NoneGone(m, n)
  PROVE  NoneGone(sh, n)
BY DEF NoneGone

LEMMA NewSurfaceKept ==
  ASSUME Good(shell), shell.up, NEW s \in Surfaces, NEW o \in Outputs, NEW st \in Offers[s],
         NewSurface(s, o, st)
  PROVE  Kept(shell, shell')
<1> DEFINE c == Created(shell, s, o, st)
<1>1. /\ ~shell.surface[s].alive /\ o \in shell.attached /\ shell' = ArrangeLayers(c, o)
      /\ \A p \in Outputs, l \in LayerNames : ~Contains(shell.lists[p][l], s)
  BY DEF NewSurface
<1>2. shell \in Shells /\ Wired(shell) BY GoodParts
<1>3. ASSUME NEW p \in Outputs PROVE s \notin SurfacesOf(shell, p)
  <2>1. \A l \in LayerNames : s \notin Range(shell.lists[p][l])
    BY <1>1 DEF Contains, Range
  <2> QED BY <1>2, <2>1, ListedFacts
<1>4. /\ Unsettled(c, o) /\ c.menus = shell.menus
      /\ \A t \in Surfaces : t # s => c.surface[t] = shell.surface[t]
  BY <1>1, <1>3, OfferedStates, CreatedUnsettled
<1> HIDE DEF c
<1>5. ArrangedGood(c, shell') BY <1>1, <1>4, SettlesIt
<1>6. ~shell.surface[s].mapped BY <1>1, <1>2 DEF Wired
<1>7. NoneGone(shell, shell')
  BY <1>4, <1>5, <1>6 DEF NoneGone, ArrangedGood, SameShell, SameSurfaces
<1> QED BY <1>2, <1>5, <1>7, NoneGoneReturns DEF Kept, ArrangedGood

LEMMA CommitStepKept ==
  ASSUME Good(shell), shell.up, NEW s \in Surfaces, NEW st \in Offers[s],
         NEW buffer \in BOOLEAN, NEW sets \in BOOLEAN, Commit(s, st, buffer, sets)
  PROVE  Kept(shell, shell')
<1> DEFINE c == Committed(shell, s, st, buffer)
<1>1. /\ shell.surface[s].alive /\ (st # shell.surface[s].state => sets)
      /\ shell' = HandleCommit(c, s, sets \/ buffer # shell.surface[s].mapped)
  BY DEF Commit
<1>2. /\ SurfaceStep(shell, c, s) /\ Good(shell') /\ StillShown(c, shell')
  BY <1>1, OfferedStates, CommitFacts
<1> HIDE DEF c
<1>3. /\ c.open = shell.open /\ c.menus = shell.menus
      /\ \A t \in Surfaces : t # s => c.surface[t].mapped = shell.surface[t].mapped
  BY <1>2 DEF SurfaceStep
<1>4. Returned(shell, shell') BY <1>2, <1>3, PanelReturns
<1> QED BY <1>2, <1>4 DEF Kept

LEMMA DestroyKept ==
  ASSUME Good(shell), shell.up, NEW s \in Surfaces, DestroySurface(s)
  PROVE  Kept(shell, shell')
<1> DEFINE u == IF shell.surface[s].mapped THEN UnmapLayer(shell, s) ELSE shell
<1>1. shell.surface[s].alive /\ shell' = Forgotten(HandleDestroy(u, s), s)
  BY DEF DestroySurface
<1> QED BY <1>1, DestroyFacts DEF Kept

\* Outputs are moved, then perhaps one comes or goes.
LEMMA LayoutKept ==
  ASSUME Good(shell), NEW outputs \in SUBSET shell.attached, NEW full \in Layouts(outputs)
  PROVE  LET m == PropagateOutputLayoutChange(shell, outputs, full)
         IN  Good(m) /\ m.attached = shell.attached /\ NoneGone(shell, m)
<1>1. outputs \in SUBSET Outputs BY GoodParts, ShellParts
<1>2. \A o \in outputs : full[o] \in Box BY <1>1, LayoutBoxes
<1> QED BY <1>2, PropagatedFacts, MovedParts

LEMMA OutputKept ==
  ASSUME Good(shell), NEW o \in Outputs, AttachOutput(o) \/ DetachOutput(o)
  PROVE  Kept(shell, shell')
<1>1. shell \in Shells BY GoodParts
<1>2. SUFFICES Good(shell') /\ NoneGone(shell, shell') BY <1>1, NoneGoneReturns DEF Kept
<1>3. CASE AttachOutput(o)
  <2>1. PICK full \in Layouts(shell.attached), region \in Regions[o] :
          shell' = Arrived(PropagateOutputLayoutChange(shell, shell.attached, full), o, region)
    BY <1>3 DEF AttachOutput
  <2> DEFINE m == PropagateOutputLayoutChange(shell, shell.attached, full)
  <2>2. Good(m) /\ m.attached = shell.attached /\ NoneGone(shell, m) BY LayoutKept
  <2>3. region \in Box BY LayersAssumption DEF Box
  <2>4. shell' = Arrived(m, o, region) BY <2>1
  <2> HIDE DEF m
  <2>5. o \in Outputs \ m.attached BY <1>3, <2>2 DEF AttachOutput
  <2>6. Good(shell') /\ NoneGone(m, shell') BY <2>2, <2>3, <2>4, <2>5, ArrivedGood
  <2> QED BY <2>2, <2>6, NoneGoneOn
<1>4. CASE DetachOutput(o)
  <2>1. PICK outputs \in {shell.attached, shell.attached \ {o}} :
          \E full \in Layouts(outputs) :
            shell' = Departed(PropagateOutputLayoutChange(shell, outputs, full), o)
    BY <1>4 DEF DetachOutput
  <2>2. outputs \in SUBSET shell.attached BY <2>1
  <2>3. PICK full \in Layouts(outputs) :
          shell' = Departed(PropagateOutputLayoutChange(shell, outputs, full), o)
    BY <2>1
  <2> DEFINE m == PropagateOutputLayoutChange(shell, outputs, full)
  <2>4. Good(m) /\ m.attached = shell.attached /\ NoneGone(shell, m) BY <2>2, LayoutKept
  <2>5. shell' = Departed(m, o) BY <2>3
  <2> HIDE DEF m
  <2>6. o \in m.attached BY <1>4, <2>4 DEF DetachOutput
  <2>7. Good(shell') /\ NoneGone(m, shell') BY <2>4, <2>5, <2>6, DepartedGood
  <2> QED BY <2>4, <2>7, NoneGoneOn
<1> QED BY <1>3, <1>4

LEMMA ReconfigureKept ==
  ASSUME Good(shell), Reconfigure
  PROVE  Kept(shell, shell')
<1>1. shell \in Shells BY GoodParts
<1>2. PICK full \in Layouts(shell.attached) :
        shell' = PropagateOutputLayoutChange(shell, shell.attached, full)
  BY DEF Reconfigure
<1>3. Good(shell') /\ NoneGone(shell, shell') BY <1>2, LayoutKept
<1> QED BY <1>1, <1>3, NoneGoneReturns DEF Kept

LEMMA WindowKept ==
  ASSUME Good(shell), NEW v \in Views, OpenWindow(v) \/ CloseWindow(v) \/ ClickWindow(v)
  PROVE  Kept(shell, shell')
<1>1. CASE OpenWindow(v)
  <2> DEFINE k == [shell EXCEPT !.open = @ \union {v}]
  <2>1. shell' = FocusView(k, v) \/ shell' = k BY <1>1 DEF OpenWindow
  <2>2. /\ Good(k) /\ Returned(shell, k)
        /\ Good(FocusView(k, v)) /\ Returned(shell, FocusView(k, v))
    BY OpenFacts
  <2> HIDE DEF k
  <2> QED BY <2>1, <2>2 DEF Kept
<1>2. CASE CloseWindow(v)
  <2> DEFINE k == [shell EXCEPT !.open = @ \ {v}]
  <2>1. /\ v \in shell.open /\ Home[v] \in shell.attached
        /\ \/ v # shell.focus /\ shell' = Forgotten(k, v)
           \/ /\ v = shell.focus
              /\ \E next \in {w \in shell.open \ {v} : Home[w] = Home[v]} \union {Null} :
                   shell' = Forgotten(SyncFocus(k, next), v)
    BY <1>2 DEF CloseWindow
  <2>2. /\ v # shell.focus => Good(Forgotten(k, v)) /\ Returned(shell, Forgotten(k, v))
        /\ v = shell.focus =>
             \A next \in {w \in shell.open \ {v} : Home[w] = Home[v]} \union {Null} :
               Good(Forgotten(SyncFocus(k, next), v))
               /\ Returned(shell, Forgotten(SyncFocus(k, next), v))
    BY <2>1, CloseFacts
  <2> HIDE DEF k
  <2> QED BY <2>1, <2>2 DEF Kept
<1>3. CASE ClickWindow(v)
  <2>1. v \in shell.open /\ shell' = FocusView(shell, v) BY <1>3 DEF ClickWindow
  <2>2. shell \in Shells /\ FocusOpen(shell) BY GoodParts
  <2>3. /\ OnlyWindows(shell, shell') /\ FocusOpen(shell') /\ shell.menus \subseteq shell'.menus
    BY <2>1, <2>2, FocusFacts
  <2> QED BY <2>3, WindowStep DEF Kept
<1> QED BY <1>1, <1>2, <1>3

LEMMA MenuKept ==
  ASSUME Good(shell), NEW u \in Menus, MapMenu(u) \/ ActivateMenu(u) \/ UnmapMenu(u)
  PROVE  Kept(shell, shell')
<1>1. CASE MapMenu(u) \/ ActivateMenu(u)
  <2>1. \/ shell' = [shell EXCEPT !.menus = @ \union {u}, !.keyboard = u]
        \/ shell' = [shell EXCEPT !.keyboard = u]
    BY <1>1 DEF MapMenu, ActivateMenu
  <2> QED BY <2>1, MapMenuFacts DEF Kept
<1>2. CASE UnmapMenu(u)
  <2>1. u \in shell.menus BY <1>2 DEF UnmapMenu
  <2>2. PICK wants \in BOOLEAN :
          shell' = IF shell.keyboard # u THEN [shell EXCEPT !.menus = @ \ {u}]
                   ELSE IF wants /\ Parent[u] \in shell.open
                   THEN [shell EXCEPT !.menus = @ \ {u}, !.keyboard = Parent[u]]
                   ELSE Refocus([shell EXCEPT !.menus = @ \ {u}])
    BY <1>2 DEF UnmapMenu
  <2> QED BY <2>1, <2>2, UnmapMenuFacts DEF Kept
<1> QED BY <1>1, <1>2

LEMMA StepKept ==
  ASSUME Good(shell), [Next]_shell
  PROVE  Kept(shell, shell')
<1>1. CASE UNCHANGED shell
  <2>1. NoneGone(shell, shell') BY <1>1 DEF NoneGone
  <2> QED BY <1>1, <2>1, GoodParts, NoneGoneReturns DEF Kept
<1>2. CASE Next
  <2>1. shell.up BY <1>2 DEF Next
  <2>2. ASSUME NEW s \in Surfaces, NEW o \in Outputs, NEW st \in Offers[s],
               NewSurface(s, o, st)
        PROVE  Kept(shell, shell')
    BY <2>1, <2>2, NewSurfaceKept
  <2>3. ASSUME NEW s \in Surfaces, NEW buffer \in BOOLEAN, NEW sets \in BOOLEAN,
               NEW st \in Offers[s], Commit(s, st, buffer, sets)
        PROVE  Kept(shell, shell')
    BY <2>1, <2>3, CommitStepKept
  <2>4. ASSUME NEW s \in Surfaces, DestroySurface(s) PROVE Kept(shell, shell')
    BY <2>1, <2>4, DestroyKept
  <2>5. ASSUME NEW o \in Outputs, AttachOutput(o) \/ DetachOutput(o)
        PROVE  Kept(shell, shell')
    BY <2>5, OutputKept
  <2>6. CASE Reconfigure BY <2>6, ReconfigureKept
  <2>7. ASSUME NEW v \in Views, OpenWindow(v) \/ CloseWindow(v) \/ ClickWindow(v)
        PROVE  Kept(shell, shell')
    BY <2>7, WindowKept
  <2>8. ASSUME NEW u \in Menus, MapMenu(u) \/ ActivateMenu(u) \/ UnmapMenu(u)
        PROVE  Kept(shell, shell')
    BY <2>8, MenuKept
  <2> QED BY <1>2, <2>2, <2>3, <2>4, <2>5, <2>6, <2>7, <2>8 DEF Next
<1> QED BY <1>1, <1>2

LEMMA InitGood ==
  ASSUME Init
  PROVE  Good(shell)
<1>1. shell = [attached |-> {}, full |-> [o \in Outputs |-> Null],
               placeable |-> [o \in Outputs |-> Null], laid |-> [o \in Outputs |-> Null],
               lists |-> [o \in Outputs |-> [l \in LayerNames |-> << >>]],
               surface |-> [s \in Surfaces |-> NoSurface],
               open |-> {}, menus |-> {}, focus |-> Null, keyboard |-> Null, up |-> TRUE]
  BY DEF Init
<1>2. << >> \in Seq(Surfaces) /\ Range(<< >>) = {} BY DEF Range
<1>3. [o \in Outputs |-> [l \in LayerNames |-> << >>]] \in [Outputs -> [LayerNames -> Seq(Surfaces)]]
  BY <1>2
<1>4. [s \in Surfaces |-> NoSurface] \in [Surfaces -> SurfaceRecords] BY NoSurfaceType
<1>5. shell \in Shells
  <2> DEFINE lists == [o \in Outputs |-> [l \in LayerNames |-> << >>]]
             surface == [s \in Surfaces |-> NoSurface]
  <2>1. lists \in [Outputs -> [LayerNames -> Seq(Surfaces)]] /\ surface \in [Surfaces -> SurfaceRecords]
    BY <1>3, <1>4
  <2>2. shell = [attached |-> {}, full |-> [o \in Outputs |-> Null],
               placeable |-> [o \in Outputs |-> Null], laid |-> [o \in Outputs |-> Null],
               lists |-> lists, surface |-> surface,
               open |-> {}, menus |-> {}, focus |-> Null, keyboard |-> Null, up |-> TRUE]
    BY <1>1
  <2> HIDE DEF lists, surface
  <2> QED BY <2>1, <2>2 DEF Shells
<1>6. ASSUME NEW o \in Outputs PROVE SurfacesOf(shell, o) = {}
  <2>1. \A l \in LayerNames : Range(shell.lists[o][l]) = {} BY <1>1, <1>2
  <2> QED BY <1>5, <2>1, ListedFacts
<1>7. /\ shell.attached = {} /\ shell.focus = Null
      /\ \A s \in Surfaces : ~shell.surface[s].alive /\ ~shell.surface[s].mapped
  BY <1>1 DEF NoSurface
<1>8. Sized(shell) BY <1>7, FS_EmptySet DEF Sized
<1>9. Wired(shell) /\ FocusOpen(shell) BY <1>7 DEF Wired, FocusOpen
<1>10. SettledBut(shell, {}) BY <1>6, <1>7 DEF SettledBut, Registered
<1> QED BY <1>5, <1>8, <1>9, <1>10 DEF Good, Sound

----------------------------------------------------------------------------
(* The theorems.                                                           *)

\* In every state of every run each part of the shell has its type, every panel
\* that lives is on the list of its output, no output lists one that does not,
\* and the room left for windows is what the listed panels leave. LaidInRoomLeft is
\* one of its consequences.
THEOREM ShellIsSound == Spec => []LayersInvariant
<1>1. Init => LayersInvariant BY InitGood DEF LayersInvariant
<1>2. LayersInvariant /\ [Next]_shell => LayersInvariant'
  <2> SUFFICES ASSUME LayersInvariant, [Next]_shell PROVE LayersInvariant' OBVIOUS
  <2>1. Kept(shell, shell') BY StepKept DEF LayersInvariant
  <2> QED BY <2>1 DEF Kept, LayersInvariant
<1> QED BY <1>1, <1>2, PTL DEF Spec

\* Whatever panels came, changed their layer, their size or their margins and
\* went, and however outputs were attached, moved and detached, the windows of
\* an output are laid out in exactly what the panels it lists leave of it.
THEOREM WindowsHaveTheRoomLeft == Spec => []LaidInRoomLeft
<1>1. LayersInvariant => LaidInRoomLeft
  <2> SUFFICES ASSUME Good(shell), shell.up, NEW o \in shell.attached, ListsOnce(shell, o)
               PROVE  /\ shell.placeable[o] = RoomLeft(shell, o)
                      /\ shell.laid[o] \in {RoomLeft(shell, o), Null}
    BY DEF LayersInvariant, LaidInRoomLeft
  <2>1. shell \in Shells /\ Sized(shell) BY GoodParts
  <2>2. o \in Outputs BY <2>1, ShellParts
  <2>3. Fits(shell, o) BY <2>2, GoodParts
  <2> QED BY <2>1, <2>3 DEF Sized, Fits
<1> QED BY <1>1, ShellIsSound, PTL

\* When the panel or the menu that has the keyboard is unmapped or destroyed
\* while a focused window is on display, the keyboard comes to something that is
\* shown: the focused window, the menu's parent, or another panel.
THEOREM KeyboardComesBack == Spec => KeyboardReturns
<1>1. LayersInvariant /\ [Next]_shell =>
        [\A p \in Surfaces \union Menus :
           /\ shell.keyboard = p /\ Shown(shell, p) /\ ~ Shown(shell', p) /\ shell'.up
           /\ shell.focus # Null /\ Home[shell.focus] \in shell.attached
           => shell'.keyboard # Null /\ Shown(shell', shell'.keyboard)]_shell
  <2> SUFFICES ASSUME LayersInvariant, [Next]_shell,
                      NEW p \in Surfaces \union Menus,
                      shell.keyboard = p, Shown(shell, p), ~ Shown(shell', p), shell'.up,
                      shell.focus # Null, Home[shell.focus] \in shell.attached
               PROVE  shell'.keyboard # Null /\ Shown(shell', shell'.keyboard)
    OBVIOUS
  <2>1. Returned(shell, shell') BY StepKept DEF LayersInvariant, Kept
  <2> QED BY <2>1 DEF Returned, Returnable
<1> QED BY <1>1, ShellIsSound, PTL DEF Spec, KeyboardReturns

=============================================================================
