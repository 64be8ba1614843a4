------------------------- MODULE CyclicModuleProofs -------------------------
(***************************************************************************)
(* The searches of linking and evaluating keep apart, for any modules, any *)
(* import graph, any completion values and any number of imports.          *)
(*                                                                         *)
(* The argument has two layers.  The invariant of one search is about its  *)
(* stack, the visits on the control stack and the indices of the modules   *)
(* on the stack; it is stated of constants, with a lemma for each way a    *)
(* search goes on.  The invariant of the engine puts the searches in       *)
(* progress together: they share no module, so that what one does leaves   *)
(* the others alone.                                                       *)
(*                                                                         *)
(* An evaluation takes its indices from the values of module bodies, which *)
(* can be anything.  What makes its searches end all the same is that      *)
(* every module on a stack has a visited module at or below it whose index *)
(* is at most its own ancestor index (the last conjunct of Core).          *)
(***************************************************************************)
EXTENDS CyclicModuleProperties, TLAPS, SequenceTheorems

-----------------------------------------------------------------------------
(* Which modules a module imports, directly or not *)

Goes(req, a, b) == \A S \in SUBSET DOMAIN req :
  (/\ ToSet(req[a]) \subseteq S
   /\ \A m \in S : ToSet(req[m]) \subseteq S) => b \in S

LEMMA GoesIsReaches == \A a, b : Goes(requests, a, b) <=> Order!Reaches(a, b)
  BY DEF Goes, Order!Reaches, ToSet, Order!ToSet

LEMMA GoesOne ==
  ASSUME NEW req, NEW a, NEW b \in ToSet(req[a])
  PROVE  Goes(req, a, b)
  BY Zenon DEF Goes

LEMMA GoesOn ==
  ASSUME NEW req, NEW a, NEW b \in DOMAIN req, NEW c, Goes(req, a, b), Goes(req, b, c)
  PROVE  Goes(req, a, c)
  BY Zenon DEF Goes

-----------------------------------------------------------------------------
(* Stacks without repetition *)

Once(dfs) == \A i, j \in 1 .. Len(dfs) : dfs[i] = dfs[j] => i = j

LEMMA InSet ==
  ASSUME NEW T, NEW s \in Seq(T)
  PROVE  /\ ToSet(s) \subseteq T
         /\ \A x : x \in ToSet(s) <=> \E i \in 1 .. Len(s) : x = s[i]
  BY DEF ToSet

LEMMA PlaceIs ==
  ASSUME NEW T, NEW dfs \in Seq(T), Once(dfs), NEW i \in 1 .. Len(dfs)
  PROVE  Place(dfs, dfs[i]) = i
  <1>1. \E k \in DOMAIN dfs : dfs[k] = dfs[i]
    BY LenProperties
  <1>2. Place(dfs, dfs[i]) \in DOMAIN dfs /\ dfs[Place(dfs, dfs[i])] = dfs[i]
    BY <1>1 DEF Place
  <1> QED BY <1>2, LenProperties DEF Once

LEMMA PlaceOf ==
  ASSUME NEW T, NEW dfs \in Seq(T), Once(dfs), NEW m \in ToSet(dfs)
  PROVE  Place(dfs, m) \in 1 .. Len(dfs) /\ dfs[Place(dfs, m)] = m
  <1>1. PICK i \in 1 .. Len(dfs) : m = dfs[i]
    BY InSet, Zenon
  <1>2. Place(dfs, dfs[i]) = i
    BY PlaceIs, Zenon
  <1> QED BY <1>1, <1>2

LEMMA Pushed ==
  ASSUME NEW T, NEW dfs \in Seq(T), Once(dfs), NEW x \in T, x \notin ToSet(dfs)
  PROVE  /\ Append(dfs, x) \in Seq(T) /\ Once(Append(dfs, x))
         /\ Len(Append(dfs, x)) = Len(dfs) + 1
         /\ \A i \in 1 .. Len(dfs) : Append(dfs, x)[i] = dfs[i]
         /\ Append(dfs, x)[Len(dfs) + 1] = x
         /\ ToSet(Append(dfs, x)) = ToSet(dfs) \cup {x}
  <1> DEFINE more == Append(dfs, x)
  <1>1. /\ more \in Seq(T) /\ Len(more) = Len(dfs) + 1 /\ Len(dfs) \in Nat
        /\ \A i \in 1 .. Len(dfs) : more[i] = dfs[i]
        /\ more[Len(dfs) + 1] = x
    BY AppendProperties, LenProperties
  <1>2. \A i \in 1 .. Len(dfs) : dfs[i] # x
    BY InSet
  <1> HIDE DEF more
  <1>3. \A i : i \in 1 .. Len(more) <=> i \in 1 .. Len(dfs) \/ i = Len(dfs) + 1
    BY <1>1
  <1>4. Once(more)
    BY <1>1, <1>2, <1>3 DEF Once
  <1>5. ToSet(more) = ToSet(dfs) \cup {x}
    <2>1. \A y : y \in ToSet(more) <=> y \in ToSet(dfs) \/ y = x
      BY <1>1, <1>3, InSet
    <2> QED BY <2>1
  <1> QED BY <1>1, <1>4, <1>5 DEF more

LEMMA Cut ==
  ASSUME NEW T, NEW dfs \in Seq(T), Once(dfs), NEW p \in 1 .. Len(dfs)
  PROVE  /\ SubSeq(dfs, 1, p - 1) \in Seq(T) /\ Once(SubSeq(dfs, 1, p - 1))
         /\ Len(SubSeq(dfs, 1, p - 1)) = p - 1
         /\ \A i \in 1 .. p - 1 : SubSeq(dfs, 1, p - 1)[i] = dfs[i]
         /\ \A y : y \in ToSet(dfs)
              <=> y \in ToSet(SubSeq(dfs, 1, p - 1)) \/ \E i \in p .. Len(dfs) : y = dfs[i]
         /\ \A y \in ToSet(SubSeq(dfs, 1, p - 1)) : ~ \E i \in p .. Len(dfs) : y = dfs[i]
  <1> DEFINE less == SubSeq(dfs, 1, p - 1)
  <1>1. /\ less \in Seq(T) /\ Len(less) = p - 1 /\ p \in Nat /\ Len(dfs) \in Nat
        /\ \A i \in 1 .. p - 1 : less[i] = dfs[i]
    <2>1. p \in Nat \ {0} /\ Len(dfs) \in Nat /\ p <= Len(dfs)
      BY LenProperties
    <2>2. \A i \in 1 .. p - 1 : dfs[i] \in T
      BY <2>1, ElementOfSeq
    <2>3. /\ less \in Seq(T)
          /\ Len(less) = IF 1 <= p - 1 THEN (p - 1) - 1 + 1 ELSE 0
          /\ \A i \in 1 .. (p - 1) - 1 + 1 : less[i] = dfs[1 + i - 1]
      BY <2>1, <2>2, SubSeqProperties
    <2> HIDE DEF less
    <2>4. \A i \in 1 .. p - 1 : i \in 1 .. (p - 1) - 1 + 1 /\ 1 + i - 1 = i
      BY <2>1
    <2>5. \A i \in 1 .. p - 1 : less[i] = dfs[i]
      <3> TAKE i \in 1 .. p - 1
      <3> QED BY <2>3, <2>4
    <2> QED BY <2>1, <2>3, <2>5
  <1> HIDE DEF less
  <1>2. Once(less)
    BY <1>1 DEF Once
  <1>3. \A i : i \in 1 .. Len(dfs) <=> i \in 1 .. p - 1 \/ i \in p .. Len(dfs)
    BY <1>1
  <1>4. \A y : y \in ToSet(dfs) <=> y \in ToSet(less) \/ \E i \in p .. Len(dfs) : y = dfs[i]
    <2>1. \A y : y \in ToSet(dfs) <=> \E i \in 1 .. Len(dfs) : y = dfs[i]
      BY DEF ToSet
    <2>2. \A y : y \in ToSet(less) <=> \E i \in 1 .. p - 1 : y = dfs[i]
      BY <1>1 DEF ToSet
    <2> QED BY <1>3, <2>1, <2>2
  <1>5. \A y \in ToSet(less) : ~ \E i \in p .. Len(dfs) : y = dfs[i]
    <2> SUFFICES ASSUME NEW y \in ToSet(less), NEW i \in p .. Len(dfs), y = dfs[i]
                 PROVE  FALSE
      OBVIOUS
    <2>1. PICK j \in 1 .. p - 1 : y = less[j]
      BY <1>1, InSet
    <2>2. dfs[j] = dfs[i] /\ j \in 1 .. Len(dfs) /\ i \in 1 .. Len(dfs)
      BY <1>1, <2>1
    <2>3. i = j
      BY <2>2 DEF Once
    <2> QED BY <1>1, <2>3
  <1> QED BY <1>1, <1>2, <1>4, <1>5 DEF less
LEMMA PlacePushed ==
  ASSUME NEW T, NEW dfs \in Seq(T), Once(dfs), NEW x \in T, x \notin ToSet(dfs)
  PROVE  /\ \A m \in ToSet(dfs) : /\ Place(Append(dfs, x), m) = Place(dfs, m)
                                  /\ Place(dfs, m) \in 1 .. Len(dfs)
         /\ Place(Append(dfs, x), x) = Len(dfs) + 1
  <1> DEFINE more == Append(dfs, x)
  <1>1. /\ more \in Seq(T) /\ Once(more) /\ Len(more) = Len(dfs) + 1 /\ Len(dfs) \in Nat
        /\ \A i \in 1 .. Len(dfs) : more[i] = dfs[i]
        /\ more[Len(dfs) + 1] = x
    BY Pushed, LenProperties
  <1> HIDE DEF more
  <1>2. ASSUME NEW i \in 1 .. Len(more) PROVE Place(more, more[i]) = i
    BY <1>1, PlaceIs, Zenon
  <1>3. ASSUME NEW m \in ToSet(dfs)
        PROVE  Place(more, m) = Place(dfs, m) /\ Place(dfs, m) \in 1 .. Len(dfs)
    <2>1. Place(dfs, m) \in 1 .. Len(dfs) /\ dfs[Place(dfs, m)] = m
      BY PlaceOf, Zenon
    <2>2. Place(dfs, m) \in 1 .. Len(more) /\ more[Place(dfs, m)] = m
      BY <1>1, <2>1
    <2> QED BY <1>2, <2>1, <2>2
  <1>4. Place(more, x) = Len(dfs) + 1
    <2>1. Len(dfs) + 1 \in 1 .. Len(more)
      BY <1>1
    <2> QED BY <1>1, <1>2, <2>1
  <1> QED BY <1>3, <1>4 DEF more

LEMMA PlaceCut ==
  ASSUME NEW T, NEW dfs \in Seq(T), Once(dfs), NEW p \in 1 .. Len(dfs)
  PROVE  /\ \A m : m \in ToSet(SubSeq(dfs, 1, p - 1)) <=> m \in ToSet(dfs) /\ Place(dfs, m) < p
         /\ \A m \in ToSet(SubSeq(dfs, 1, p - 1)) :
              Place(SubSeq(dfs, 1, p - 1), m) = Place(dfs, m)
  <1> DEFINE less == SubSeq(dfs, 1, p - 1)
  <1>1. /\ less \in Seq(T) /\ Once(less) /\ Len(less) = p - 1
        /\ p \in Nat /\ Len(dfs) \in Nat
        /\ \A i \in 1 .. p - 1 : less[i] = dfs[i]
    BY Cut, LenProperties
  <1> HIDE DEF less
  <1>2. ASSUME NEW m \in ToSet(less)
        PROVE  m \in ToSet(dfs) /\ Place(dfs, m) < p /\ Place(less, m) = Place(dfs, m)
    <2>1. Place(less, m) \in 1 .. p - 1 /\ less[Place(less, m)] = m
      BY <1>1, PlaceOf, Zenon
    <2>2. Place(less, m) \in 1 .. Len(dfs) /\ dfs[Place(less, m)] = m
      BY <1>1, <2>1
    <2>3. Place(dfs, m) = Place(less, m)
      BY <2>2, PlaceIs
    <2> QED BY <1>1, <2>1, <2>2, <2>3, InSet
  <1>3. ASSUME NEW m \in ToSet(dfs), Place(dfs, m) < p
        PROVE  m \in ToSet(less)
    <2>1. Place(dfs, m) \in 1 .. Len(dfs) /\ dfs[Place(dfs, m)] = m
      BY PlaceOf, Zenon
    <2>2. Place(dfs, m) \in 1 .. Len(less) /\ less[Place(dfs, m)] = m
      BY <1>1, <1>3, <2>1
    <2> QED BY <1>1, <2>2, InSet
  <1> QED BY <1>2, <1>3 DEF less

-----------------------------------------------------------------------------
(* One search: its stack dfs, its visits work, the indices ix and ancestor    *)
(* indices an of the modules on the stack, over the import graph req.         *)

Visits(N) == [module : N, next : Nat \ {0}, body : BOOLEAN]
At(dfs, work, k) == Place(dfs, work[k].module)

\* The visits are of modules on the stack, in order, each reached from the others.
Visiting(req, dfs, work) == \A k \in 1 .. Len(work) :
  /\ work[k].module \in ToSet(dfs)
  /\ \A l \in 1 .. Len(work) : k < l =>
       At(dfs, work, k) < At(dfs, work, l) /\ Goes(req, work[k].module, work[l].module)

\* Each visit but the last waits for the module of the next.
Chained(req, work) == \A k \in 1 .. Len(work) : k < Len(work) =>
  /\ work[k].next \in 1 .. Len(req[work[k].module])
  /\ req[work[k].module][work[k].next] = work[k + 1].module

\* The visited module that holds m on the stack.
Holds(req, ix, an, dfs, work, m, k) ==
  /\ At(dfs, work, k) <= Place(dfs, m) /\ ix[work[k].module] <= an[m]
  /\ m = work[k].module \/ Goes(req, m, work[k].module)

Core(req, ix, an, dfs, work) ==
  /\ dfs \in Seq(DOMAIN req) /\ work \in Seq(Visits(DOMAIN req)) /\ Once(dfs)
  /\ Visiting(req, dfs, work) /\ Chained(req, work)
  /\ \A m \in ToSet(dfs) : an[m] <= ix[m]
  /\ \A m \in ToSet(dfs) : \E k \in 1 .. Len(work) : Holds(req, ix, an, dfs, work, m, k)

Graph(req) == req \in [DOMAIN req -> Seq(DOMAIN req)]
Indices(req, ix) == ix \in [Modules -> Int] /\ DOMAIN req \subseteq Modules

LEMMA GoesThrough ==
  ASSUME NEW req, Graph(req), NEW a, NEW b, NEW c, b \in DOMAIN req,
         a = b \/ Goes(req, a, b), b = c \/ Goes(req, b, c)
  PROVE  a = c \/ Goes(req, a, c)
  BY GoesOn, Zenon

\* A search begins.
LEMMA CoreBegins ==
  ASSUME NEW req, NEW ix, NEW an, NEW m \in DOMAIN req, ix[m] = 0, an[m] = 0
  PROVE  Core(req, ix, an, <<m>>, <<Visit(m)>>)
  <1> DEFINE dfs == <<m>>
             work == <<Visit(m)>>
  <1>1. /\ dfs \in Seq(DOMAIN req) /\ Len(dfs) = 1 /\ dfs[1] = m /\ ToSet(dfs) = {m}
        /\ work \in Seq(Visits(DOMAIN req)) /\ Len(work) = 1 /\ work[1].module = m
    BY DEF Visits, Visit, ToSet
  <1> HIDE DEF dfs, work
  <1>2. Once(dfs)
    BY <1>1 DEF Once
  <1>3. 1 .. Len(work) = {1}
    BY <1>1
  <1>4. Visiting(req, dfs, work) /\ Chained(req, work)
    BY <1>1, <1>3 DEF Visiting, Chained
  <1>5. an[m] <= ix[m]
    OBVIOUS
  <1>6. Place(dfs, m) = 1
    <2>1. 1 \in 1 .. Len(dfs)
      BY <1>1
    <2>2. Place(dfs, dfs[1]) = 1
      BY <1>1, <1>2, <2>1, PlaceIs, Zenon
    <2> QED BY <1>1, <2>2
  <1>7. Holds(req, ix, an, dfs, work, m, 1)
    BY <1>1, <1>5, <1>6 DEF Holds, At
  <1>8. Core(req, ix, an, dfs, work)
    BY <1>1, <1>2, <1>3, <1>4, <1>5, <1>7, Zenon DEF Core
  <1> QED BY <1>8 DEF dfs, work

\* What the indices of other modules are does not matter.
LEMMA CoreKeeps ==
  ASSUME NEW req, NEW ix, NEW an, NEW ix2, NEW an2, NEW dfs, NEW work,
         Core(req, ix, an, dfs, work),
         \A m \in ToSet(dfs) : ix2[m] = ix[m] /\ an2[m] = an[m]
  PROVE  Core(req, ix2, an2, dfs, work)
  <1>1. \A m \in ToSet(dfs) : an2[m] <= ix2[m]
    BY DEF Core
  <1>2. ASSUME NEW m \in ToSet(dfs), NEW k \in 1 .. Len(work), Holds(req, ix, an, dfs, work, m, k)
        PROVE  Holds(req, ix2, an2, dfs, work, m, k)
    <2>1. work[k].module \in ToSet(dfs)
      BY DEF Core, Visiting
    <2> QED BY <1>2, <2>1 DEF Holds
  <1> QED BY <1>1, <1>2, Zenon DEF Core

\* Every module on the stack is, or leads to, the one visited last.
LEMMA AllLead ==
  ASSUME NEW req, Graph(req), NEW ix, NEW an, NEW dfs, NEW work,
         Core(req, ix, an, dfs, work), work # <<>>, NEW m \in ToSet(dfs)
  PROVE  m = work[Len(work)].module \/ Goes(req, m, work[Len(work)].module)
  <1> DEFINE w == Len(work)
  <1>1. w \in Nat \ {0} /\ w \in 1 .. w
    BY DEF Core
  <1>2. PICK k \in 1 .. w : Holds(req, ix, an, dfs, work, m, k)
    BY Zenon DEF Core
  <1>3. m = work[k].module \/ Goes(req, m, work[k].module)
    BY <1>2, Zenon DEF Holds
  <1>4. work[k].module \in DOMAIN req
    <2>1. work[k] \in Visits(DOMAIN req)
      BY ElementOfSeq, Zenon DEF Core
    <2> QED BY <2>1 DEF Visits
  <1>5. work[k].module = work[w].module \/ Goes(req, work[k].module, work[w].module)
    <2>1. CASE k = w
      BY <2>1
    <2>2. CASE k # w
      <3>1. k < w
        BY <1>1, <2>2
      <3> QED BY <1>1, <3>1, Zenon DEF Core, Visiting
    <2> QED BY <2>1, <2>2
  <1> QED BY <1>3, <1>4, <1>5, GoesThrough, Zenon
LEMMA VisitTypes ==
  ASSUME NEW req, NEW work \in Seq(Visits(DOMAIN req))
  PROVE  /\ Len(work) \in Nat /\ (work # <<>> => Len(work) \in 1 .. Len(work))
         /\ \A k \in 1 .. Len(work) : /\ work[k] \in Visits(DOMAIN req)
                                      /\ work[k].module \in DOMAIN req
                                      /\ work[k].next \in Nat \ {0} /\ work[k].body \in BOOLEAN
  <1>1. \A k \in 1 .. Len(work) : work[k] \in Visits(DOMAIN req)
    BY ElementOfSeq, Zenon
  <1>2. Len(work) \in Nat /\ (work # <<>> => Len(work) # 0)
    OBVIOUS
  <1>3. work # <<>> => Len(work) \in 1 .. Len(work)
    BY <1>2
  <1> QED BY <1>1, <1>2, <1>3 DEF Visits

\* The visit of a required module that is not on the stack begins.
LEMMA CoreEnters ==
  ASSUME NEW req, Graph(req), NEW ix, Indices(req, ix), NEW an, Indices(req, an), NEW n \in Int,
         NEW dfs, NEW work, Core(req, ix, an, dfs, work), work # <<>>,
         work[Len(work)].next \in 1 .. Len(req[work[Len(work)].module]),
         NEW x, x = req[work[Len(work)].module][work[Len(work)].next], x \notin ToSet(dfs)
  PROVE  /\ Core(req, [ix EXCEPT ![x] = n], [an EXCEPT ![x] = n],
                 Append(dfs, x), Append(work, Visit(x)))
         /\ x \in DOMAIN req /\ x \in ToSet(req[work[Len(work)].module])
  <1> DEFINE w == Len(work)
             me == work[w].module
             ix2 == [ix EXCEPT ![x] = n]
             an2 == [an EXCEPT ![x] = n]
             dfs2 == Append(dfs, x)
             work2 == Append(work, Visit(x))
  <1>1. /\ dfs \in Seq(DOMAIN req) /\ work \in Seq(Visits(DOMAIN req)) /\ Once(dfs)
        /\ Visiting(req, dfs, work) /\ Chained(req, work)
        /\ \A m \in ToSet(dfs) : an[m] <= ix[m]
        /\ \A m \in ToSet(dfs) : \E k \in 1 .. w : Holds(req, ix, an, dfs, work, m, k)
    BY Zenon DEF Core
  <1>2. /\ w \in Nat /\ w \in 1 .. w
        /\ \A k \in 1 .. w : work[k] \in Visits(DOMAIN req) /\ work[k].module \in DOMAIN req
    BY <1>1, VisitTypes
  <1>3. req[me] \in Seq(DOMAIN req)
    BY <1>2 DEF Graph
  <1>4. x \in DOMAIN req /\ x \in ToSet(req[me])
    BY <1>3, InSet, ElementOfSeq
  <1>5. /\ dfs2 \in Seq(DOMAIN req) /\ Once(dfs2) /\ Len(dfs2) = Len(dfs) + 1
        /\ ToSet(dfs2) = ToSet(dfs) \cup {x}
        /\ \A m \in ToSet(dfs) : Place(dfs2, m) = Place(dfs, m) /\ Place(dfs, m) \in 1 .. Len(dfs)
        /\ Place(dfs2, x) = Len(dfs) + 1
        /\ Len(dfs) \in Nat
    <2>1. dfs \in Seq(DOMAIN req) /\ Once(dfs) /\ x \in DOMAIN req /\ x \notin ToSet(dfs)
      BY <1>1, <1>4
    <2> HIDE DEF w, me
    <2>2. /\ dfs2 \in Seq(DOMAIN req) /\ Once(dfs2) /\ Len(dfs2) = Len(dfs) + 1
          /\ ToSet(dfs2) = ToSet(dfs) \cup {x}
      <3> HIDE DEF dfs2
      <3>1. /\ Append(dfs, x) \in Seq(DOMAIN req) /\ Once(Append(dfs, x))
            /\ Len(Append(dfs, x)) = Len(dfs) + 1 /\ ToSet(Append(dfs, x)) = ToSet(dfs) \cup {x}
        BY <2>1, Pushed
      <3> QED BY <3>1 DEF dfs2
    <2>3. /\ \A m \in ToSet(dfs) : Place(dfs2, m) = Place(dfs, m) /\ Place(dfs, m) \in 1 .. Len(dfs)
          /\ Place(dfs2, x) = Len(dfs) + 1
      BY ONLY <2>1, PlacePushed, Zenon
    <2>4. Len(dfs) \in Nat
      BY <1>1, LenProperties
    <2> QED BY <2>2, <2>3, <2>4, Zenon
  <1>6. Visit(x) \in Visits(DOMAIN req) /\ Visit(x).module = x
    BY <1>4 DEF Visits, Visit
  <1>7. /\ work2 \in Seq(Visits(DOMAIN req)) /\ Len(work2) = w + 1
        /\ \A k \in 1 .. w : work2[k] = work[k]
        /\ work2[w + 1] = Visit(x)
    BY <1>1, <1>6, AppendProperties
  <1>8. /\ ix2[x] = n /\ an2[x] = n
        /\ \A m \in ToSet(dfs) : ix2[m] = ix[m] /\ an2[m] = an[m]
    BY <1>4 DEF Indices
  <1> HIDE DEF ix2, an2, dfs2, work2
  <1>9. \A k : k \in 1 .. Len(work2) <=> k \in 1 .. w \/ k = w + 1
    BY <1>2, <1>7
  <1>10. /\ \A k \in 1 .. w : /\ work2[k].module = work[k].module /\ work[k].module \in ToSet(dfs)
                              /\ At(dfs2, work2, k) = At(dfs, work, k)
                              /\ At(dfs, work, k) \in 1 .. Len(dfs)
         /\ work2[w + 1].module = x /\ At(dfs2, work2, w + 1) = Len(dfs) + 1
    BY <1>1, <1>5, <1>6, <1>7 DEF At, Visiting
  <1>11. \A k \in 1 .. w : work[k].module = me \/ Goes(req, work[k].module, me)
    <2> TAKE k \in 1 .. w
    <2>1. CASE k = w
      BY <2>1
    <2>2. CASE k # w
      <3>1. k < w
        BY <1>2, <2>2
      <3> QED BY <1>1, <1>2, <3>1, Zenon DEF Visiting
    <2> QED BY <2>1, <2>2
  <1>12. \A k \in 1 .. w : Goes(req, work[k].module, x)
    <2>1. Goes(req, me, x)
      BY <1>4, GoesOne, Zenon
    <2>2. me \in DOMAIN req
      BY <1>2
    <2> HIDE DEF me
    <2> QED BY <1>11, <2>1, <2>2, GoesOn, Zenon
  <1>13. Visiting(req, dfs2, work2)
    <2> SUFFICES ASSUME NEW k \in 1 .. Len(work2)
                 PROVE  /\ work2[k].module \in ToSet(dfs2)
                        /\ \A l \in 1 .. Len(work2) : k < l =>
                             /\ At(dfs2, work2, k) < At(dfs2, work2, l)
                             /\ Goes(req, work2[k].module, work2[l].module)
      BY Zenon DEF Visiting
    <2>1. CASE k \in 1 .. w
      <3>1. work2[k].module \in ToSet(dfs2)
        BY <1>5, <1>10, <2>1
      <3>2. ASSUME NEW l \in 1 .. Len(work2), k < l
            PROVE  /\ At(dfs2, work2, k) < At(dfs2, work2, l)
                   /\ Goes(req, work2[k].module, work2[l].module)
        <4>1. CASE l \in 1 .. w
          <5>1. At(dfs, work, k) < At(dfs, work, l) /\ Goes(req, work[k].module, work[l].module)
            BY <1>1, <2>1, <3>2, <4>1, Zenon DEF Visiting
          <5> QED BY <1>10, <2>1, <4>1, <5>1
        <4>2. CASE l = w + 1
          BY <1>5, <1>10, <1>12, <2>1, <4>2
        <4> QED BY <1>9, <4>1, <4>2
      <3> QED BY <3>1, <3>2
    <2>2. CASE k = w + 1
      BY <1>2, <1>5, <1>7, <1>10, <2>2
    <2> QED BY <1>9, <2>1, <2>2
  <1>14. Chained(req, work2)
    <2> SUFFICES ASSUME NEW k \in 1 .. Len(work2), k < Len(work2)
                 PROVE  /\ work2[k].next \in 1 .. Len(req[work2[k].module])
                        /\ req[work2[k].module][work2[k].next] = work2[k + 1].module
      BY Zenon DEF Chained
    <2>1. k \in 1 .. w /\ work2[k] = work[k]
      BY <1>2, <1>7
    <2>2. CASE k = w
      BY <1>10, <2>1, <2>2
    <2>3. CASE k # w
      <3>1. k < w /\ k + 1 \in 1 .. w
        BY <1>2, <2>1, <2>3
      <3> QED BY <1>1, <1>10, <2>1, <3>1 DEF Chained
    <2> QED BY <2>2, <2>3
  <1>15. \A m \in ToSet(dfs2) : an2[m] <= ix2[m]
    BY <1>1, <1>5, <1>8
  <1>16. \A m \in ToSet(dfs2) : \E k \in 1 .. Len(work2) : Holds(req, ix2, an2, dfs2, work2, m, k)
    <2> TAKE m \in ToSet(dfs2)
    <2>1. CASE m \in ToSet(dfs)
      <3>1. PICK k \in 1 .. w : Holds(req, ix, an, dfs, work, m, k)
        BY <1>1, <2>1, Zenon
      <3>2. Holds(req, ix2, an2, dfs2, work2, m, k)
        BY <1>5, <1>8, <1>10, <2>1, <3>1 DEF Holds
      <3> QED BY <1>9, <3>2
    <2>2. CASE m = x
      <3>1. Holds(req, ix2, an2, dfs2, work2, m, w + 1)
        BY <1>5, <1>8, <1>10, <2>2 DEF Holds
      <3> QED BY <1>9, <3>1
    <2> QED BY <1>5, <2>1, <2>2
  <1>17. Core(req, ix2, an2, dfs2, work2)
    BY <1>5, <1>7, <1>13, <1>14, <1>15, <1>16, Zenon DEF Core
  <1> QED BY <1>4, <1>17 DEF ix2, an2, dfs2, work2, me, w
\* What a visit has done so far does not matter, but for those that wait.
LEMMA CoreVisits ==
  ASSUME NEW req, NEW ix, NEW an, NEW dfs, NEW work, Core(req, ix, an, dfs, work),
         NEW work2 \in Seq(Visits(DOMAIN req)), Len(work2) = Len(work),
         \A k \in 1 .. Len(work) : work2[k].module = work[k].module,
         \A k \in 1 .. Len(work) : k < Len(work) => work2[k].next = work[k].next
  PROVE  Core(req, ix, an, dfs, work2)
  <1>1. \A k \in 1 .. Len(work) : At(dfs, work2, k) = At(dfs, work, k)
    BY Zenon DEF At
  <1>2. Visiting(req, dfs, work2)
    <2>1. \A k \in 1 .. Len(work) :
            /\ work2[k].module \in ToSet(dfs)
            /\ \A l \in 1 .. Len(work) : k < l =>
                 /\ At(dfs, work2, k) < At(dfs, work2, l)
                 /\ Goes(req, work2[k].module, work2[l].module)
      BY <1>1 DEF Core, Visiting
    <2> QED BY <2>1 DEF Visiting
  <1>3. Chained(req, work2)
    <2> SUFFICES ASSUME NEW k \in 1 .. Len(work), k < Len(work)
                 PROVE  /\ work2[k].next \in 1 .. Len(req[work2[k].module])
                        /\ req[work2[k].module][work2[k].next] = work2[k + 1].module
      BY DEF Chained
    <2>1. k + 1 \in 1 .. Len(work)
      BY VisitTypes DEF Core
    <2> QED BY <2>1 DEF Core, Chained
  <1>4. ASSUME NEW m \in ToSet(dfs), NEW k \in 1 .. Len(work), Holds(req, ix, an, dfs, work, m, k)
        PROVE  Holds(req, ix, an, dfs, work2, m, k)
    BY <1>1, <1>4 DEF Holds
  <1>5. \A m \in ToSet(dfs) : \E k \in 1 .. Len(work2) : Holds(req, ix, an, dfs, work2, m, k)
    BY <1>4 DEF Core
  <1> QED BY <1>2, <1>3, <1>5, Zenon DEF Core

\* The last visit takes over the ancestor index of a module on the stack.
LEMMA CoreLowers ==
  ASSUME NEW req, Graph(req), NEW ix, Indices(req, ix), NEW an, Indices(req, an),
         NEW dfs, NEW work, Core(req, ix, an, dfs, work), work # <<>>,
         NEW r \in ToSet(dfs), r \in ToSet(req[work[Len(work)].module])
  PROVE  LET me == work[Len(work)].module
         IN Core(req, ix, [an EXCEPT ![me] = IF an[r] < @ THEN an[r] ELSE @], dfs, work)
  <1> DEFINE w == Len(work)
             me == work[w].module
             an2 == [an EXCEPT ![me] = IF an[r] < @ THEN an[r] ELSE @]
  <1>1. /\ dfs \in Seq(DOMAIN req) /\ work \in Seq(Visits(DOMAIN req)) /\ Once(dfs)
        /\ Visiting(req, dfs, work) /\ Chained(req, work)
        /\ \A m \in ToSet(dfs) : an[m] <= ix[m]
        /\ \A m \in ToSet(dfs) : \E k \in 1 .. w : Holds(req, ix, an, dfs, work, m, k)
    BY Zenon DEF Core
  <1>2. /\ w \in Nat /\ w \in 1 .. w
        /\ \A k \in 1 .. w : work[k].module \in DOMAIN req /\ work[k].module \in ToSet(dfs)
    BY <1>1, VisitTypes DEF Visiting
  <1>3. \A m \in ToSet(dfs) : m \in Modules /\ m \in DOMAIN req /\ an[m] \in Int /\ ix[m] \in Int
    BY <1>1, InSet DEF Indices
  <1>4. /\ \A m \in ToSet(dfs) : an2[m] = IF m = me THEN (IF an[r] < an[me] THEN an[r] ELSE an[me])
                                          ELSE an[m]
    BY <1>2, <1>3 DEF Indices
  <1> HIDE DEF an2
  <1>5. \A k \in 1 .. w : At(dfs, work, k) <= At(dfs, work, w)
    <2> TAKE k \in 1 .. w
    <2>1. At(dfs, work, k) \in 1 .. Len(dfs) /\ Len(dfs) \in Nat
      BY <1>1, <1>2, PlaceOf, LenProperties DEF At
    <2>2. CASE k = w
      BY <2>1, <2>2
    <2>3. CASE k # w
      <3>1. k < w
        BY <1>2, <2>3
      <3>2. At(dfs, work, k) < At(dfs, work, w) /\ At(dfs, work, w) \in 1 .. Len(dfs)
        BY <1>1, <1>2, <3>1, PlaceOf DEF Visiting, At
      <3> QED BY <2>1, <3>2
    <2> QED BY <2>2, <2>3
  <1>6. \A m \in ToSet(dfs) : an2[m] <= ix[m]
    BY <1>1, <1>2, <1>3, <1>4
  <1>7. \A m \in ToSet(dfs) : \E k \in 1 .. w : Holds(req, ix, an2, dfs, work, m, k)
    <2> TAKE m \in ToSet(dfs)
    <2>1. CASE m # me \/ ~(an[r] < an[me])
      <3>1. PICK k \in 1 .. w : Holds(req, ix, an, dfs, work, m, k)
        BY <1>1, Zenon
      <3>2. an2[m] = an[m]
        BY <1>4, <2>1
      <3>3. Holds(req, ix, an2, dfs, work, m, k)
        BY <3>1, <3>2 DEF Holds
      <3> QED BY <3>3
    <2>2. CASE m = me /\ an[r] < an[me]
      <3>1. PICK k \in 1 .. w : Holds(req, ix, an, dfs, work, r, k)
        BY <1>1, Zenon
      <3>2. an2[m] = an[r] /\ ix[work[k].module] <= an2[m]
        BY <1>4, <2>2, <3>1 DEF Holds
      <3>3. At(dfs, work, k) <= Place(dfs, m)
        BY <1>5, <2>2 DEF At
      <3>4. Goes(req, m, work[k].module)
        <4>1. Goes(req, m, r)
          BY <2>2, GoesOne, Zenon
        <4>2. r = work[k].module \/ Goes(req, r, work[k].module)
          BY <3>1, Zenon DEF Holds
        <4> QED BY <1>3, <4>1, <4>2, GoesOn, Zenon
      <3> QED BY <3>2, <3>3, <3>4 DEF Holds
    <2> QED BY <2>1, <2>2
  <1>8. Core(req, ix, an2, dfs, work)
    BY <1>1, <1>6, <1>7, Zenon DEF Core
  <1> QED BY <1>8 DEF an2, me, w

LEMMA FrontIs ==
  ASSUME NEW T, NEW s \in Seq(T), s # <<>>
  PROVE  /\ Front(s) \in Seq(T) /\ Len(Front(s)) = Len(s) - 1 /\ Len(s) \in Nat \ {0}
         /\ \A i \in 1 .. Len(s) - 1 : Front(s)[i] = s[i]
         /\ Last(s) = s[Len(s)] /\ Last(s) \in T
  <1>1. Len(s) \in Nat \ {0}
    OBVIOUS
  <1>2. \A i \in 1 .. Len(s) - 1 : s[i] \in T
    BY <1>1
  <1>3. /\ Front(s) \in Seq(T)
        /\ Len(Front(s)) = IF 1 <= Len(s) - 1 THEN (Len(s) - 1) - 1 + 1 ELSE 0
        /\ \A i \in 1 .. (Len(s) - 1) - 1 + 1 : Front(s)[i] = s[1 + i - 1]
    BY <1>1, <1>2, SubSeqProperties DEF Front
  <1>4. \A i \in 1 .. Len(s) - 1 : i \in 1 .. (Len(s) - 1) - 1 + 1 /\ 1 + i - 1 = i
    BY <1>1
  <1>5. \A i \in 1 .. Len(s) - 1 : Front(s)[i] = s[i]
    <2> TAKE i \in 1 .. Len(s) - 1
    <2> QED BY <1>3, <1>4
  <1>6. Len(Front(s)) = Len(s) - 1
    <2> DEFINE n == Len(s)
               f == Len(Front(s))
    <2>1. n \in Nat \ {0} /\ f = IF 1 <= n - 1 THEN (n - 1) - 1 + 1 ELSE 0
      BY <1>1, <1>3
    <2> HIDE DEF n, f
    <2>2. f = n - 1
      BY <2>1
    <2> QED BY <2>2 DEF n, f
  <1>7. Last(s) = s[Len(s)] /\ Last(s) \in T
    BY <1>1 DEF Last
  <1> QED BY <1>1, <1>3, <1>5, <1>6, <1>7

\* The last visit of a search ends: the visits that are left.
LEMMA WorkFront ==
  ASSUME NEW req, NEW ix, NEW an, NEW dfs, NEW work, Core(req, ix, an, dfs, work), work # <<>>
  PROVE  /\ Front(work) \in Seq(Visits(DOMAIN req)) /\ Len(Front(work)) = Len(work) - 1
         /\ Len(work) \in Nat \ {0}
         /\ \A k \in 1 .. Len(work) - 1 : Front(work)[k] = work[k]
         /\ work[Len(work)].module \in ToSet(dfs)
         /\ At(dfs, work, Len(work)) \in 1 .. Len(dfs)
         /\ \A k \in 1 .. Len(work) - 1 :
              /\ k \in 1 .. Len(work) /\ k < Len(work)
              /\ At(dfs, work, k) < At(dfs, work, Len(work))
              /\ work[k].module # work[Len(work)].module
  <1> DEFINE w == Len(work)
  <1>1. work \in Seq(Visits(DOMAIN req)) /\ dfs \in Seq(DOMAIN req) /\ Once(dfs)
    BY DEF Core
  <1>2. /\ Front(work) \in Seq(Visits(DOMAIN req)) /\ Len(Front(work)) = w - 1 /\ w \in Nat \ {0}
        /\ \A k \in 1 .. w - 1 : Front(work)[k] = work[k]
    BY <1>1, FrontIs
  <1>3. w \in 1 .. w
    BY <1>2
  <1>4. work[w].module \in ToSet(dfs)
    BY <1>3, Zenon DEF Core, Visiting
  <1>5. At(dfs, work, w) \in 1 .. Len(dfs)
    BY <1>1, <1>4, PlaceOf DEF At
  <1>6. ASSUME NEW k \in 1 .. w - 1
        PROVE  /\ k \in 1 .. w /\ k < w
               /\ At(dfs, work, k) < At(dfs, work, w)
               /\ work[k].module # work[w].module
    <2>1. k \in 1 .. w /\ k < w
      BY <1>2
    <2>2. At(dfs, work, k) < At(dfs, work, w)
      BY <1>3, <2>1, Zenon DEF Core, Visiting
    <2>3. At(dfs, work, w) \in Int
      BY <1>5
    <2> HIDE DEF w
    <2>4. work[k].module # work[w].module
      BY <2>2, <2>3 DEF At
    <2> QED BY <2>1, <2>2, <2>4
  <1> QED BY <1>2, <1>4, <1>5, <1>6

\* The visits below the last one of a search still follow each other.
LEMMA LessVisiting ==
  ASSUME NEW req, NEW ix, NEW an, NEW dfs, NEW work, Core(req, ix, an, dfs, work), work # <<>>
  PROVE  Visiting(req, dfs, Front(work)) /\ Chained(req, Front(work))
  <1> DEFINE w == Len(work)
             less == Front(work)
  <1>1. /\ Len(less) = w - 1 /\ w \in Nat \ {0}
        /\ \A k \in 1 .. w - 1 : less[k] = work[k] /\ k \in 1 .. w /\ k < w
    BY WorkFront
  <1> HIDE DEF less
  <1>2. Visiting(req, dfs, less)
    <2> SUFFICES ASSUME NEW k \in 1 .. w - 1
                 PROVE  /\ less[k].module \in ToSet(dfs)
                        /\ \A l \in 1 .. w - 1 : k < l =>
                             At(dfs, less, k) < At(dfs, less, l) /\ Goes(req, less[k].module, less[l].module)
      BY <1>1, Zenon DEF Visiting
    <2>1. less[k].module \in ToSet(dfs)
      BY <1>1, Zenon DEF Core, Visiting
    <2>2. ASSUME NEW l \in 1 .. w - 1, k < l
          PROVE  At(dfs, less, k) < At(dfs, less, l) /\ Goes(req, less[k].module, less[l].module)
      <3>1. At(dfs, work, k) < At(dfs, work, l) /\ Goes(req, work[k].module, work[l].module)
        BY <1>1, <2>2, Zenon DEF Core, Visiting
      <3> QED BY <1>1, <3>1 DEF At
    <2> QED BY <2>1, <2>2
  <1>3. Chained(req, less)
    <2> SUFFICES ASSUME NEW k \in 1 .. w - 1, k < w - 1
                 PROVE  /\ less[k].next \in 1 .. Len(req[less[k].module])
                        /\ req[less[k].module][less[k].next] = less[k + 1].module
      BY <1>1, Zenon DEF Chained
    <2>1. k \in 1 .. w /\ k < w /\ k + 1 \in 1 .. w - 1
      BY <1>1
    <2>2. less[k] = work[k] /\ less[k + 1] = work[k + 1]
      BY <1>1, <2>1
    <2> QED BY <2>1, <2>2 DEF Core, Chained
  <1> QED BY <1>2, <1>3 DEF less

\* The last visit ends and its module stays on the stack.
LEMMA CoreStays ==
  ASSUME NEW req, Graph(req), NEW ix, Indices(req, ix), NEW an, Indices(req, an),
         NEW dfs, NEW work, Core(req, ix, an, dfs, work), work # <<>>,
         an[work[Len(work)].module] # ix[work[Len(work)].module]
  PROVE  Core(req, ix, an, dfs, Front(work))
  <1> DEFINE w == Len(work)
             me == work[w].module
             less == Front(work)
  <1>1. /\ less \in Seq(Visits(DOMAIN req)) /\ Len(less) = w - 1 /\ w \in Nat \ {0}
        /\ me \in ToSet(dfs)
        /\ \A k \in 1 .. w - 1 : /\ less[k] = work[k] /\ At(dfs, work, k) < At(dfs, work, w)
                                 /\ k \in 1 .. w
        /\ At(dfs, work, w) \in 1 .. Len(dfs)
    BY WorkFront
  <1>2. Visiting(req, dfs, less) /\ Chained(req, less)
    BY LessVisiting
  <1>3. \A m \in ToSet(dfs) : m \in DOMAIN req /\ an[m] \in Int /\ ix[m] \in Int
    BY InSet DEF Core, Indices
  <1>4. \A m \in ToSet(dfs) : Place(dfs, m) \in 1 .. Len(dfs)
    BY PlaceOf DEF Core
  <1>5. \A k \in 1 .. w : work[k].module \in ToSet(dfs)
    BY Zenon DEF Core, Visiting
  <1> HIDE DEF less
  <1>6. \A k : k \in 1 .. w => k \in 1 .. w - 1 \/ k = w
    BY <1>1
  <1>7. an[me] < ix[me]
    <2>1. an[me] <= ix[me]
      BY <1>1 DEF Core
    <2> QED BY <1>1, <1>3, <2>1
  <1>8. PICK k \in 1 .. w - 1 : Holds(req, ix, an, dfs, work, me, k)
    <2>1. PICK k \in 1 .. w : Holds(req, ix, an, dfs, work, me, k)
      BY <1>1, Zenon DEF Core
    <2>2. k # w
      <3>1. ix[work[k].module] <= an[me]
        BY <2>1 DEF Holds
      <3>2. k = w => work[k].module = me
        OBVIOUS
      <3>3. an[me] \in Int /\ ix[me] \in Int
        BY <1>1, <1>3
      <3> HIDE DEF me
      <3> QED BY <1>7, <3>1, <3>2, <3>3
    <2> QED BY <1>6, <2>1, <2>2
  <1>9. \A m \in ToSet(dfs) : \E l \in 1 .. w - 1 : Holds(req, ix, an, dfs, less, m, l)
    <2> TAKE m \in ToSet(dfs)
    <2>1. PICK l \in 1 .. w : Holds(req, ix, an, dfs, work, m, l)
      BY Zenon DEF Core
    <2>2. CASE l \in 1 .. w - 1
      <3>1. Holds(req, ix, an, dfs, less, m, l)
        BY <1>1, <2>1, <2>2 DEF Holds, At
      <3> QED BY <2>2, <3>1
    <2>3. CASE l = w
      <3>1. At(dfs, work, w) <= Place(dfs, m) /\ ix[me] <= an[m] /\ (m = me \/ Goes(req, m, me))
        BY <2>1, <2>3 DEF Holds
      <3>2. ix[work[k].module] <= an[me] /\ (me = work[k].module \/ Goes(req, me, work[k].module))
        BY <1>8 DEF Holds
      <3>3. At(dfs, work, k) <= Place(dfs, m)
        <4>1. At(dfs, work, k) \in 1 .. Len(dfs) /\ Place(dfs, m) \in 1 .. Len(dfs)
          BY <1>1, <1>4, <1>5 DEF At
        <4>2. At(dfs, work, k) < At(dfs, work, w)
          BY <1>1
        <4> QED BY <1>1, <3>1, <4>1, <4>2
      <3>4. ix[work[k].module] <= an[m]
        <4>1. work[k].module \in ToSet(dfs)
          BY <1>1, <1>5
        <4>2. ix[work[k].module] \in Int /\ an[me] \in Int /\ ix[me] \in Int /\ an[m] \in Int
          BY <1>1, <1>3, <4>1
        <4> HIDE DEF me
        <4> QED BY <1>7, <3>1, <3>2, <4>2
      <3>5. m = work[k].module \/ Goes(req, m, work[k].module)
        <4>1. me \in DOMAIN req
          BY <1>1, <1>3
        <4> HIDE DEF me
        <4> QED BY <3>1, <3>2, <4>1, GoesThrough, Zenon
      <3>6. Holds(req, ix, an, dfs, less, m, k)
        BY <1>1, <3>3, <3>4, <3>5 DEF Holds, At
      <3> QED BY <3>6
    <2> QED BY <1>6, <2>2, <2>3
  <1>10. Core(req, ix, an, dfs, less)
    BY <1>1, <1>2, <1>9 DEF Core
  <1> QED BY <1>10 DEF less

\* The last visit ends and its component leaves the stack.
LEMMA CorePops ==
  ASSUME NEW req, NEW ix, NEW an, NEW dfs, NEW work, Core(req, ix, an, dfs, work), work # <<>>
  PROVE  LET me == work[Len(work)].module
         IN /\ Core(req, ix, an, Rest(dfs, me), Front(work))
            /\ \A m : m \in ToSet(Rest(dfs, me)) <=> m \in ToSet(dfs) /\ Place(dfs, m) < Place(dfs, me)
            /\ \A m \in ToSet(Rest(dfs, me)) : Place(Rest(dfs, me), m) = Place(dfs, m)
            /\ \A m : m \in Popped(dfs, me) <=> m \in ToSet(dfs) /\ Place(dfs, m) >= Place(dfs, me)
            /\ Rest(dfs, me) \in Seq(DOMAIN req)
  <1> DEFINE w == Len(work)
             me == work[w].module
             p == Place(dfs, me)
             left == Rest(dfs, me)
             less == Front(work)
  <1>1. /\ less \in Seq(Visits(DOMAIN req)) /\ Len(less) = w - 1 /\ w \in Nat \ {0}
        /\ me \in ToSet(dfs) /\ p \in 1 .. Len(dfs)
        /\ \A k \in 1 .. w - 1 : /\ less[k] = work[k] /\ At(dfs, work, k) < p
                                 /\ k \in 1 .. w
    BY WorkFront DEF At
  <1>2. Visiting(req, dfs, less) /\ Chained(req, less)
    BY LessVisiting
  <1>3. dfs \in Seq(DOMAIN req) /\ Once(dfs) /\ Len(dfs) \in Nat
    BY LenProperties DEF Core
  <1>4. left \in Seq(DOMAIN req) /\ Once(left)
    <2> HIDE DEF p, me
    <2>1. SubSeq(dfs, 1, p - 1) \in Seq(DOMAIN req) /\ Once(SubSeq(dfs, 1, p - 1))
      BY <1>1, <1>3, Cut
    <2> QED BY <2>1 DEF Rest, p
  <1>5. /\ \A m : m \in ToSet(left) <=> m \in ToSet(dfs) /\ Place(dfs, m) < p
        /\ \A m \in ToSet(left) : Place(left, m) = Place(dfs, m)
    <2> HIDE DEF p, me
    <2>1. /\ \A m : m \in ToSet(SubSeq(dfs, 1, p - 1)) <=> m \in ToSet(dfs) /\ Place(dfs, m) < p
          /\ \A m \in ToSet(SubSeq(dfs, 1, p - 1)) : Place(SubSeq(dfs, 1, p - 1), m) = Place(dfs, m)
      BY <1>1, <1>3, PlaceCut
    <2> QED BY <2>1 DEF Rest, p
  <1>6. \A m \in ToSet(dfs) : Place(dfs, m) \in 1 .. Len(dfs) /\ dfs[Place(dfs, m)] = m
    BY <1>3, PlaceOf
  <1>7. \A m : m \in Popped(dfs, me) <=> m \in ToSet(dfs) /\ Place(dfs, m) >= p
    <2> TAKE m
    <2> HIDE DEF me
    <2>1. ASSUME m \in Popped(dfs, me)
          PROVE  m \in ToSet(dfs) /\ Place(dfs, m) >= p
      <3>1. PICK i \in p .. Len(dfs) : m = dfs[i]
        BY <2>1 DEF Popped
      <3>2. i \in 1 .. Len(dfs)
        BY <1>1, <1>3
      <3>3. m \in ToSet(dfs) /\ Place(dfs, m) = i
        BY <1>3, <3>1, <3>2, InSet, PlaceIs
      <3> QED BY <1>1, <1>3, <3>3
    <2>2. ASSUME m \in ToSet(dfs), Place(dfs, m) >= p
          PROVE  m \in Popped(dfs, me)
      <3>1. Place(dfs, m) \in p .. Len(dfs) /\ dfs[Place(dfs, m)] = m
        BY <1>1, <1>3, <1>6, <2>2
      <3> QED BY <3>1 DEF Popped
    <2> QED BY <2>1, <2>2
  <1> HIDE DEF less, left
  <1>8. \A k \in 1 .. w - 1 : /\ less[k].module \in ToSet(left)
                              /\ At(left, less, k) = At(dfs, less, k)
    <2> TAKE k \in 1 .. w - 1
    <2>1. less[k].module \in ToSet(dfs) /\ At(dfs, less, k) < p
      BY <1>1, <1>2 DEF Visiting, At
    <2> QED BY <1>5, <2>1 DEF At
  <1>9. Visiting(req, left, less)
    BY <1>1, <1>2, <1>8 DEF Visiting
  <1>10. \A m \in ToSet(left) : an[m] <= ix[m]
    BY <1>5 DEF Core
  <1>11. \A m \in ToSet(left) : \E k \in 1 .. Len(less) : Holds(req, ix, an, left, less, m, k)
    <2> TAKE m \in ToSet(left)
    <2>1. m \in ToSet(dfs) /\ Place(dfs, m) < p /\ Place(left, m) = Place(dfs, m)
      BY <1>5
    <2>2. PICK k \in 1 .. w : Holds(req, ix, an, dfs, work, m, k)
      BY <2>1, Zenon DEF Core
    <2>3. k # w
      <3>1. At(dfs, work, k) <= Place(dfs, m)
        BY <2>2 DEF Holds
      <3>2. Place(dfs, m) \in Int /\ p \in Int
        BY <1>1, <1>6, <2>1
      <3>3. At(dfs, work, w) = p
        BY DEF At
      <3> QED BY <2>1, <3>1, <3>2, <3>3
    <2>4. k \in 1 .. w - 1
      BY <1>1, <2>3
    <2>5. At(left, less, k) = At(dfs, work, k) /\ less[k] = work[k]
      BY <1>1, <1>8, <2>4 DEF At
    <2>6. Holds(req, ix, an, left, less, m, k)
      BY <2>1, <2>2, <2>5 DEF Holds
    <2> QED BY <1>1, <2>4, <2>6
  <1>12. Core(req, ix, an, left, less)
    BY <1>1, <1>2, <1>4, <1>9, <1>10, <1>11 DEF Core
  <1> QED BY <1>4, <1>5, <1>7, <1>12 DEF less, left, p, me, w

\* The module a search began with is a root when its visit ends.
LEMMA RootFirst ==
  ASSUME NEW req, NEW ix, Indices(req, ix), NEW an, Indices(req, an),
         NEW dfs, NEW work, Core(req, ix, an, dfs, work), Len(work) = 1
  PROVE  an[work[1].module] = ix[work[1].module]
  <1> DEFINE me == work[1].module
  <1>1. me \in ToSet(dfs)
    BY DEF Core, Visiting
  <1>2. PICK k \in 1 .. Len(work) : Holds(req, ix, an, dfs, work, me, k)
    BY <1>1, Zenon DEF Core
  <1>3. k = 1
    OBVIOUS
  <1>4. ix[me] <= an[me] /\ an[me] <= ix[me]
    BY <1>1, <1>2, <1>3 DEF Holds, Core
  <1>5. ix[me] \in Int /\ an[me] \in Int
    BY <1>1, InSet DEF Core, Indices
  <1> QED BY <1>4, <1>5

-----------------------------------------------------------------------------
(* A search of Link: n is the index it gives to the next module *)

Settled(st, r) == st[r] \notin {"Unlinked", "Linking"}

\* The required module j of m has been dealt with.
Handled(work, m, j) == \A k \in 1 .. Len(work) : work[k].module = m => j < work[k].next

\* Indices grow along the stack.
Rising(ix, dfs, n) ==
  /\ \A i, j \in 1 .. Len(dfs) : i < j => ix[dfs[i]] < ix[dfs[j]]
  /\ \A i \in 1 .. Len(dfs) : ix[dfs[i]] < n

\* m is on the stack between visit k and the next one.
Above(dfs, work, k, m) ==
  At(dfs, work, k) < Place(dfs, m) /\ (k < Len(work) => Place(dfs, m) < At(dfs, work, k + 1))

\* The last visit has still to take over an ancestor index as low as that of m.
Waits(req, an, dfs, work, m) ==
  LET v == work[Len(work)]
      r == req[v.module][v.next]
  IN v.next \in 1 .. Len(req[v.module]) /\ r \in ToSet(dfs) /\ an[r] <= an[m]

\* Each visit knows the lowest ancestor index of what it left on the stack.
Segments(req, an, dfs, work) == \A k \in 1 .. Len(work) : \A m \in ToSet(dfs) :
  Above(dfs, work, k, m) =>
    an[work[k].module] <= an[m] \/ (k = Len(work) /\ Waits(req, an, dfs, work, m))

\* A required module that was dealt with is linked, or on the stack with an
\* index the module that requires it has taken into account.
Edges(req, st, ix, an, dfs, work) == \A m \in ToSet(dfs) : \A j \in 1 .. Len(req[m]) :
  Handled(work, m, j) =>
    Settled(st, req[m][j]) \/ (req[m][j] \in ToSet(dfs) /\ an[m] <= ix[req[m][j]])

Linkage(req, st, ix, an, dfs, work, n) ==
  /\ Core(req, ix, an, dfs, work) /\ n \in Int
  /\ Rising(ix, dfs, n) /\ Segments(req, an, dfs, work) /\ Edges(req, st, ix, an, dfs, work)
  /\ \A m \in Modules : st[m] = "Linking" <=> m \in ToSet(dfs)

\* The same visits, the last one at its next required module.
Onward(work) == [work EXCEPT ![Len(work)] = [Last(work) EXCEPT !.next = Last(work).next + 1]]

LEMMA OnwardIs ==
  ASSUME NEW req, NEW work \in Seq(Visits(DOMAIN req)), work # <<>>
  PROVE  /\ Onward(work) \in Seq(Visits(DOMAIN req)) /\ Len(Onward(work)) = Len(work)
         /\ \A k \in 1 .. Len(work) : Onward(work)[k].module = work[k].module
         /\ \A k \in 1 .. Len(work) : Onward(work)[k].body = work[k].body
         /\ \A k \in 1 .. Len(work) : k < Len(work) => Onward(work)[k].next = work[k].next
         /\ Onward(work)[Len(work)].next = work[Len(work)].next + 1
         /\ Onward(work) # <<>>
  <1> DEFINE w == Len(work)
             v == work[w]
             v2 == [v EXCEPT !.next = v.next + 1]
             work2 == [work EXCEPT ![w] = v2]
  <1>1. w \in Nat /\ w \in 1 .. w /\ \A k \in 1 .. w : work[k] \in Visits(DOMAIN req)
    BY VisitTypes
  <1>2. v2 \in Visits(DOMAIN req) /\ v2.module = v.module /\ v2.next = v.next + 1 /\ v2.body = v.body
    <2>1. v \in Visits(DOMAIN req)
      BY <1>1
    <2> HIDE DEF v
    <2> QED BY <2>1 DEF Visits
  <1> HIDE DEF v2
  <1>3. /\ work2 \in Seq(Visits(DOMAIN req)) /\ Len(work2) = w
        /\ \A k \in 1 .. w : work2[k] = IF k = w THEN v2 ELSE work[k]
    BY <1>1, <1>2, ExceptSeq
  <1> HIDE DEF work2
  <1>4. work2 # <<>>
    BY <1>1, <1>3
  <1>5. \A k \in 1 .. w : /\ work2[k].module = work[k].module /\ work2[k].body = work[k].body
                          /\ k < w => work2[k].next = work[k].next
    <2> TAKE k \in 1 .. w
    <2>1. CASE k = w
      BY <1>2, <1>3, <2>1
    <2>2. CASE k # w
      BY <1>3, <2>2
    <2> QED BY <2>1, <2>2
  <1>6. work2[w].next = v.next + 1
    BY <1>1, <1>2, <1>3
  <1>7. Onward(work) = work2
    BY DEF Onward, Last, work2, v2
  <1> HIDE DEF v, w
  <1>8. v.next = work[w].next
    BY DEF v
  <1> QED BY <1>3, <1>4, <1>5, <1>6, <1>7, <1>8 DEF w

\* Link begins.
LEMMA LinkBegins ==
  ASSUME NEW req, Graph(req), NEW st \in [Modules -> Statuses], NEW ix, Indices(req, ix), NEW an,
         Indices(req, an), NEW m \in DOMAIN req, \A r \in Modules : st[r] # "Linking"
  PROVE  Linkage(req, [st EXCEPT ![m] = "Linking"], [ix EXCEPT ![m] = 0], [an EXCEPT ![m] = 0],
                 <<m>>, <<Visit(m)>>, 1)
  <1> DEFINE dfs == <<m>>
             work == <<Visit(m)>>
             st2 == [st EXCEPT ![m] = "Linking"]
             ix2 == [ix EXCEPT ![m] = 0]
             an2 == [an EXCEPT ![m] = 0]
  <1>1. m \in Modules /\ ix2[m] = 0 /\ an2[m] = 0
    BY DEF Indices
  <1>2. \A r \in Modules : st2[r] = "Linking" <=> r = m
    BY <1>1
  <1> HIDE DEF st2, ix2, an2
  <1>3. Core(req, ix2, an2, dfs, work)
    BY <1>1, CoreBegins
  <1>4. Len(dfs) = 1 /\ dfs[1] = m /\ ToSet(dfs) = {m} /\ Len(work) = 1 /\ work[1] = Visit(m)
    BY DEF ToSet
  <1> HIDE DEF dfs, work
  <1>5. Rising(ix2, dfs, 1)
    BY <1>1, <1>4 DEF Rising
  <1>6. Place(dfs, m) \in Int
    <2>1. Place(dfs, m) \in 1 .. Len(dfs)
      BY <1>3, <1>4, PlaceOf DEF Core
    <2> QED BY <2>1
  <1>7. Segments(req, an2, dfs, work)
    BY <1>4, <1>6 DEF Segments, Above, At, Visit
  <1>8. Edges(req, st2, ix2, an2, dfs, work)
    <2>1. \A j \in 1 .. Len(req[m]) : ~Handled(work, m, j)
      <3> TAKE j \in 1 .. Len(req[m])
      <3>1. 1 \in 1 .. Len(work) /\ work[1].module = m /\ work[1].next = 1
        BY <1>4 DEF Visit
      <3>2. ~(j < 1)
        OBVIOUS
      <3> QED BY <3>1, <3>2 DEF Handled
    <2> QED BY <1>4, <2>1, Zenon DEF Edges
  <1> QED BY <1>2, <1>3, <1>4, <1>5, <1>7, <1>8 DEF Linkage, dfs, work, st2, ix2, an2

LEMMA EdgeIs ==
  ASSUME NEW req, Graph(req), NEW m \in DOMAIN req, NEW j \in 1 .. Len(req[m])
  PROVE  req[m][j] \in DOMAIN req /\ req[m][j] \in ToSet(req[m])
  <1>1. req[m] \in Seq(DOMAIN req)
    BY DEF Graph
  <1> QED BY <1>1, InSet, ElementOfSeq

\* What a visit that begins does to the stacks.
LEMMA Entered ==
  ASSUME NEW req, NEW ix, NEW an, NEW dfs, NEW work, Core(req, ix, an, dfs, work), work # <<>>,
         NEW x \in DOMAIN req, x \notin ToSet(dfs)
  PROVE  /\ Len(dfs) \in Nat /\ Len(Append(dfs, x)) = Len(dfs) + 1
         /\ ToSet(Append(dfs, x)) = ToSet(dfs) \cup {x}
         /\ \A i \in 1 .. Len(dfs) : Append(dfs, x)[i] = dfs[i] /\ dfs[i] \in ToSet(dfs)
         /\ Append(dfs, x)[Len(dfs) + 1] = x
         /\ \A m \in ToSet(dfs) : Place(Append(dfs, x), m) = Place(dfs, m) /\ Place(dfs, m) \in 1 .. Len(dfs)
         /\ Place(Append(dfs, x), x) = Len(dfs) + 1
         /\ Len(Append(work, Visit(x))) = Len(work) + 1 /\ Len(work) \in Nat \ {0}
         /\ \A k \in 1 .. Len(work) :
              /\ Append(work, Visit(x))[k] = work[k] /\ work[k].module \in ToSet(dfs)
              /\ At(Append(dfs, x), Append(work, Visit(x)), k) = At(dfs, work, k)
              /\ At(dfs, work, k) \in 1 .. Len(dfs)
         /\ Append(work, Visit(x))[Len(work) + 1] = Visit(x)
         /\ At(Append(dfs, x), Append(work, Visit(x)), Len(work) + 1) = Len(dfs) + 1
  <1> DEFINE dfs2 == Append(dfs, x)
             work2 == Append(work, Visit(x))
             w == Len(work)
  <1>1. dfs \in Seq(DOMAIN req) /\ work \in Seq(Visits(DOMAIN req)) /\ Once(dfs)
        /\ Visiting(req, dfs, work)
    BY DEF Core
  <1>2. /\ dfs2 \in Seq(DOMAIN req) /\ Len(dfs2) = Len(dfs) + 1
        /\ ToSet(dfs2) = ToSet(dfs) \cup {x}
        /\ \A i \in 1 .. Len(dfs) : dfs2[i] = dfs[i]
        /\ dfs2[Len(dfs) + 1] = x
    BY <1>1, Pushed
  <1>3. /\ \A m \in ToSet(dfs) : Place(dfs2, m) = Place(dfs, m) /\ Place(dfs, m) \in 1 .. Len(dfs)
        /\ Place(dfs2, x) = Len(dfs) + 1
    BY <1>1, PlacePushed
  <1>4. Len(dfs) \in Nat /\ \A i \in 1 .. Len(dfs) : dfs[i] \in ToSet(dfs)
    BY <1>1, InSet, LenProperties
  <1>5. Visit(x) \in Visits(DOMAIN req) /\ Visit(x).module = x
    BY DEF Visits, Visit
  <1>6. /\ work2 \in Seq(Visits(DOMAIN req)) /\ Len(work2) = w + 1 /\ w \in Nat \ {0}
        /\ \A k \in 1 .. w : work2[k] = work[k]
        /\ work2[w + 1] = Visit(x)
    BY <1>1, <1>5, AppendProperties
  <1> HIDE DEF dfs2, work2
  <1>7. \A k \in 1 .. w : /\ work[k].module \in ToSet(dfs)
                          /\ At(dfs2, work2, k) = At(dfs, work, k)
                          /\ At(dfs, work, k) \in 1 .. Len(dfs)
    BY <1>1, <1>3, <1>6 DEF At, Visiting
  <1>8. At(dfs2, work2, w + 1) = Len(dfs) + 1
    BY <1>3, <1>5, <1>6 DEF At
  <1> QED BY <1>2, <1>3, <1>4, <1>6, <1>7, <1>8 DEF dfs2, work2, w

LEMMA EnteredFirst ==
  ASSUME NEW req, NEW ix, NEW an, NEW dfs, NEW work, Core(req, ix, an, dfs, work), work # <<>>,
         NEW x \in DOMAIN req, x \notin ToSet(dfs)
  PROVE  /\ ToSet(Append(dfs, x)) = ToSet(dfs) \cup {x}
         /\ Append(work, Visit(x)) # <<>> /\ Append(work, Visit(x))[1] = work[1]
         /\ At(Append(dfs, x), Append(work, Visit(x)), 1) = At(dfs, work, 1)
  <1>1. /\ ToSet(Append(dfs, x)) = ToSet(dfs) \cup {x}
        /\ Len(Append(work, Visit(x))) = Len(work) + 1 /\ Len(work) \in Nat \ {0}
        /\ \A k \in 1 .. Len(work) :
              /\ Append(work, Visit(x))[k] = work[k]
              /\ At(Append(dfs, x), Append(work, Visit(x)), k) = At(dfs, work, k)
    BY Entered
  <1>2. 1 \in 1 .. Len(work)
    BY <1>1
  <1>3. ASSUME NEW w, Len(w) = Len(work) + 1
        PROVE  w # <<>>
    BY <1>1, <1>3
  <1> QED BY <1>1, <1>2, <1>3

\* The visit of a required module that is not linked begins.
LEMMA LinkEnters ==
  ASSUME NEW req, Graph(req), NEW st \in [Modules -> Statuses], NEW ix, Indices(req, ix), NEW an,
         Indices(req, an), NEW n, NEW dfs, NEW work, Linkage(req, st, ix, an, dfs, work, n),
         work # <<>>, work[Len(work)].next \in 1 .. Len(req[work[Len(work)].module]),
         NEW x, x = req[work[Len(work)].module][work[Len(work)].next], st[x] = "Unlinked"
  PROVE  /\ Linkage(req, [st EXCEPT ![x] = "Linking"], [ix EXCEPT ![x] = n], [an EXCEPT ![x] = n],
                    Append(dfs, x), Append(work, Visit(x)), n + 1)
         /\ x \in DOMAIN req /\ x \notin ToSet(dfs)
  <1> DEFINE w == Len(work)
             me == work[w].module
             st2 == [st EXCEPT ![x] = "Linking"]
             ix2 == [ix EXCEPT ![x] = n]
             an2 == [an EXCEPT ![x] = n]
             dfs2 == Append(dfs, x)
             work2 == Append(work, Visit(x))
  <1>1. /\ Core(req, ix, an, dfs, work) /\ n \in Int
        /\ Rising(ix, dfs, n) /\ Segments(req, an, dfs, work) /\ Edges(req, st, ix, an, dfs, work)
        /\ \A m \in Modules : st[m] = "Linking" <=> m \in ToSet(dfs)
    BY Zenon DEF Linkage
  <1>2. me \in DOMAIN req /\ \A m \in ToSet(dfs) : m \in DOMAIN req
    <2>1. work[w].module \in ToSet(dfs)
      BY <1>1, WorkFront
    <2>2. dfs \in Seq(DOMAIN req)
      BY <1>1, Zenon DEF Core
    <2>3. \A m \in ToSet(dfs) : m \in DOMAIN req
      BY <2>2, InSet
    <2> QED BY <2>1, <2>3
  <1>3. x \in DOMAIN req /\ x \in Modules /\ x \notin ToSet(dfs)
    <2>1. x \in DOMAIN req
      BY <1>2, EdgeIs
    <2> QED BY <1>1, <2>1 DEF Indices
  <1>4. Core(req, ix2, an2, dfs2, work2)
    BY <1>1, <1>3, CoreEnters, Zenon
  <1>5. /\ Len(dfs) \in Nat /\ Len(dfs2) = Len(dfs) + 1
        /\ ToSet(dfs2) = ToSet(dfs) \cup {x}
        /\ \A i \in 1 .. Len(dfs) : dfs2[i] = dfs[i] /\ dfs[i] \in ToSet(dfs)
        /\ dfs2[Len(dfs) + 1] = x
        /\ \A m \in ToSet(dfs) : Place(dfs2, m) = Place(dfs, m) /\ Place(dfs, m) \in 1 .. Len(dfs)
        /\ Place(dfs2, x) = Len(dfs) + 1
        /\ Len(work2) = w + 1 /\ w \in Nat \ {0}
        /\ \A k \in 1 .. w : /\ work2[k] = work[k] /\ work[k].module \in ToSet(dfs)
                             /\ At(dfs2, work2, k) = At(dfs, work, k)
                             /\ At(dfs, work, k) \in 1 .. Len(dfs)
        /\ work2[w + 1] = Visit(x)
        /\ At(dfs2, work2, w + 1) = Len(dfs) + 1
    <2>1. Core(req, ix, an, dfs, work) /\ work # <<>> /\ x \in DOMAIN req /\ x \notin ToSet(dfs)
      BY <1>1, <1>3
    <2> QED BY ONLY <2>1, Entered
  <1>6. /\ ix2[x] = n /\ an2[x] = n /\ st2[x] = "Linking"
        /\ \A m \in ToSet(dfs) : ix2[m] = ix[m] /\ an2[m] = an[m]
        /\ \A m \in Modules : m # x => st2[m] = st[m]
    BY <1>3 DEF Indices
  <1> HIDE DEF dfs2, work2, st2, ix2, an2
  <1>7. Rising(ix2, dfs2, n + 1)
    <2>1. \A i \in 1 .. Len(dfs) : ix2[dfs2[i]] = ix[dfs[i]] /\ ix[dfs[i]] < n /\ ix[dfs[i]] \in Int
      <3>1. \A m \in ToSet(dfs) : ix[m] \in Int
        BY <1>2 DEF Indices
      <3> QED BY <1>1, <1>5, <1>6, <3>1 DEF Rising
    <2>2. ix2[dfs2[Len(dfs) + 1]] = n
      BY <1>5, <1>6
    <2>3. \A i : i \in 1 .. Len(dfs2) <=> i \in 1 .. Len(dfs) \/ i = Len(dfs) + 1
      BY <1>5
    <2>4. \A i, j \in 1 .. Len(dfs2) : i < j => ix2[dfs2[i]] < ix2[dfs2[j]]
      <3> SUFFICES ASSUME NEW i \in 1 .. Len(dfs2), NEW j \in 1 .. Len(dfs2), i < j
                   PROVE  ix2[dfs2[i]] < ix2[dfs2[j]]
        OBVIOUS
      <3>1. i \in 1 .. Len(dfs)
        BY <1>5
      <3>2. CASE j \in 1 .. Len(dfs)
        BY <1>1, <2>1, <3>1, <3>2 DEF Rising
      <3>3. CASE j = Len(dfs) + 1
        BY <2>1, <2>2, <3>1, <3>3
      <3> QED BY <2>3, <3>2, <3>3
    <2>5. \A i \in 1 .. Len(dfs2) : ix2[dfs2[i]] < n + 1
      BY <1>1, <2>1, <2>2, <2>3
    <2> QED BY <2>4, <2>5 DEF Rising
  <1>8. Segments(req, an2, dfs2, work2)
    <2> SUFFICES ASSUME NEW k \in 1 .. w + 1, NEW m \in ToSet(dfs2), Above(dfs2, work2, k, m)
                 PROVE  an2[work2[k].module] <= an2[m]
      BY <1>5, Zenon DEF Segments
    <2>1. /\ At(dfs2, work2, k) < Place(dfs2, m)
          /\ k < w + 1 => Place(dfs2, m) < At(dfs2, work2, k + 1)
      BY <1>5 DEF Above
    <2>2. k # w + 1
      BY <1>5, <2>1
    <2>3. k \in 1 .. w /\ k < w + 1
      BY <1>5, <2>2
    <2>4. CASE m = x
      <3>1. Len(dfs) + 1 < At(dfs2, work2, k + 1)
        BY <1>5, <2>1, <2>3, <2>4
      <3>2. CASE k = w
        BY <1>5, <3>1, <3>2
      <3>3. CASE k # w
        <4>1. k + 1 \in 1 .. w
          BY <1>5, <2>3, <3>3
        <4>2. At(dfs2, work2, k + 1) \in 1 .. Len(dfs)
          BY <1>5, <4>1
        <4> QED BY <1>5, <3>1, <4>2
      <3> QED BY <3>2, <3>3
    <2>5. CASE m \in ToSet(dfs)
      <3>1. Above(dfs, work, k, m)
        <4>1. At(dfs, work, k) < Place(dfs, m)
          BY <1>5, <2>1, <2>3, <2>5
        <4>2. ASSUME k < w PROVE Place(dfs, m) < At(dfs, work, k + 1)
          <5>1. k + 1 \in 1 .. w
            BY <1>5, <2>3, <4>2
          <5> QED BY <1>5, <2>1, <2>3, <2>5, <5>1
        <4> QED BY <4>1, <4>2 DEF Above
      <3>2. ~Waits(req, an, dfs, work, m)
        BY <1>3 DEF Waits
      <3>3. an[work[k].module] <= an[m]
        BY <1>1, <2>3, <2>5, <3>1, <3>2, Zenon DEF Segments
      <3> QED BY <1>5, <1>6, <2>3, <2>5, <3>3
    <2> QED BY <1>5, <2>4, <2>5
  <1>9. Edges(req, st2, ix2, an2, dfs2, work2)
    <2> SUFFICES ASSUME NEW m \in ToSet(dfs2), NEW j \in 1 .. Len(req[m]), Handled(work2, m, j)
                 PROVE  \/ Settled(st2, req[m][j])
                        \/ req[m][j] \in ToSet(dfs2) /\ an2[m] <= ix2[req[m][j]]
      BY Zenon DEF Edges
    <2>1. m # x
      <3>1. w + 1 \in 1 .. Len(work2) /\ work2[w + 1].module = x /\ work2[w + 1].next = 1
        BY <1>5 DEF Visit
      <3>2. ~(j < 1)
        OBVIOUS
      <3> QED BY <3>1, <3>2 DEF Handled
    <2>2. m \in ToSet(dfs)
      BY <1>5, <2>1
    <2>3. Handled(work, m, j)
      <3>1. \A k \in 1 .. w : k \in 1 .. Len(work2) /\ work2[k] = work[k]
        BY <1>5
      <3> QED BY <3>1 DEF Handled
    <2>4. req[m][j] \in Modules
      BY <1>2, <2>2, EdgeIs DEF Indices
    <2>5. CASE Settled(st, req[m][j])
      <3>1. req[m][j] # x
        BY <2>5 DEF Settled
      <3> QED BY <1>6, <2>4, <2>5, <3>1 DEF Settled
    <2>6. CASE req[m][j] \in ToSet(dfs) /\ an[m] <= ix[req[m][j]]
      BY <1>5, <1>6, <2>2, <2>6
    <2> QED BY <1>1, <2>2, <2>3, <2>5, <2>6, Zenon DEF Edges
  <1>10. \A m \in Modules : st2[m] = "Linking" <=> m \in ToSet(dfs2)
    BY <1>1, <1>5, <1>6
  <1>11. Linkage(req, st2, ix2, an2, dfs2, work2, n + 1)
    BY <1>1, <1>4, <1>7, <1>8, <1>9, <1>10 DEF Linkage
  <1> QED BY <1>3, <1>11 DEF dfs2, work2, st2, ix2, an2

\* The edges that have been dealt with when the last visit goes on.
LEMMA HandledOnward ==
  ASSUME NEW req, NEW ix, NEW an, NEW dfs, NEW work, Core(req, ix, an, dfs, work), work # <<>>,
         NEW m, NEW j \in Int, Handled(Onward(work), m, j)
  PROVE  \/ Handled(work, m, j)
         \/ m = work[Len(work)].module /\ j = work[Len(work)].next
  <1> DEFINE w == Len(work)
             work2 == Onward(work)
  <1>1. /\ Len(work2) = w /\ w \in 1 .. w
        /\ \A k \in 1 .. w : work2[k].module = work[k].module /\ (k < w => work2[k].next = work[k].next)
        /\ work2[w].next = work[w].next + 1
        /\ \A k \in 1 .. w : k # w => k < w
        /\ work[w].next \in Int
    <2>1. work \in Seq(Visits(DOMAIN req))
      BY Zenon DEF Core
    <2>2. /\ w \in Nat /\ w \in 1 .. w
          /\ \A k \in 1 .. w : work[k].next \in Nat \ {0}
      BY <2>1, VisitTypes
    <2>3. /\ Len(work2) = w /\ \A k \in 1 .. w : work2[k].module = work[k].module
          /\ \A k \in 1 .. w : k < w => work2[k].next = work[k].next
          /\ work2[w].next = work[w].next + 1
      BY <2>1, OnwardIs
    <2> HIDE DEF work2, w
    <2>4. \A k \in 1 .. w : k # w => k < w
      BY <2>2
    <2> QED BY <2>2, <2>3, <2>4
  <1> HIDE DEF work2, w
  <1>2. ASSUME NEW k \in 1 .. w, k # w, work[k].module = m
        PROVE  j < work[k].next
    BY <1>1, <1>2 DEF Handled, work2
  <1>3. CASE m # work[w].module
    BY <1>2, <1>3 DEF Handled, w
  <1>4. CASE m = work[w].module
    <2>1. j < work[w].next + 1
      BY <1>1, <1>4 DEF Handled, work2
    <2>2. CASE j = work[w].next
      BY <1>4, <2>2 DEF w
    <2>3. CASE j < work[w].next
      BY <1>2, <2>3 DEF Handled, w
    <2> QED BY <1>1, <2>1, <2>2, <2>3
  <1> QED BY <1>3, <1>4

\* Where the visits of a search are.
LEMMA Onstack ==
  ASSUME NEW req, NEW ix, NEW an, NEW dfs, NEW work, Core(req, ix, an, dfs, work), work # <<>>
  PROVE  /\ \A k \in 1 .. Len(work) : /\ work[k].module \in ToSet(dfs)
                                      /\ At(dfs, work, k) = Place(dfs, work[k].module)
                                      /\ At(dfs, work, k) \in 1 .. Len(dfs)
                                      /\ At(dfs, work, k) <= At(dfs, work, Len(work))
         /\ \A m \in ToSet(dfs) : Place(dfs, m) \in 1 .. Len(dfs) /\ dfs[Place(dfs, m)] = m
         /\ \A m \in ToSet(dfs) : m \in DOMAIN req
         /\ Len(dfs) \in Nat /\ Len(work) \in Nat /\ Len(work) \in 1 .. Len(work)
  <1>1. \A m \in ToSet(dfs) : Place(dfs, m) \in 1 .. Len(dfs) /\ dfs[Place(dfs, m)] = m
    BY PlaceOf DEF Core
  <1>2. \A m \in ToSet(dfs) : m \in DOMAIN req
    BY InSet DEF Core
  <1>3. Len(dfs) \in Nat /\ Len(work) \in Nat /\ Len(work) \in 1 .. Len(work)
    BY VisitTypes, LenProperties DEF Core
  <1>4. \A k \in 1 .. Len(work) : /\ work[k].module \in ToSet(dfs)
                                  /\ At(dfs, work, k) = Place(dfs, work[k].module)
                                  /\ At(dfs, work, k) \in 1 .. Len(dfs)
    BY <1>1 DEF Core, Visiting, At
  <1>5. \A k \in 1 .. Len(work) : At(dfs, work, k) <= At(dfs, work, Len(work))
    <2> TAKE k \in 1 .. Len(work)
    <2>1. k # Len(work) => k \in 1 .. Len(work) - 1
      BY <1>3
    <2>2. k # Len(work) => At(dfs, work, k) < At(dfs, work, Len(work))
      BY <2>1, WorkFront
    <2> QED BY <1>3, <1>4, <2>2
  <1> QED BY <1>1, <1>2, <1>3, <1>4, <1>5

\* The last visit takes over the ancestor index of a module on the stack.
LEMMA LinkLowers ==
  ASSUME NEW req, Graph(req), NEW st, NEW ix, Indices(req, ix), NEW an, Indices(req, an),
         NEW n, NEW dfs, NEW work, Linkage(req, st, ix, an, dfs, work, n),
         work # <<>>, work[Len(work)].next \in 1 .. Len(req[work[Len(work)].module]),
         NEW r, r = req[work[Len(work)].module][work[Len(work)].next], r \in ToSet(dfs)
  PROVE  LET me == work[Len(work)].module
         IN Linkage(req, st, ix, [an EXCEPT ![me] = IF an[r] < @ THEN an[r] ELSE @], dfs, Onward(work), n)
  <1> DEFINE w == Len(work)
             me == work[w].module
             an2 == [an EXCEPT ![me] = IF an[r] < @ THEN an[r] ELSE @]
             work2 == Onward(work)
  <1>1. /\ Core(req, ix, an, dfs, work) /\ n \in Int
        /\ Rising(ix, dfs, n) /\ Segments(req, an, dfs, work) /\ Edges(req, st, ix, an, dfs, work)
        /\ \A m \in Modules : st[m] = "Linking" <=> m \in ToSet(dfs)
    BY Zenon DEF Linkage
  <1>2. /\ \A k \in 1 .. w : /\ work[k].module \in ToSet(dfs)
                             /\ At(dfs, work, k) = Place(dfs, work[k].module)
                             /\ At(dfs, work, k) \in 1 .. Len(dfs)
                             /\ At(dfs, work, k) <= At(dfs, work, w)
        /\ \A m \in ToSet(dfs) : Place(dfs, m) \in 1 .. Len(dfs)
        /\ \A m \in ToSet(dfs) : m \in DOMAIN req
        /\ Len(dfs) \in Nat /\ w \in Nat /\ w \in 1 .. w
    BY <1>1, Onstack
  <1>3. /\ work2 \in Seq(Visits(DOMAIN req)) /\ Len(work2) = w
        /\ \A k \in 1 .. w : work2[k].module = work[k].module
        /\ \A k \in 1 .. w : k < w => work2[k].next = work[k].next
    BY <1>1, OnwardIs DEF Core
  <1>4. \A m \in ToSet(dfs) : an[m] \in Int /\ ix[m] \in Int /\ an[m] <= ix[m]
    BY <1>1, <1>2 DEF Indices, Core
  <1>5. \A m \in ToSet(dfs) : an2[m] = IF m = me THEN (IF an[r] < an[me] THEN an[r] ELSE an[me]) ELSE an[m]
    BY <1>2 DEF Indices
  <1>6. Core(req, ix, an2, dfs, work)
    <2>1. r \in ToSet(req[me])
      BY <1>2, EdgeIs
    <2> QED BY <1>1, <2>1, CoreLowers, Zenon
  <1> HIDE DEF an2, work2
  <1>7. Core(req, ix, an2, dfs, work2)
    BY <1>3, <1>6, CoreVisits
  <1>8. an2[me] <= an[r] /\ an2[me] <= an[me] /\ an2[me] \in Int /\ \A m \in ToSet(dfs) : an2[m] \in Int
    <2>1. me \in ToSet(dfs) /\ an[me] \in Int /\ an[r] \in Int
      BY <1>2, <1>4
    <2> HIDE DEF me, w
    <2>2. an2[me] = IF an[r] < an[me] THEN an[r] ELSE an[me]
      BY <1>5, <2>1
    <2>3. an2[me] <= an[r] /\ an2[me] <= an[me] /\ an2[me] \in Int
      BY <2>1, <2>2
    <2>4. \A m \in ToSet(dfs) : an2[m] \in Int
      BY <1>4, <1>5, <2>1
    <2> QED BY <2>3, <2>4
  <1>9. Segments(req, an2, dfs, work2)
    <2> SUFFICES ASSUME NEW k \in 1 .. w, NEW m \in ToSet(dfs), Above(dfs, work2, k, m)
                 PROVE  an2[work2[k].module] <= an2[m]
      BY <1>3, Zenon DEF Segments
    <2>1. Above(dfs, work, k, m)
      <3>1. \A l \in 1 .. w : At(dfs, work2, l) = At(dfs, work, l)
        BY <1>3 DEF At
      <3>2. k < w => k + 1 \in 1 .. w
        BY <1>2
      <3> QED BY <1>3, <3>1, <3>2 DEF Above
    <2>2. an[work[k].module] <= an[m] \/ (k = w /\ Waits(req, an, dfs, work, m))
      BY <1>1, <2>1, Zenon DEF Segments
    <2>3. m # me
      <3>1. CASE k = w
        BY <1>2, <2>1, <3>1 DEF Above
      <3>2. CASE k # w
        <4>1. k < w /\ k + 1 \in 1 .. w
          BY <1>2, <3>2
        <4>2. Place(dfs, m) < At(dfs, work, k + 1) /\ At(dfs, work, k + 1) <= At(dfs, work, w)
          BY <1>2, <2>1, <4>1 DEF Above
        <4> QED BY <1>2, <4>1, <4>2
      <3> QED BY <3>1, <3>2
    <2>4. an2[m] = an[m]
      BY <1>5, <2>3
    <2>5. CASE k = w
      <3>1. an[me] <= an[m] \/ an[r] <= an[m]
        BY <2>2, <2>5 DEF Waits
      <3>2. an2[me] <= an[m]
        <4>1. an[me] \in Int /\ an[r] \in Int /\ an[m] \in Int
          BY <1>2, <1>4
        <4> HIDE DEF me
        <4> QED BY <1>8, <3>1, <4>1
      <3> QED BY <1>2, <1>3, <2>4, <2>5, <3>2
    <2>6. CASE k # w
      <3>1. k \in 1 .. w - 1
        BY <1>2, <2>6
      <3>2. \A l \in 1 .. w - 1 : work[l].module # me
        BY <1>1, WorkFront
      <3>3. work[k].module # me
        BY <3>1, <3>2, Zenon
      <3> QED BY <1>2, <1>3, <1>5, <2>2, <2>4, <2>6, <3>3
    <2> QED BY <2>5, <2>6
  <1>10. Edges(req, st, ix, an2, dfs, work2)
    <2> SUFFICES ASSUME NEW m \in ToSet(dfs), NEW j \in 1 .. Len(req[m]), Handled(work2, m, j)
                 PROVE  \/ Settled(st, req[m][j])
                        \/ req[m][j] \in ToSet(dfs) /\ an2[m] <= ix[req[m][j]]
      BY Zenon DEF Edges
    <2>1. Handled(work, m, j) \/ (m = me /\ j = work[w].next)
      BY <1>1, HandledOnward DEF work2
    <2>2. CASE Handled(work, m, j)
      <3>1. CASE Settled(st, req[m][j])
        BY <3>1
      <3>2. CASE req[m][j] \in ToSet(dfs) /\ an[m] <= ix[req[m][j]]
        <4>1. an[m] \in Int /\ an2[m] \in Int /\ ix[req[m][j]] \in Int
          BY <1>4, <1>8, <3>2
        <4>2. an2[m] = an[m] \/ (m = me /\ an2[me] <= an[me])
          BY <1>5, <1>8
        <4>3. an2[m] <= an[m]
          BY <4>1, <4>2
        <4> QED BY <3>2, <4>1, <4>3
      <3> QED BY <1>1, <2>2, <3>1, <3>2, Zenon DEF Edges
    <2>3. CASE m = me /\ j = work[w].next
      <3>1. req[m][j] = r
        BY <2>3
      <3>2. an2[m] <= ix[r]
        <4>1. an2[me] \in Int /\ an[r] \in Int /\ ix[r] \in Int
          BY <1>2, <1>4, <1>8
        <4>2. an2[me] <= an[r] /\ an[r] <= ix[r]
          BY <1>4, <1>8
        <4>3. an2[me] <= ix[r]
          BY <4>1, <4>2
        <4> QED BY <2>3, <4>3
      <3> QED BY <3>1, <3>2
    <2> QED BY <2>1, <2>2, <2>3
  <1>11. Linkage(req, st, ix, an2, dfs, work2, n)
    BY <1>1, <1>7, <1>9, <1>10 DEF Linkage
  <1> QED BY <1>11 DEF an2, work2, me, w

\* The required module is linked already.
LEMMA LinkGoesOn ==
  ASSUME NEW req, Graph(req), NEW st, NEW ix, Indices(req, ix), NEW an, Indices(req, an),
         NEW n, NEW dfs, NEW work, Linkage(req, st, ix, an, dfs, work, n),
         work # <<>>, work[Len(work)].next \in 1 .. Len(req[work[Len(work)].module]),
         NEW r, r = req[work[Len(work)].module][work[Len(work)].next], r \notin ToSet(dfs), Settled(st, r)
  PROVE  Linkage(req, st, ix, an, dfs, Onward(work), n)
  <1> DEFINE w == Len(work)
             me == work[w].module
             work2 == Onward(work)
  <1>1. /\ Core(req, ix, an, dfs, work) /\ n \in Int
        /\ Rising(ix, dfs, n) /\ Segments(req, an, dfs, work) /\ Edges(req, st, ix, an, dfs, work)
        /\ \A m \in Modules : st[m] = "Linking" <=> m \in ToSet(dfs)
    BY Zenon DEF Linkage
  <1>2. w \in Nat /\ w \in 1 .. w
    BY <1>1, Onstack
  <1>3. /\ work2 \in Seq(Visits(DOMAIN req)) /\ Len(work2) = w
        /\ \A k \in 1 .. w : work2[k].module = work[k].module
        /\ \A k \in 1 .. w : k < w => work2[k].next = work[k].next
    BY <1>1, OnwardIs DEF Core
  <1> HIDE DEF work2
  <1>4. Core(req, ix, an, dfs, work2)
    BY <1>1, <1>3, CoreVisits
  <1>5. Segments(req, an, dfs, work2)
    <2> SUFFICES ASSUME NEW k \in 1 .. w, NEW m \in ToSet(dfs), Above(dfs, work2, k, m)
                 PROVE  an[work2[k].module] <= an[m]
      BY <1>3, Zenon DEF Segments
    <2>1. Above(dfs, work, k, m)
      <3>1. \A l \in 1 .. w : At(dfs, work2, l) = At(dfs, work, l)
        BY <1>3 DEF At
      <3>2. k < w => k + 1 \in 1 .. w
        BY <1>2
      <3> QED BY <1>3, <3>1, <3>2 DEF Above
    <2>2. an[work[k].module] <= an[m] \/ (k = w /\ Waits(req, an, dfs, work, m))
      BY <1>1, <2>1, Zenon DEF Segments
    <2>3. ~Waits(req, an, dfs, work, m)
      BY DEF Waits
    <2> QED BY <1>3, <2>2, <2>3
  <1>6. Edges(req, st, ix, an, dfs, work2)
    <2> SUFFICES ASSUME NEW m \in ToSet(dfs), NEW j \in 1 .. Len(req[m]), Handled(work2, m, j)
                 PROVE  \/ Settled(st, req[m][j])
                        \/ req[m][j] \in ToSet(dfs) /\ an[m] <= ix[req[m][j]]
      BY Zenon DEF Edges
    <2>1. Handled(work, m, j) \/ (m = me /\ j = work[w].next)
      BY <1>1, HandledOnward DEF work2
    <2> QED BY <1>1, <2>1, Zenon DEF Edges
  <1>7. Linkage(req, st, ix, an, dfs, work2, n)
    BY <1>1, <1>4, <1>5, <1>6 DEF Linkage
  <1> QED BY <1>7 DEF work2

\* The edges that have been dealt with when the last visit has ended.
LEMMA HandledFront ==
  ASSUME NEW req, NEW ix, NEW an, NEW dfs, NEW work, Core(req, ix, an, dfs, work), work # <<>>,
         ~ work[Len(work)].next <= Len(req[work[Len(work)].module]),
         NEW m, Len(req[m]) \in Nat, NEW j \in 1 .. Len(req[m]), Handled(Front(work), m, j)
  PROVE  Handled(work, m, j)
  <1> DEFINE w == Len(work)
  <1>1. /\ Len(Front(work)) = w - 1 /\ w \in Nat \ {0}
        /\ \A k \in 1 .. w - 1 : Front(work)[k] = work[k]
    BY WorkFront
  <1>2. \A k \in 1 .. w : work[k].next \in Int
    BY VisitTypes DEF Core
  <1>3. SUFFICES ASSUME NEW k \in 1 .. w, work[k].module = m
                 PROVE  j < work[k].next
    BY DEF Handled
  <1>4. CASE k = w
    <2>1. ~ work[k].next <= Len(req[m])
      BY <1>3, <1>4
    <2> QED BY <1>2, <2>1
  <1>5. CASE k # w
    <2>1. k \in 1 .. w - 1
      BY <1>1, <1>5
    <2> QED BY <1>1, <1>3, <2>1 DEF Handled
  <1> QED BY <1>4, <1>5

\* The last visit ends and its module stays on the stack: the visit below takes
\* over its ancestor index next.
LEMMA LinkStays ==
  ASSUME NEW req, Graph(req), NEW st, NEW ix, Indices(req, ix), NEW an, Indices(req, an),
         NEW n, NEW dfs, NEW work, Linkage(req, st, ix, an, dfs, work, n),
         work # <<>>, ~ work[Len(work)].next <= Len(req[work[Len(work)].module]),
         an[work[Len(work)].module] # ix[work[Len(work)].module]
  PROVE  Linkage(req, st, ix, an, dfs, Front(work), n)
  <1> DEFINE w == Len(work)
             me == work[w].module
             less == Front(work)
  <1>1. /\ Core(req, ix, an, dfs, work) /\ n \in Int
        /\ Rising(ix, dfs, n) /\ Segments(req, an, dfs, work) /\ Edges(req, st, ix, an, dfs, work)
        /\ \A m \in Modules : st[m] = "Linking" <=> m \in ToSet(dfs)
    BY Zenon DEF Linkage
  <1>2. /\ \A k \in 1 .. w : /\ work[k].module \in ToSet(dfs)
                             /\ At(dfs, work, k) = Place(dfs, work[k].module)
                             /\ At(dfs, work, k) \in 1 .. Len(dfs)
                             /\ At(dfs, work, k) <= At(dfs, work, w)
        /\ \A m \in ToSet(dfs) : Place(dfs, m) \in 1 .. Len(dfs) /\ dfs[Place(dfs, m)] = m
        /\ \A m \in ToSet(dfs) : m \in DOMAIN req
        /\ Len(dfs) \in Nat /\ w \in Nat /\ w \in 1 .. w
    BY <1>1, Onstack
  <1>3. /\ Len(less) = w - 1
        /\ \A k \in 1 .. w - 1 : less[k] = work[k] /\ k \in 1 .. w /\ k < w
    BY <1>1, WorkFront
  <1>4. Core(req, ix, an, dfs, less)
    BY <1>1, CoreStays
  <1> HIDE DEF less
  <1>5. Segments(req, an, dfs, less)
    <2> SUFFICES ASSUME NEW k \in 1 .. w - 1, NEW m \in ToSet(dfs), Above(dfs, less, k, m)
                 PROVE  an[work[k].module] <= an[m] \/ (k = w - 1 /\ Waits(req, an, dfs, less, m))
      BY <1>3, Zenon DEF Segments
    <2>1. \A l \in 1 .. w - 1 : At(dfs, less, l) = At(dfs, work, l)
      BY <1>3 DEF At
    <2>2. At(dfs, work, k) < Place(dfs, m)
      BY <2>1 DEF Above
    <2>3. k < w /\ k \in 1 .. w
      BY <1>3
    <2>4. CASE k < w - 1 \/ Place(dfs, m) < At(dfs, work, w)
      <3>1. Place(dfs, m) < At(dfs, work, k + 1)
        <4>1. CASE k < w - 1
          <5>1. k + 1 \in 1 .. w - 1
            BY <1>2, <4>1
          <5>2. Place(dfs, m) < At(dfs, less, k + 1)
            BY <1>3, <4>1 DEF Above
          <5> QED BY <2>1, <5>1, <5>2
        <4>2. CASE ~(k < w - 1) /\ Place(dfs, m) < At(dfs, work, w)
          <5>1. k + 1 = w
            BY <1>2, <4>2
          <5> QED BY <4>2, <5>1
        <4> QED BY <2>4, <4>1, <4>2
      <3>2. Above(dfs, work, k, m)
        BY <2>2, <3>1 DEF Above
      <3>3. k # w
        BY <1>2, <2>3
      <3> QED BY <1>1, <2>3, <3>2, <3>3, Zenon DEF Segments
    <2>5. CASE ~(k < w - 1) /\ ~(Place(dfs, m) < At(dfs, work, w))
      <3>1. k = w - 1 /\ k + 1 = w
        BY <1>2, <2>5
      <3>2. an[me] <= an[m]
        <4>1. CASE Place(dfs, m) = At(dfs, work, w)
          <5>1. m = me
            BY <1>2, <4>1
          <5>2. an[me] \in Int
            BY <1>2 DEF Indices
          <5> QED BY <5>1, <5>2
        <4>2. CASE Place(dfs, m) # At(dfs, work, w)
          <5>1. At(dfs, work, w) < Place(dfs, m)
            BY <1>2, <2>5, <4>2
          <5>2. Above(dfs, work, w, m)
            BY <1>2, <5>1 DEF Above
          <5>3. ~Waits(req, an, dfs, work, m)
            <6>1. ~ work[w].next \in 1 .. Len(req[me])
              OBVIOUS
            <6> QED BY <6>1 DEF Waits
          <5> QED BY <1>1, <1>2, <5>2, <5>3, Zenon DEF Segments
        <4> QED BY <4>1, <4>2
      <3>3. /\ work[k].next \in 1 .. Len(req[work[k].module])
            /\ req[work[k].module][work[k].next] = me
        BY <1>1, <2>3, <3>1 DEF Core, Chained
      <3>4. Len(less) = k /\ less[k] = work[k]
        BY <1>3, <3>1
      <3>5. Waits(req, an, dfs, less, m)
        BY <1>2, <3>2, <3>3, <3>4 DEF Waits
      <3> QED BY <3>1, <3>5
    <2> QED BY <2>4, <2>5
  <1>6. Edges(req, st, ix, an, dfs, less)
    <2> SUFFICES ASSUME NEW m \in ToSet(dfs), NEW j \in 1 .. Len(req[m]), Handled(less, m, j)
                 PROVE  \/ Settled(st, req[m][j])
                        \/ req[m][j] \in ToSet(dfs) /\ an[m] <= ix[req[m][j]]
      BY Zenon DEF Edges
    <2>1. Len(req[m]) \in Nat
      BY <1>2, LenProperties DEF Graph
    <2>2. Handled(work, m, j)
      BY <1>1, <2>1, HandledFront DEF less
    <2> QED BY <1>1, <2>2, Zenon DEF Edges
  <1>7. Linkage(req, st, ix, an, dfs, less, n)
    BY <1>1, <1>4, <1>5, <1>6 DEF Linkage
  <1> QED BY <1>7 DEF less

\* The last visit ends and its component is linked: all that its modules import
\* is linked then.
LEMMA LinkPops ==
  ASSUME NEW req, Graph(req), NEW st \in [Modules -> Statuses], NEW ix, Indices(req, ix), NEW an,
         Indices(req, an), NEW n, NEW dfs, NEW work, Linkage(req, st, ix, an, dfs, work, n),
         work # <<>>, ~ work[Len(work)].next <= Len(req[work[Len(work)].module]),
         an[work[Len(work)].module] = ix[work[Len(work)].module],
         NEW st2, st2 = [m \in Modules |-> IF m \in Popped(dfs, work[Len(work)].module) THEN "Linked" ELSE st[m]]
  PROVE  /\ Linkage(req, st2, ix, an, Rest(dfs, work[Len(work)].module), Front(work), n)
         /\ \A m \in Popped(dfs, work[Len(work)].module) :
              m \in ToSet(dfs) /\ m \in DOMAIN req /\ \A r \in ToSet(req[m]) : Settled(st2, r)
  <1> DEFINE w == Len(work)
             me == work[w].module
             less == Front(work)
             left == Rest(dfs, me)
             P == Popped(dfs, me)
  <1>1. /\ Core(req, ix, an, dfs, work) /\ n \in Int
        /\ Rising(ix, dfs, n) /\ Segments(req, an, dfs, work) /\ Edges(req, st, ix, an, dfs, work)
        /\ \A m \in Modules : st[m] = "Linking" <=> m \in ToSet(dfs)
    BY Zenon DEF Linkage
  <1>2. /\ \A k \in 1 .. w : /\ work[k].module \in ToSet(dfs)
                             /\ At(dfs, work, k) = Place(dfs, work[k].module)
                             /\ At(dfs, work, k) \in 1 .. Len(dfs)
                             /\ At(dfs, work, k) <= At(dfs, work, w)
        /\ \A m \in ToSet(dfs) : Place(dfs, m) \in 1 .. Len(dfs) /\ dfs[Place(dfs, m)] = m
        /\ \A m \in ToSet(dfs) : m \in DOMAIN req
        /\ Len(dfs) \in Nat /\ w \in Nat /\ w \in 1 .. w
    BY <1>1, Onstack
  <1>3. /\ Len(less) = w - 1
        /\ \A k \in 1 .. w - 1 : less[k] = work[k] /\ k \in 1 .. w /\ k < w
        /\ \A k \in 1 .. w - 1 : At(dfs, work, k) < At(dfs, work, w)
    <2>1. \A k \in 1 .. w - 1 : less[k] = work[k] /\ k \in 1 .. w /\ k < w
      BY <1>1, WorkFront
    <2>2. \A k \in 1 .. w - 1 : At(dfs, work, k) < At(dfs, work, w)
      BY <1>1, WorkFront
    <2>3. Len(less) = w - 1
      BY <1>1, WorkFront
    <2> QED BY <2>1, <2>2, <2>3
  <1>4. /\ Core(req, ix, an, left, less)
        /\ \A m : m \in ToSet(left) <=> m \in ToSet(dfs) /\ Place(dfs, m) < Place(dfs, me)
        /\ \A m \in ToSet(left) : Place(left, m) = Place(dfs, m)
        /\ \A m : m \in P <=> m \in ToSet(dfs) /\ Place(dfs, m) >= Place(dfs, me)
        /\ left \in Seq(DOMAIN req)
    BY <1>1, CorePops
  <1>5. \A m \in Modules : st2[m] = IF m \in P THEN "Linked" ELSE st[m]
    OBVIOUS
  <1>6. /\ \A m \in ToSet(dfs) : m \in Modules /\ an[m] \in Int /\ ix[m] \in Int
        /\ \A m \in ToSet(dfs) : Len(req[m]) \in Nat
    BY <1>2, LenProperties DEF Indices, Graph
  <1>7. me \in ToSet(dfs) /\ an[me] = ix[me] /\ At(dfs, work, w) = Place(dfs, me) /\ Place(dfs, me) \in Int
    BY <1>2
  <1>8. \A m \in P : an[me] <= an[m]
    <2> TAKE m \in P
    <2>1. m \in ToSet(dfs) /\ Place(dfs, m) >= Place(dfs, me)
      BY <1>4
    <2>2. CASE Place(dfs, m) = Place(dfs, me)
      <3>1. m = me
        BY <1>2, <1>7, <2>1, <2>2
      <3> QED BY <1>6, <1>7, <3>1
    <2>3. CASE Place(dfs, m) # Place(dfs, me)
      <3>1. At(dfs, work, w) < Place(dfs, m)
        BY <1>2, <1>7, <2>1, <2>3
      <3>2. Above(dfs, work, w, m)
        BY <1>2, <3>1 DEF Above
      <3>3. ~Waits(req, an, dfs, work, m)
        <4>1. ~ work[w].next \in 1 .. Len(req[me])
          OBVIOUS
        <4> QED BY <4>1 DEF Waits
      <3> QED BY <1>1, <1>2, <2>1, <3>2, <3>3, Zenon DEF Segments
    <2> QED BY <2>2, <2>3
  <1> HIDE DEF less, left, P, me, w
  <1>9. ASSUME NEW r \in ToSet(dfs), ix[me] <= ix[r]
        PROVE  r \in P
    <2>1. CASE Place(dfs, r) < Place(dfs, me)
      <3>1. ix[r] < ix[me]
        BY <1>1, <1>2, <1>7, <2>1 DEF Rising
      <3> QED BY <1>6, <1>7, <1>9, <3>1
    <2>2. CASE ~(Place(dfs, r) < Place(dfs, me))
      <3>1. Place(dfs, r) >= Place(dfs, me)
        BY <1>2, <1>7, <2>2
      <3> QED BY <1>4, <3>1
    <2> QED BY <2>1, <2>2
  <1>10. ASSUME NEW m \in P
         PROVE  m \in ToSet(dfs) /\ m \in DOMAIN req /\ \A r \in ToSet(req[m]) : Settled(st2, r)
    <2>1. m \in ToSet(dfs) /\ m \in DOMAIN req /\ Place(dfs, m) >= Place(dfs, me)
      BY <1>2, <1>4
    <2>2. req[m] \in Seq(DOMAIN req)
      BY <2>1 DEF Graph
    <2>3. ASSUME NEW r \in ToSet(req[m])
          PROVE  Settled(st2, r)
      <3>1. PICK j \in 1 .. Len(req[m]) : r = req[m][j]
        BY <2>2, InSet
      <3>2. r \in Modules
        BY <2>1, <3>1, EdgeIs DEF Indices
      <3>3. Handled(less, m, j)
        <4> SUFFICES ASSUME NEW k \in 1 .. w - 1, less[k].module = m
                     PROVE  FALSE
          BY <1>3, Zenon DEF Handled
        <4>1. work[k].module = m /\ At(dfs, work, k) = Place(dfs, m) /\ At(dfs, work, k) < Place(dfs, me)
          BY <1>2, <1>3, <1>7
        <4> QED BY <1>2, <1>7, <2>1, <4>1
      <3>4. Handled(work, m, j)
        BY <1>1, <1>6, <2>1, <3>3, HandledFront DEF less
      <3>5. Settled(st, r) \/ (r \in ToSet(dfs) /\ an[m] <= ix[r])
        BY <1>1, <2>1, <3>1, <3>4, Zenon DEF Edges
      <3>6. CASE Settled(st, r)
        BY <1>5, <3>2, <3>6 DEF Settled
      <3>7. CASE r \in ToSet(dfs) /\ an[m] <= ix[r]
        <4>1. ix[me] <= ix[r]
          BY <1>6, <1>7, <1>8, <2>1, <3>7
        <4>2. r \in P
          BY <1>9, <3>7, <4>1
        <4> QED BY <1>5, <3>2, <4>2 DEF Settled
      <3> QED BY <3>5, <3>6, <3>7
    <2> QED BY <2>1, <2>3
  <1>11. Rising(ix, left, n)
    <2>1. dfs \in Seq(DOMAIN req) /\ Once(dfs) /\ Place(dfs, me) \in 1 .. Len(dfs)
      BY <1>1, <1>2, <1>7 DEF Core
    <2>2. /\ Len(left) = Place(dfs, me) - 1
          /\ \A i \in 1 .. Place(dfs, me) - 1 : left[i] = dfs[i]
      <3>1. /\ Len(SubSeq(dfs, 1, Place(dfs, me) - 1)) = Place(dfs, me) - 1
            /\ \A i \in 1 .. Place(dfs, me) - 1 : SubSeq(dfs, 1, Place(dfs, me) - 1)[i] = dfs[i]
        BY <2>1, Cut
      <3> QED BY <3>1 DEF left, Rest
    <2>3. \A i \in 1 .. Place(dfs, me) - 1 : i \in 1 .. Len(dfs)
      BY <1>2, <2>1
    <2> QED BY <1>1, <2>2, <2>3 DEF Rising
  <1>12. \A k \in 1 .. w - 1 : less[k].module \in ToSet(left) /\ At(left, less, k) = At(dfs, work, k)
    <2> TAKE k \in 1 .. w - 1
    <2>1. work[k].module \in ToSet(dfs) /\ Place(dfs, work[k].module) < Place(dfs, me)
      BY <1>2, <1>3, <1>7
    <2>2. work[k].module \in ToSet(left)
      BY <1>4, <2>1
    <2> QED BY <1>2, <1>3, <1>4, <2>2 DEF At
  <1>13. Segments(req, an, left, less)
    <2> SUFFICES ASSUME NEW k \in 1 .. w - 1, NEW m \in ToSet(left), Above(left, less, k, m)
                 PROVE  an[work[k].module] <= an[m]
      BY <1>3, Zenon DEF Segments
    <2>1. m \in ToSet(dfs) /\ Place(dfs, m) < Place(dfs, me) /\ Place(left, m) = Place(dfs, m)
      BY <1>4
    <2>2. k \in 1 .. w /\ k < w /\ k # w
      BY <1>2, <1>3
    <2>3. Place(dfs, m) < At(dfs, work, k + 1)
      <3>1. CASE k < w - 1
        <4>1. k + 1 \in 1 .. w - 1
          BY <1>2, <3>1
        <4> QED BY <1>3, <1>12, <2>1, <3>1, <4>1 DEF Above
      <3>2. CASE ~(k < w - 1)
        <4>1. k + 1 = w
          BY <1>2, <3>2
        <4> QED BY <1>7, <2>1, <4>1
      <3> QED BY <3>1, <3>2
    <2>4. Above(dfs, work, k, m)
      BY <1>12, <2>1, <2>3 DEF Above
    <2> QED BY <1>1, <2>1, <2>2, <2>4, Zenon DEF Segments, w
  <1>14. Edges(req, st2, ix, an, left, less)
    <2> SUFFICES ASSUME NEW m \in ToSet(left), NEW j \in 1 .. Len(req[m]), Handled(less, m, j)
                 PROVE  \/ Settled(st2, req[m][j])
                        \/ req[m][j] \in ToSet(left) /\ an[m] <= ix[req[m][j]]
      BY Zenon DEF Edges
    <2>1. m \in ToSet(dfs)
      BY <1>4
    <2>2. Handled(work, m, j)
      BY <1>1, <1>6, <2>1, HandledFront DEF less
    <2>3. Settled(st, req[m][j]) \/ (req[m][j] \in ToSet(dfs) /\ an[m] <= ix[req[m][j]])
      BY <1>1, <2>1, <2>2, Zenon DEF Edges
    <2>4. req[m][j] \in Modules
      BY <1>2, <2>1, EdgeIs DEF Indices
    <2>5. CASE Settled(st, req[m][j])
      BY <1>5, <2>4, <2>5 DEF Settled
    <2>6. CASE req[m][j] \in ToSet(dfs) /\ an[m] <= ix[req[m][j]]
      <3>1. CASE req[m][j] \in P
        BY <1>5, <2>4, <3>1 DEF Settled
      <3>2. CASE req[m][j] \notin P
        <4>1. Place(dfs, req[m][j]) < Place(dfs, me)
          BY <1>2, <1>4, <1>7, <2>6, <3>2
        <4> QED BY <1>4, <2>6, <4>1
      <3> QED BY <3>1, <3>2
    <2> QED BY <2>3, <2>5, <2>6
  <1>15. \A m \in Modules : st2[m] = "Linking" <=> m \in ToSet(left)
    <2> TAKE m \in Modules
    <2>1. CASE m \in P
      BY <1>2, <1>4, <1>5, <1>7, <2>1
    <2>2. CASE m \notin P
      <3>1. st2[m] = st[m] /\ (st[m] = "Linking" <=> m \in ToSet(dfs))
        BY <1>1, <1>5, <2>2
      <3>2. m \in ToSet(dfs) => Place(dfs, m) < Place(dfs, me)
        BY <1>2, <1>4, <1>7, <2>2
      <3> QED BY <1>4, <3>1, <3>2
    <2> QED BY <2>1, <2>2
  <1>16. Linkage(req, st2, ix, an, left, less, n)
    BY <1>1, <1>4, <1>11, <1>13, <1>14, <1>15 DEF Linkage
  <1> QED BY <1>10, <1>16 DEF less, left, P, me, w

-----------------------------------------------------------------------------
(* The bodies of the modules on the stack of a search of Evaluate *)

Fresh(bd, m) == bd[m] = "not started"
Over(bd, m) == bd[m] \in {"returned", "threw"}

\* A body runs when all that its module imports has been dealt with.
Starting(req, bd, v) ==
  IF v.body THEN bd[v.module] = "running" /\ ~ v.next <= Len(req[v.module])
            ELSE Fresh(bd, v.module)

\* What a visit has dealt with is on the stack or its body is over.
Before(req, bd, dfs, v) == \A j \in 1 .. Len(req[v.module]) :
  j < v.next => req[v.module][j] \in ToSet(dfs) \/ Over(bd, req[v.module][j])

Bodies(req, bd, dfs, work) ==
  /\ \A k \in 1 .. Len(work) : Starting(req, bd, work[k]) /\ Before(req, bd, dfs, work[k])
  /\ \A m \in ToSet(dfs) : Over(bd, m) \/ \E k \in 1 .. Len(work) : work[k].module = m

LEMMA BeforeKeeps ==
  ASSUME NEW req, Graph(req), DOMAIN req \subseteq Modules, NEW bd, NEW dfs, NEW v \in Visits(DOMAIN req),
         Before(req, bd, dfs, v), NEW bd2, \A m \in Modules : Over(bd, m) => Over(bd2, m)
  PROVE  Before(req, bd2, dfs, v)
  <1>1. v.module \in DOMAIN req
    BY DEF Visits
  <1>2. \A j \in 1 .. Len(req[v.module]) : req[v.module][j] \in Modules
    BY <1>1, EdgeIs
  <1> QED BY <1>2 DEF Before

LEMMA BodiesBegin ==
  ASSUME NEW req, NEW bd, NEW m, Fresh(bd, m)
  PROVE  Bodies(req, bd, <<m>>, <<Visit(m)>>)
  <1> DEFINE dfs == <<m>>
             work == <<Visit(m)>>
  <1>1. ToSet(dfs) = {m} /\ Len(work) = 1 /\ work[1] = Visit(m)
    BY DEF ToSet
  <1> HIDE DEF dfs, work
  <1>2. Visit(m).module = m /\ Visit(m).next = 1 /\ Visit(m).body = FALSE
    BY DEF Visit
  <1>3. \A k \in 1 .. Len(work) : k = 1
    BY <1>1
  <1>4. 1 \in 1 .. Len(work)
    BY <1>1
  <1>5. Starting(req, bd, work[1])
    BY <1>1, <1>2 DEF Starting
  <1>6. Before(req, bd, dfs, work[1])
    <2>1. \A j \in 1 .. Len(req[m]) : ~(j < 1)
      OBVIOUS
    <2> QED BY <1>1, <1>2, <2>1 DEF Before
  <1>7. Bodies(req, bd, dfs, work)
    BY <1>1, <1>2, <1>3, <1>4, <1>5, <1>6 DEF Bodies
  <1> QED BY <1>7 DEF dfs, work

LEMMA BodiesEnter ==
  ASSUME NEW req, NEW ix, NEW an, NEW dfs, NEW work, Core(req, ix, an, dfs, work), work # <<>>,
         NEW bd, Bodies(req, bd, dfs, work), NEW x \in DOMAIN req, x \notin ToSet(dfs),
         Fresh(bd, x)
  PROVE  Bodies(req, bd, Append(dfs, x), Append(work, Visit(x)))
  <1> DEFINE dfs2 == Append(dfs, x)
             work2 == Append(work, Visit(x))
             w == Len(work)
  <1>1. ToSet(dfs2) = ToSet(dfs) \cup {x}
    BY Entered
  <1>2. /\ Len(work2) = w + 1 /\ w \in Nat \ {0}
        /\ \A k \in 1 .. w : work2[k] = work[k]
        /\ work2[w + 1] = Visit(x)
    BY Entered
  <1> HIDE DEF dfs2, work2
  <1>3. \A k : k \in 1 .. Len(work2) <=> k \in 1 .. w \/ k = w + 1
    BY <1>2
  <1>4. Visit(x).module = x /\ Visit(x).next = 1 /\ Visit(x).body = FALSE
    BY DEF Visit
  <1>5. Starting(req, bd, Visit(x)) /\ Before(req, bd, dfs2, Visit(x))
    <2>1. \A j \in 1 .. Len(req[x]) : ~(j < 1)
      OBVIOUS
    <2> QED BY <1>4, <2>1 DEF Before, Starting
  <1>6. \A k \in 1 .. w : Starting(req, bd, work[k]) /\ Before(req, bd, dfs2, work[k])
    BY <1>1 DEF Bodies, Before
  <1>7. \A m \in ToSet(dfs2) : Over(bd, m) \/ \E k \in 1 .. Len(work2) : work2[k].module = m
    <2> TAKE m \in ToSet(dfs2)
    <2>1. CASE m = x
      BY <1>2, <1>3, <1>4, <2>1
    <2>2. CASE m \in ToSet(dfs)
      <3>1. Over(bd, m) \/ \E k \in 1 .. w : work[k].module = m
        BY <2>2 DEF Bodies
      <3> QED BY <1>2, <1>3, <3>1
    <2> QED BY <1>1, <2>1, <2>2
  <1>8. Bodies(req, bd, dfs2, work2)
    BY <1>2, <1>3, <1>5, <1>6, <1>7 DEF Bodies
  <1> QED BY <1>8 DEF dfs2, work2

LEMMA BodiesOnward ==
  ASSUME NEW req, NEW ix, NEW an, NEW dfs, NEW work, Core(req, ix, an, dfs, work), work # <<>>,
         NEW bd, Bodies(req, bd, dfs, work), ~work[Len(work)].body,
         NEW r, r = req[work[Len(work)].module][work[Len(work)].next],
         r \in ToSet(dfs) \/ Over(bd, r)
  PROVE  Bodies(req, bd, dfs, Onward(work))
  <1> DEFINE w == Len(work)
             work2 == Onward(work)
  <1>1. work \in Seq(Visits(DOMAIN req))
    BY DEF Core
  <1>2. /\ Len(work2) = w
        /\ \A k \in 1 .. w : work2[k].module = work[k].module
        /\ \A k \in 1 .. w : work2[k].body = work[k].body
        /\ \A k \in 1 .. w : k < w => work2[k].next = work[k].next
        /\ work2[w].next = work[w].next + 1
    BY <1>1, OnwardIs
  <1>3. w \in Nat /\ w \in 1 .. w /\ \A k \in 1 .. w : work[k].next \in Nat \ {0} /\ work[k].body \in BOOLEAN
    BY <1>1, VisitTypes
  <1> HIDE DEF work2
  <1>4. ASSUME NEW k \in 1 .. w
        PROVE  Starting(req, bd, work2[k]) /\ Before(req, bd, dfs, work2[k])
    <2>1. Starting(req, bd, work[k]) /\ Before(req, bd, dfs, work[k])
      BY DEF Bodies
    <2>2. CASE k = w
      <3>1. Starting(req, bd, work2[k])
        BY <1>2, <2>1, <2>2 DEF Starting
      <3>2. ASSUME NEW j \in 1 .. Len(req[work[w].module]), j < work[w].next + 1
            PROVE  req[work[w].module][j] \in ToSet(dfs) \/ Over(bd, req[work[w].module][j])
        <4>1. CASE j = work[w].next
          BY <4>1
        <4>2. CASE j # work[w].next
          <5>1. j < work[w].next
            BY <1>3, <3>2, <4>2
          <5> QED BY <2>1, <2>2, <5>1 DEF Before
        <4> QED BY <4>1, <4>2
      <3> QED BY <1>2, <2>2, <3>1, <3>2 DEF Before
    <2>3. CASE k # w
      <3>1. k < w
        BY <1>3, <2>3
      <3> QED BY <1>2, <2>1, <3>1 DEF Starting, Before
    <2> QED BY <2>2, <2>3
  <1>5. \A m \in ToSet(dfs) : Over(bd, m) \/ \E k \in 1 .. w : work2[k].module = m
    BY <1>2 DEF Bodies
  <1>6. Bodies(req, bd, dfs, work2)
    BY <1>2, <1>4, <1>5 DEF Bodies
  <1> QED BY <1>6 DEF work2

\* The same visits, the last one in its body.
Inside(work) == [work EXCEPT ![Len(work)] = [Last(work) EXCEPT !.body = TRUE]]

LEMMA InsideIs ==
  ASSUME NEW req, NEW work \in Seq(Visits(DOMAIN req)), work # <<>>
  PROVE  /\ Inside(work) \in Seq(Visits(DOMAIN req)) /\ Len(Inside(work)) = Len(work)
         /\ \A k \in 1 .. Len(work) : Inside(work)[k].module = work[k].module
         /\ \A k \in 1 .. Len(work) : Inside(work)[k].next = work[k].next
         /\ \A k \in 1 .. Len(work) : k < Len(work) => Inside(work)[k] = work[k]
         /\ Inside(work)[Len(work)].body = TRUE
         /\ Inside(work) # <<>>
  <1> DEFINE w == Len(work)
             v == work[w]
             v2 == [v EXCEPT !.body = TRUE]
             work2 == [work EXCEPT ![w] = v2]
  <1>1. w \in Nat /\ w \in 1 .. w /\ \A k \in 1 .. w : work[k] \in Visits(DOMAIN req)
    BY VisitTypes
  <1>2. v2 \in Visits(DOMAIN req) /\ v2.module = v.module /\ v2.next = v.next /\ v2.body = TRUE
    <2>1. v \in Visits(DOMAIN req)
      BY <1>1
    <2> HIDE DEF v
    <2> QED BY <2>1 DEF Visits
  <1> HIDE DEF v2
  <1>3. /\ work2 \in Seq(Visits(DOMAIN req)) /\ Len(work2) = w
        /\ \A k \in 1 .. w : work2[k] = IF k = w THEN v2 ELSE work[k]
    BY <1>1, <1>2, ExceptSeq
  <1> HIDE DEF work2
  <1>4. work2 # <<>>
    BY <1>1, <1>3
  <1>5. \A k \in 1 .. w : /\ work2[k].module = work[k].module /\ work2[k].next = work[k].next
                          /\ k < w => work2[k] = work[k]
    <2> TAKE k \in 1 .. w
    <2>1. CASE k = w
      BY <1>2, <1>3, <2>1
    <2>2. CASE k # w
      BY <1>3, <2>2
    <2> QED BY <2>1, <2>2
  <1>6. work2[w].body = TRUE
    BY <1>1, <1>2, <1>3
  <1>7. Inside(work) = work2
    BY DEF Inside, Last, work2, v2
  <1> QED BY <1>3, <1>4, <1>5, <1>6, <1>7

LEMMA BodiesStart ==
  ASSUME NEW req, NEW ix, NEW an, NEW dfs, NEW work, Core(req, ix, an, dfs, work), work # <<>>,
         Graph(req), DOMAIN req \subseteq Modules,
         NEW bd, DOMAIN bd = Modules, Bodies(req, bd, dfs, work), ~work[Len(work)].body,
         ~ work[Len(work)].next <= Len(req[work[Len(work)].module])
  PROVE  Bodies(req, [bd EXCEPT ![work[Len(work)].module] = "running"], dfs, Inside(work))
  <1> DEFINE w == Len(work)
             me == work[w].module
             bd2 == [bd EXCEPT ![me] = "running"]
             work2 == Inside(work)
  <1>1. work \in Seq(Visits(DOMAIN req))
    BY DEF Core
  <1>2. /\ Len(work2) = w
        /\ \A k \in 1 .. w : work2[k].module = work[k].module
        /\ \A k \in 1 .. w : work2[k].next = work[k].next
        /\ \A k \in 1 .. w : k < w => work2[k] = work[k]
        /\ work2[w].body = TRUE
    BY <1>1, InsideIs
  <1>3. /\ w \in Nat /\ w \in 1 .. w /\ me \in Modules
        /\ \A k \in 1 .. w : work[k] \in Visits(DOMAIN req) /\ work[k].module \in Modules
        /\ \A k \in 1 .. w : work2[k] \in Visits(DOMAIN req)
    BY <1>1, VisitTypes, InsideIs
  <1>4. bd2[me] = "running" /\ \A m \in Modules : m # me => bd2[m] = bd[m]
    <2> HIDE DEF me
    <2> QED BY <1>3
  <1> HIDE DEF work2, bd2
  <1>5. \A m \in Modules : Over(bd, m) => Over(bd2, m)
    <2>1. Fresh(bd, me)
      BY <1>3 DEF Bodies, Starting
    <2>2. ~Over(bd, me)
      BY <2>1, Zenon DEF Fresh, Over
    <2>3. ASSUME NEW m \in Modules, Over(bd, m) PROVE Over(bd2, m)
      <3>1. bd2[m] = bd[m]
        BY <1>4, <2>2, <2>3
      <3> QED BY <2>3, <3>1 DEF Over
    <2> QED BY <2>3
  <1>6. ASSUME NEW k \in 1 .. w
        PROVE  Starting(req, bd2, work2[k]) /\ Before(req, bd2, dfs, work2[k])
    <2>1. Starting(req, bd, work[k]) /\ Before(req, bd, dfs, work[k])
      BY DEF Bodies
    <2>2. Before(req, bd2, dfs, work2[k])
      <3>1. Before(req, bd, dfs, work2[k])
        BY <1>2, <2>1 DEF Before
      <3> QED BY <1>3, <1>5, <3>1, BeforeKeeps
    <2>3. CASE k = w
      <3>1. Starting(req, bd2, work2[w])
        BY <1>2, <1>3, <1>4 DEF Starting
      <3> QED BY <2>2, <2>3, <3>1
    <2>4. CASE k # w
      <3>1. k < w /\ k \in 1 .. w - 1
        BY <1>3, <2>4
      <3>2. \A l \in 1 .. w - 1 : work[l].module # me
        BY WorkFront
      <3>3. work[k].module # me /\ work2[k] = work[k]
        BY <1>2, <3>1, <3>2
      <3>4. bd2[work[k].module] = bd[work[k].module]
        BY <1>3, <1>4, <3>3
      <3>5. Fresh(bd2, work[k].module) <=> Fresh(bd, work[k].module)
        BY <3>4, Zenon DEF Fresh
      <3> QED BY <2>1, <2>2, <3>3, <3>4, <3>5 DEF Starting
    <2> QED BY <2>3, <2>4
  <1>7. \A m \in ToSet(dfs) : Over(bd2, m) \/ \E k \in 1 .. w : work2[k].module = m
    <2>1. \A m \in ToSet(dfs) : m \in Modules
      BY Onstack
    <2> QED BY <1>2, <1>5, <2>1 DEF Bodies
  <1>8. Bodies(req, bd2, dfs, work2)
    BY <1>2, <1>6, <1>7 DEF Bodies
  <1> QED BY <1>8 DEF work2, bd2

\* The last body is over and its module stays on the stack.
LEMMA BodiesStay ==
  ASSUME NEW req, NEW ix, NEW an, NEW dfs, NEW work, Core(req, ix, an, dfs, work), work # <<>>,
         NEW bd, Bodies(req, bd, dfs, work), NEW bd2, Over(bd2, work[Len(work)].module),
         Graph(req), DOMAIN req \subseteq Modules,
         \A m \in Modules : m # work[Len(work)].module => bd2[m] = bd[m]
  PROVE  Bodies(req, bd2, dfs, Front(work))
  <1> DEFINE w == Len(work)
             me == work[w].module
             less == Front(work)
  <1>1. /\ Len(less) = w - 1 /\ w \in Nat \ {0}
        /\ \A k \in 1 .. w - 1 : less[k] = work[k] /\ k \in 1 .. w /\ work[k].module # me
    BY WorkFront
  <1>0. /\ \A m \in ToSet(dfs) : m \in Modules
        /\ \A k \in 1 .. w : work[k] \in Visits(DOMAIN req) /\ work[k].module \in Modules
    BY Onstack, VisitTypes DEF Core
  <1>2. ASSUME NEW m \in Modules, Over(bd, m) PROVE Over(bd2, m)
    <2>1. CASE m = me
      BY <2>1
    <2>2. CASE m # me
      <3>1. bd2[m] = bd[m]
        BY <2>2
      <3> QED BY <1>2, <3>1 DEF Over
    <2> QED BY <2>1, <2>2
  <1> HIDE DEF less
  <1>3. ASSUME NEW k \in 1 .. w - 1
        PROVE  Starting(req, bd2, less[k]) /\ Before(req, bd2, dfs, less[k])
    <2>1. Starting(req, bd, work[k]) /\ Before(req, bd, dfs, work[k]) /\ less[k] = work[k]
      BY <1>1 DEF Bodies
    <2>2. Before(req, bd2, dfs, work[k])
      BY <1>1, <1>0, <1>2, <2>1, BeforeKeeps
    <2>3. bd2[work[k].module] = bd[work[k].module]
      BY <1>1, <1>0
    <2>4. Fresh(bd2, work[k].module) <=> Fresh(bd, work[k].module)
      BY <2>3, Zenon DEF Fresh
    <2> QED BY <2>1, <2>2, <2>3, <2>4 DEF Starting
  <1>4. ASSUME NEW m \in ToSet(dfs)
        PROVE  Over(bd2, m) \/ \E k \in 1 .. w - 1 : less[k].module = m
    <2>1. CASE Over(bd, m)
      BY <1>0, <1>2, <2>1
    <2>2. CASE \E k \in 1 .. w : work[k].module = m
      <3>1. PICK k \in 1 .. w : work[k].module = m
        BY <2>2
      <3>2. CASE k = w
        BY <3>1, <3>2
      <3>3. CASE k # w
        <4>1. k \in 1 .. w - 1
          BY <1>1, <3>3
        <4> QED BY <1>1, <3>1, <4>1
      <3> QED BY <3>2, <3>3
    <2> QED BY <2>1, <2>2 DEF Bodies
  <1>5. Bodies(req, bd2, dfs, less)
    BY <1>1, <1>3, <1>4 DEF Bodies
  <1> QED BY <1>5 DEF less

\* The last body is over and its component leaves the stack: the bodies of all
\* that leaves it are over.
LEMMA BodiesPop ==
  ASSUME NEW req, NEW ix, NEW an, NEW dfs, NEW work, Core(req, ix, an, dfs, work), work # <<>>,
         NEW bd, Bodies(req, bd, dfs, work), NEW bd2, Over(bd2, work[Len(work)].module),
         Graph(req), DOMAIN req \subseteq Modules,
         \A m \in Modules : m # work[Len(work)].module => bd2[m] = bd[m]
  PROVE  /\ Bodies(req, bd2, Rest(dfs, work[Len(work)].module), Front(work))
         /\ \A m \in Popped(dfs, work[Len(work)].module) : Over(bd2, m)
  <1> DEFINE w == Len(work)
             me == work[w].module
             less == Front(work)
             left == Rest(dfs, me)
             P == Popped(dfs, me)
  <1>1. Bodies(req, bd2, dfs, less)
    BY BodiesStay, Zenon
  <1>2. /\ \A m : m \in ToSet(left) <=> m \in ToSet(dfs) /\ Place(dfs, m) < Place(dfs, me)
        /\ \A m : m \in P <=> m \in ToSet(dfs) /\ Place(dfs, m) >= Place(dfs, me)
    BY CorePops
  <1>3. /\ Len(less) = w - 1 /\ w \in Nat \ {0}
        /\ \A k \in 1 .. w - 1 : less[k] = work[k]
    BY WorkFront
  <1>4. \A k \in 1 .. w - 1 : At(dfs, work, k) < At(dfs, work, w) /\ k \in 1 .. w
    BY WorkFront
  <1>5. /\ \A k \in 1 .. w : At(dfs, work, k) = Place(dfs, work[k].module)
        /\ \A m \in ToSet(dfs) : Place(dfs, m) \in 1 .. Len(dfs)
        /\ me \in ToSet(dfs) /\ w \in 1 .. w
    BY Onstack
  <1> HIDE DEF less, left, P, me
  <1>6. At(dfs, work, w) = Place(dfs, me)
    BY <1>5 DEF me
  <1>7. ASSUME NEW m \in P
        PROVE  Over(bd2, m)
    <2>1. m \in ToSet(dfs) /\ Place(dfs, m) >= Place(dfs, me)
      BY <1>2
    <2>2. ASSUME NEW k \in 1 .. w - 1, less[k].module = m
          PROVE  FALSE
      <3>1. Place(dfs, m) < Place(dfs, me)
        BY <1>3, <1>4, <1>5, <1>6, <2>2
      <3> QED BY <1>5, <2>1, <3>1
    <2> QED BY <1>1, <1>3, <2>1, <2>2 DEF Bodies
  <1>8. \A m \in ToSet(dfs) : m \in ToSet(left) \/ m \in P
    <2> TAKE m \in ToSet(dfs)
    <2>1. Place(dfs, m) \in Int /\ Place(dfs, me) \in Int
      BY <1>5
    <2> QED BY <1>2, <2>1
  <1>9. ASSUME NEW k \in 1 .. w - 1
        PROVE  Starting(req, bd2, less[k]) /\ Before(req, bd2, left, less[k])
    <2>1. Starting(req, bd2, less[k]) /\ Before(req, bd2, dfs, less[k])
      BY <1>1, <1>3 DEF Bodies
    <2>2. Before(req, bd2, left, less[k])
      BY <1>7, <1>8, <2>1 DEF Before
    <2> QED BY <2>1, <2>2
  <1>10. Bodies(req, bd2, left, less)
    BY <1>1, <1>2, <1>3, <1>9 DEF Bodies
  <1> QED BY <1>7, <1>10 DEF less, left, P, me, w

\* What happens to the bodies of other modules does not matter.
LEMMA BodiesKeep ==
  ASSUME NEW req, Graph(req), DOMAIN req \subseteq Modules, NEW ix, NEW an, NEW dfs, NEW work,
         Core(req, ix, an, dfs, work), NEW bd, Bodies(req, bd, dfs, work), NEW bd2,
         \A m \in ToSet(dfs) : bd2[m] = bd[m], \A m \in Modules : Over(bd, m) => Over(bd2, m)
  PROVE  Bodies(req, bd2, dfs, work)
  <1>1. ASSUME NEW k \in 1 .. Len(work)
        PROVE  Starting(req, bd2, work[k]) /\ Before(req, bd2, dfs, work[k])
    <2>1. Starting(req, bd, work[k]) /\ Before(req, bd, dfs, work[k])
      BY DEF Bodies
    <2>2. bd2[work[k].module] = bd[work[k].module]
      BY DEF Core, Visiting
    <2>3. Fresh(bd2, work[k].module) <=> Fresh(bd, work[k].module)
      BY <2>2, Zenon DEF Fresh
    <2>4. work[k] \in Visits(DOMAIN req)
      BY VisitTypes DEF Core
    <2>5. Before(req, bd2, dfs, work[k])
      BY <2>1, <2>4, BeforeKeeps
    <2> QED BY <2>1, <2>2, <2>3, <2>5 DEF Starting
  <1>2. \A m \in ToSet(dfs) : Over(bd2, m) \/ \E k \in 1 .. Len(work) : work[k].module = m
    <2>1. \A m \in ToSet(dfs) : Over(bd2, m) <=> Over(bd, m)
      BY DEF Over
    <2> QED BY <2>1 DEF Bodies
  <1> QED BY <1>1, <1>2 DEF Bodies

-----------------------------------------------------------------------------
(* The searches in progress: ims *)

Calls(N) == [module : N, op : {"link", "eval"}, dfs : Seq(N), work : Seq(Visits(N)), index : Int]

EvalSearch(req, st, ix, an, bd, s) ==
  /\ s \in Calls(DOMAIN req) /\ s.op = "eval"
  /\ Core(req, ix, an, s.dfs, s.work) /\ Bodies(req, bd, s.dfs, s.work)
  /\ \A m \in ToSet(s.dfs) : st[m] = "Evaluating"
  /\ s.work # <<>> /\ s.work[1].module = s.module /\ At(s.dfs, s.work, 1) = 1

LinkSearch(req, st, ix, an, s) ==
  /\ s \in Calls(DOMAIN req) /\ s.op = "link"
  /\ Linkage(req, st, ix, an, s.dfs, s.work, s.index)
  /\ IF s.work = <<>> THEN st[s.module] = "Linked"
     ELSE s.work[1].module = s.module /\ At(s.dfs, s.work, 1) = 1

\* No module is on two stacks.
Separate(ims) == \A i, j \in 1 .. Len(ims) :
  \A m \in ToSet(ims[i].dfs) : m \in ToSet(ims[j].dfs) => i = j

\* The modules that are Linking are those on the innermost stack of a link.
Linkings(st, ims) == \A m \in Modules : st[m] = "Linking" =>
  ims # <<>> /\ ims[Len(ims)].op = "link" /\ m \in ToSet(ims[Len(ims)].dfs)

Searches(req, st, ix, an, bd, ims) ==
  /\ ims \in Seq(Calls(DOMAIN req))
  /\ \A i \in 1 .. Len(ims) :
       \/ EvalSearch(req, st, ix, an, bd, ims[i])
       \/ i = Len(ims) /\ LinkSearch(req, st, ix, an, ims[i])
  /\ Separate(ims) /\ Linkings(st, ims)

LEMMA SearchKeeps ==
  ASSUME NEW req, Graph(req), DOMAIN req \subseteq Modules,
         NEW st, NEW ix, NEW an, NEW bd, NEW st2, NEW ix2, NEW an2, NEW bd2, NEW s,
         EvalSearch(req, st, ix, an, bd, s),
         \A m \in ToSet(s.dfs) : st2[m] = st[m] /\ ix2[m] = ix[m] /\ an2[m] = an[m] /\ bd2[m] = bd[m],
         \A m \in Modules : Over(bd, m) => Over(bd2, m)
  PROVE  EvalSearch(req, st2, ix2, an2, bd2, s)
  <1>1. Core(req, ix2, an2, s.dfs, s.work)
    BY CoreKeeps DEF EvalSearch
  <1>2. Bodies(req, bd2, s.dfs, s.work)
    BY BodiesKeep DEF EvalSearch
  <1> QED BY <1>1, <1>2 DEF EvalSearch

\* The innermost search becomes s: what is new on its stack is on no other.
Replaces(req, st, ix, an, bd, ims, st2, ix2, an2, bd2, s) ==
  /\ Searches(req, st, ix, an, bd, ims) /\ ims # <<>> /\ s \in Calls(DOMAIN req)
  /\ EvalSearch(req, st2, ix2, an2, bd2, s) \/ LinkSearch(req, st2, ix2, an2, s)
  /\ \A m \in ToSet(s.dfs) :
       m \in ToSet(ims[Len(ims)].dfs) \/ \A i \in 1 .. Len(ims) : m \notin ToSet(ims[i].dfs)
  /\ \A m \in Modules : m \notin ToSet(ims[Len(ims)].dfs) /\ m \notin ToSet(s.dfs) =>
       st2[m] = st[m] /\ ix2[m] = ix[m] /\ an2[m] = an[m] /\ bd2[m] = bd[m]
  /\ \A m \in Modules : Over(bd, m) => Over(bd2, m)
  /\ \A m \in Modules : st2[m] = "Linking" => s.op = "link" /\ m \in ToSet(s.dfs)

LEMMA Replaced ==
  ASSUME NEW req, Graph(req), DOMAIN req \subseteq Modules, NEW st, NEW ix, NEW an, NEW bd, NEW ims,
         NEW st2, NEW ix2, NEW an2, NEW bd2, NEW s,
         Replaces(req, st, ix, an, bd, ims, st2, ix2, an2, bd2, s)
  PROVE  Searches(req, st2, ix2, an2, bd2, [ims EXCEPT ![Len(ims)] = s])
  <1> DEFINE n == Len(ims)
             ims2 == [ims EXCEPT ![n] = s]
  <1>1. ims \in Seq(Calls(DOMAIN req)) /\ Separate(ims)
    BY DEF Replaces, Searches
  <1>2. n \in Nat /\ n \in 1 .. n
    BY <1>1 DEF Replaces
  <1>3. /\ ims2 \in Seq(Calls(DOMAIN req)) /\ Len(ims2) = n
        /\ \A i \in 1 .. n : ims2[i] = IF i = n THEN s ELSE ims[i]
    BY <1>1, <1>2, ExceptSeq DEF Replaces
  <1> HIDE DEF ims2
  <1>4. ASSUME NEW i \in 1 .. n, i # n
        PROVE  EvalSearch(req, st2, ix2, an2, bd2, ims2[i])
    <2>1. EvalSearch(req, st, ix, an, bd, ims[i]) /\ ims2[i] = ims[i]
      BY <1>3, <1>4 DEF Replaces, Searches
    <2>2. \A m \in ToSet(ims[i].dfs) : m \notin ToSet(ims[n].dfs) /\ m \notin ToSet(s.dfs)
      BY <1>1, <1>2, <1>4 DEF Separate, Replaces
    <2>3. \A m \in ToSet(ims[i].dfs) : m \in Modules
      BY <2>1, InSet DEF EvalSearch, Core
    <2>4. \A m \in ToSet(ims[i].dfs) : st2[m] = st[m] /\ ix2[m] = ix[m] /\ an2[m] = an[m] /\ bd2[m] = bd[m]
      BY <2>2, <2>3 DEF Replaces
    <2>5. \A m \in Modules : Over(bd, m) => Over(bd2, m)
      BY DEF Replaces
    <2> QED BY <2>1, <2>4, <2>5, SearchKeeps
  <1>5. Separate(ims2)
    <2> SUFFICES ASSUME NEW i \in 1 .. n, NEW j \in 1 .. n, NEW m \in ToSet(ims2[i].dfs),
                        m \in ToSet(ims2[j].dfs), i # j
                 PROVE  FALSE
      BY <1>3, Zenon DEF Separate
    <2>1. CASE i # n /\ j # n
      BY <1>1, <1>3, <2>1 DEF Separate
    <2>2. CASE i = n /\ j # n
      <3>1. m \in ToSet(s.dfs) /\ m \in ToSet(ims[j].dfs)
        BY <1>3, <2>2
      <3> QED BY <1>1, <2>2, <3>1 DEF Separate, Replaces
    <2>3. CASE i # n /\ j = n
      <3>1. m \in ToSet(s.dfs) /\ m \in ToSet(ims[i].dfs)
        BY <1>3, <2>3
      <3> QED BY <1>1, <2>3, <3>1 DEF Separate, Replaces
    <2> QED BY <2>1, <2>2, <2>3
  <1>6. Linkings(st2, ims2)
    <2>1. ims2 # <<>> /\ ims2[n] = s
      BY <1>2, <1>3
    <2> QED BY <1>3, <2>1 DEF Linkings, Replaces
  <1>7. \A i \in 1 .. n : \/ EvalSearch(req, st2, ix2, an2, bd2, ims2[i])
                          \/ i = n /\ LinkSearch(req, st2, ix2, an2, ims2[i])
    BY <1>3, <1>4 DEF Replaces
  <1>8. Searches(req, st2, ix2, an2, bd2, ims2)
    BY <1>3, <1>5, <1>6, <1>7 DEF Searches
  <1> QED BY <1>8 DEF ims2

\* A search s begins inside the others, all of which evaluate.
Starts(req, st, ix, an, bd, ims, st2, ix2, an2, s, m0) ==
  /\ Searches(req, st, ix, an, bd, ims)
  /\ \A m \in Modules : st[m] # "Linking"
  /\ \A i \in 1 .. Len(ims) : ims[i].op = "eval" /\ m0 \notin ToSet(ims[i].dfs)
  /\ s \in Calls(DOMAIN req) /\ ToSet(s.dfs) = {m0}
  /\ EvalSearch(req, st2, ix2, an2, bd, s) \/ LinkSearch(req, st2, ix2, an2, s)
  /\ \A m \in Modules : m # m0 => st2[m] = st[m] /\ ix2[m] = ix[m] /\ an2[m] = an[m]
  /\ st2[m0] = "Linking" => s.op = "link"

LEMMA Started ==
  ASSUME NEW req, Graph(req), DOMAIN req \subseteq Modules, NEW st, NEW ix, NEW an, NEW bd, NEW ims,
         NEW st2, NEW ix2, NEW an2, NEW s, NEW m0, Starts(req, st, ix, an, bd, ims, st2, ix2, an2, s, m0)
  PROVE  Searches(req, st2, ix2, an2, bd, Append(ims, s))
  <1> DEFINE n == Len(ims)
             ims2 == Append(ims, s)
  <1>1. ims \in Seq(Calls(DOMAIN req)) /\ Separate(ims) /\ n \in Nat
    BY DEF Starts, Searches
  <1>2. /\ ims2 \in Seq(Calls(DOMAIN req)) /\ Len(ims2) = n + 1
        /\ \A i \in 1 .. n : ims2[i] = ims[i]
        /\ ims2[n + 1] = s
    BY <1>1, AppendProperties DEF Starts
  <1> HIDE DEF ims2
  <1>3. \A i : i \in 1 .. n + 1 <=> i \in 1 .. n \/ i = n + 1
    BY <1>1
  <1>4. ASSUME NEW i \in 1 .. n
        PROVE  EvalSearch(req, st2, ix2, an2, bd, ims2[i])
    <2>1. EvalSearch(req, st, ix, an, bd, ims[i]) /\ ims2[i] = ims[i]
      BY <1>2 DEF Starts, Searches, LinkSearch
    <2>2. \A m \in ToSet(ims[i].dfs) : m # m0 /\ m \in Modules
      BY <2>1, InSet DEF EvalSearch, Core, Starts
    <2>3. \A m \in ToSet(ims[i].dfs) : st2[m] = st[m] /\ ix2[m] = ix[m] /\ an2[m] = an[m]
      BY <2>2 DEF Starts
    <2> QED BY <2>1, <2>3, SearchKeeps
  <1>5. Separate(ims2)
    <2> SUFFICES ASSUME NEW i \in 1 .. n + 1, NEW j \in 1 .. n + 1, NEW m \in ToSet(ims2[i].dfs),
                        m \in ToSet(ims2[j].dfs), i # j
                 PROVE  FALSE
      BY <1>2, Zenon DEF Separate
    <2>1. CASE i \in 1 .. n /\ j \in 1 .. n
      BY <1>1, <1>2, <2>1 DEF Separate
    <2>2. CASE i = n + 1 /\ j \in 1 .. n
      BY <1>2, <2>2 DEF Starts
    <2>3. CASE i \in 1 .. n /\ j = n + 1
      BY <1>2, <2>3 DEF Starts
    <2> QED BY <1>3, <2>1, <2>2, <2>3
  <1>6. Linkings(st2, ims2)
    <2> SUFFICES ASSUME NEW m \in Modules, st2[m] = "Linking"
                 PROVE  ims2 # <<>> /\ s.op = "link" /\ m \in ToSet(s.dfs)
      BY <1>2, Zenon DEF Linkings
    <2>1. m = m0
      BY DEF Starts
    <2>2. ims2 # <<>>
      BY <1>1, <1>2
    <2> QED BY <2>1, <2>2 DEF Starts
  <1>7. \A i \in 1 .. n + 1 : \/ EvalSearch(req, st2, ix2, an2, bd, ims2[i])
                              \/ i = n + 1 /\ LinkSearch(req, st2, ix2, an2, ims2[i])
    BY <1>2, <1>3, <1>4 DEF Starts
  <1>8. Searches(req, st2, ix2, an2, bd, ims2)
    BY <1>2, <1>5, <1>6, <1>7 DEF Searches
  <1> QED BY <1>8 DEF ims2

\* The innermost search is over.
LEMMA Finished ==
  ASSUME NEW req, NEW st, NEW ix, NEW an, NEW bd, NEW ims, Searches(req, st, ix, an, bd, ims), ims # <<>>,
         NEW st2, NEW ix2, NEW an2, NEW bd2,
         Graph(req), DOMAIN req \subseteq Modules,
         \A m \in Modules : m \notin ToSet(ims[Len(ims)].dfs) =>
           st2[m] = st[m] /\ ix2[m] = ix[m] /\ an2[m] = an[m] /\ bd2[m] = bd[m],
         \A m \in Modules : Over(bd, m) => Over(bd2, m),
         \A m \in Modules : st2[m] # "Linking"
  PROVE  /\ Searches(req, st2, ix2, an2, bd2, Front(ims))
         /\ \A i \in 1 .. Len(Front(ims)) :
              Front(ims)[i].op = "eval" /\ \A m \in ToSet(Front(ims)[i].dfs) : m \notin ToSet(ims[Len(ims)].dfs)
  <1> DEFINE n == Len(ims)
             ims2 == Front(ims)
  <1>1. ims \in Seq(Calls(DOMAIN req)) /\ Separate(ims)
    BY DEF Searches
  <1>2. /\ ims2 \in Seq(Calls(DOMAIN req)) /\ Len(ims2) = n - 1 /\ n \in Nat \ {0}
        /\ \A i \in 1 .. n - 1 : ims2[i] = ims[i]
    BY <1>1, FrontIs
  <1> HIDE DEF ims2
  <1>3. \A i \in 1 .. n - 1 : i \in 1 .. n /\ i # n /\ n \in 1 .. n
    BY <1>2
  <1>4. ASSUME NEW i \in 1 .. n - 1
        PROVE  /\ EvalSearch(req, st2, ix2, an2, bd2, ims2[i]) /\ ims2[i].op = "eval"
               /\ \A m \in ToSet(ims2[i].dfs) : m \notin ToSet(ims[n].dfs)
    <2>1. EvalSearch(req, st, ix, an, bd, ims[i]) /\ ims2[i] = ims[i]
      BY <1>2, <1>3 DEF Searches
    <2>2. \A m \in ToSet(ims[i].dfs) : m \notin ToSet(ims[n].dfs)
      BY <1>1, <1>3 DEF Separate
    <2>3. \A m \in ToSet(ims[i].dfs) : m \in Modules
      BY <2>1, InSet DEF EvalSearch, Core
    <2>4. \A m \in ToSet(ims[i].dfs) : st2[m] = st[m] /\ ix2[m] = ix[m] /\ an2[m] = an[m] /\ bd2[m] = bd[m]
      BY <2>2, <2>3
    <2>5. EvalSearch(req, st2, ix2, an2, bd2, ims[i])
      BY <2>1, <2>4, SearchKeeps
    <2> QED BY <2>1, <2>2, <2>5 DEF EvalSearch
  <1>5. Separate(ims2)
    BY <1>1, <1>2, <1>3 DEF Separate
  <1>6. Linkings(st2, ims2)
    BY DEF Linkings
  <1>7. Searches(req, st2, ix2, an2, bd2, ims2)
    BY <1>2, <1>4, <1>5, <1>6 DEF Searches
  <1> QED BY <1>2, <1>4, <1>7 DEF ims2

\* No search is in progress.
LEMMA Unwound ==
  ASSUME NEW req, NEW st, NEW ix, NEW an, NEW bd, \A m \in Modules : st[m] # "Linking"
  PROVE  Searches(req, st, ix, an, bd, <<>>)
  <1>1. <<>> \in Seq(Calls(DOMAIN req)) /\ Len(<<>>) = 0
    OBVIOUS
  <1>2. \A i \in 1 .. 0 : FALSE
    OBVIOUS
  <1> QED BY <1>1, <1>2, Zenon DEF Searches, Separate, Linkings

-----------------------------------------------------------------------------
(* What is recorded of modules *)

\* All that a linked module imports is linked.
Closed(req, st) == \A m \in DOMAIN req :
  Settled(st, m) => \A r \in ToSet(req[m]) : Settled(st, r)

\* An error comes from a body.
Blamed(req, bd, m) == \E r \in Modules : bd[r] = "threw" /\ (r = m \/ Goes(req, m, r))
Failed(req, st, err, bd) == \A m \in err :
  m \in DOMAIN req /\ st[m] = "Evaluated" /\ Blamed(req, bd, m)

\* A module that was evaluated without an error has its root and has run.
Grounded(req, st, root, bd, m) ==
  /\ root[m] \in DOMAIN req /\ st[root[m]] = "Evaluated" /\ (m = root[m] \/ Goes(req, m, root[m]))
  /\ Over(bd, m)
Rooted(req, st, root, err, bd) == \A m \in DOMAIN req :
  st[m] = "Evaluated" /\ m \notin err => Grounded(req, st, root, bd, m)

\* A body runs while its module is evaluating.
Ran(req, st, bd) ==
  /\ \A m \in Modules : bd[m] = "threw" => st[m] = "Evaluated"
  /\ \A m \in DOMAIN req : st[m] \in {"Unlinked", "Linking", "Linked"} => Fresh(bd, m)

Records(req, st, root, err, bd) ==
  Closed(req, st) /\ Failed(req, st, err, bd) /\ Rooted(req, st, root, err, bd) /\ Ran(req, st, bd)

\* Modules become Linking, Unlinked again, or Linked.
LEMMA RecordsLink ==
  ASSUME NEW req, Graph(req), DOMAIN req \subseteq Modules, NEW st \in [Modules -> Statuses],
         NEW root, NEW err, NEW bd, Records(req, st, root, err, bd), NEW st2,
         \A m \in Modules : st2[m] = st[m]
           \/ (st[m] \in {"Unlinked", "Linking"} /\ st2[m] \in {"Unlinked", "Linking", "Linked"}),
         \A m \in DOMAIN req : Settled(st2, m) /\ ~Settled(st, m) =>
           \A r \in ToSet(req[m]) : Settled(st2, r)
  PROVE  Records(req, st2, root, err, bd)
  <1>1. \A m \in Modules : Settled(st, m) => st2[m] = st[m] /\ Settled(st2, m)
    BY DEF Settled
  <1>2. \A m \in Modules : st2[m] = "Evaluated" <=> st[m] = "Evaluated"
    OBVIOUS
  <1>3. Closed(req, st2)
    <2> SUFFICES ASSUME NEW m \in DOMAIN req, Settled(st2, m), NEW r \in ToSet(req[m])
                 PROVE  Settled(st2, r)
      BY DEF Closed
    <2>1. CASE Settled(st, m)
      <3>1. Settled(st, r)
        BY <2>1 DEF Closed, Records
      <3>2. r \in Modules
        <4>1. req[m] \in Seq(DOMAIN req)
          BY DEF Graph
        <4> QED BY <4>1, InSet
      <3> QED BY <1>1, <3>1, <3>2
    <2>2. CASE ~Settled(st, m)
      BY <2>2
    <2> QED BY <2>1, <2>2
  <1>4. Failed(req, st2, err, bd)
    BY <1>2 DEF Records, Failed
  <1>5. Rooted(req, st2, root, err, bd)
    BY <1>2 DEF Records, Rooted, Grounded
  <1>6. Ran(req, st2, bd)
    <2>1. \A m \in Modules : bd[m] = "threw" => st2[m] = "Evaluated"
      BY <1>2 DEF Records, Ran
    <2>2. \A m \in DOMAIN req : st2[m] \in {"Unlinked", "Linking", "Linked"} => Fresh(bd, m)
      BY DEF Records, Ran
    <2> QED BY <2>1, <2>2 DEF Ran
  <1> QED BY <1>3, <1>4, <1>5, <1>6 DEF Records

\* Modules become Evaluating or Evaluated, and bodies run.
Evaluates(req, st, root, err, bd, st2, root2, err2, bd2) ==
  /\ err \subseteq err2
  /\ \A m \in Modules : st2[m] = st[m]
       \/ (st[m] = "Linked" /\ st2[m] = "Evaluating")
       \/ (st[m] = "Evaluating" /\ st2[m] = "Evaluated")
  /\ \A m \in Modules : (bd[m] = "threw" => bd2[m] = "threw") /\ (Over(bd, m) => Over(bd2, m))
  /\ \A m \in err2 : m \in err \/ (m \in DOMAIN req /\ st2[m] = "Evaluated" /\ Blamed(req, bd2, m))
  /\ \A m \in DOMAIN req : st2[m] = "Evaluated" /\ m \notin err2 =>
       (st[m] = "Evaluated" /\ root2[m] = root[m]) \/ Grounded(req, st2, root2, bd2, m)
  /\ \A m \in Modules : bd2[m] = "threw" => bd[m] = "threw" \/ st2[m] = "Evaluated"
  /\ \A m \in DOMAIN req : st2[m] \in {"Unlinked", "Linking", "Linked"} => bd2[m] = bd[m]

LEMMA RecordsEval ==
  ASSUME NEW req, Graph(req), DOMAIN req \subseteq Modules,
         NEW st, NEW root, NEW err, NEW bd, Records(req, st, root, err, bd),
         NEW st2, NEW root2, NEW err2, NEW bd2, Evaluates(req, st, root, err, bd, st2, root2, err2, bd2)
  PROVE  Records(req, st2, root2, err2, bd2)
  <1>1. \A m \in Modules : Settled(st2, m) <=> Settled(st, m)
    BY DEF Settled, Evaluates
  <1>2. \A m \in Modules : st[m] = "Evaluated" => st2[m] = "Evaluated"
    BY DEF Evaluates
  <1>3. Closed(req, st2)
    <2> SUFFICES ASSUME NEW m \in DOMAIN req, Settled(st2, m), NEW r \in ToSet(req[m])
                 PROVE  Settled(st2, r)
      BY DEF Closed
    <2>1. Settled(st, r)
      BY <1>1 DEF Closed, Records
    <2>2. r \in Modules
      <3>1. req[m] \in Seq(DOMAIN req)
        BY DEF Graph
      <3> QED BY <3>1, InSet
    <2> QED BY <1>1, <2>1, <2>2
  <1>4. Failed(req, st2, err2, bd2)
    <2> SUFFICES ASSUME NEW m \in err2
                 PROVE  m \in DOMAIN req /\ st2[m] = "Evaluated" /\ Blamed(req, bd2, m)
      BY DEF Failed
    <2>1. CASE m \in err
      <3>1. m \in DOMAIN req /\ st[m] = "Evaluated" /\ Blamed(req, bd, m)
        BY <2>1 DEF Records, Failed
      <3>2. Blamed(req, bd2, m)
        BY <3>1 DEF Blamed, Evaluates
      <3> QED BY <1>2, <3>1, <3>2
    <2>2. CASE m \notin err
      BY <2>2 DEF Evaluates
    <2> QED BY <2>1, <2>2
  <1>5. Rooted(req, st2, root2, err2, bd2)
    <2> SUFFICES ASSUME NEW m \in DOMAIN req, st2[m] = "Evaluated", m \notin err2
                 PROVE  Grounded(req, st2, root2, bd2, m)
      BY DEF Rooted
    <2>1. CASE st[m] = "Evaluated" /\ root2[m] = root[m]
      <3>0. m \notin err
        BY DEF Evaluates
      <3>1. Grounded(req, st, root, bd, m)
        BY <2>1, <3>0 DEF Records, Rooted
      <3> QED BY <1>2, <2>1, <3>1 DEF Grounded, Evaluates
    <2> QED BY <2>1 DEF Evaluates
  <1>6. Ran(req, st2, bd2)
    <2>1. \A m \in Modules : bd2[m] = "threw" => st2[m] = "Evaluated"
      BY <1>2 DEF Records, Ran, Evaluates
    <2>2. \A m \in DOMAIN req : st2[m] \in {"Unlinked", "Linking", "Linked"} => Fresh(bd2, m)
      <3> TAKE m \in DOMAIN req
      <3> HAVE st2[m] \in {"Unlinked", "Linking", "Linked"}
      <3>1. bd2[m] = bd[m] /\ st[m] \in {"Unlinked", "Linking", "Linked"}
        BY DEF Evaluates
      <3>2. Fresh(bd, m)
        BY <3>1 DEF Records, Ran
      <3> QED BY <3>1, <3>2, Zenon DEF Fresh
    <2> QED BY <2>1, <2>2 DEF Ran
  <1> QED BY <1>3, <1>4, <1>5, <1>6 DEF Records

-----------------------------------------------------------------------------
(* The invariant of the engine *)

BodyStates == {"not started", "running", "returned", "threw"}

Types ==
  /\ requests \in Graphs
  /\ status \in [Modules -> Statuses]
  /\ dfsIndex \in [Modules -> Int] /\ dfsAncestor \in [Modules -> Int]
  /\ cycleRoot \in [Modules -> Modules \cup {NoModule}]
  /\ evalError \subseteq Modules /\ initialized \subseteq Modules
  /\ contexts \in Seq(Modules) /\ answer \in Outcomes /\ calls \in 0 .. MaxCalls
  /\ body \in [Modules -> BodyStates]
  /\ fault \subseteq KnownFaults

Inv ==
  /\ Types
  /\ Searches(requests, status, dfsIndex, dfsAncestor, body, imports)
  /\ Records(requests, status, cycleRoot, evalError, body)

LEMMA TypesGive ==
  ASSUME Types
  PROVE  /\ Graph(requests) /\ DOMAIN requests \subseteq Modules
         /\ Indices(requests, dfsIndex) /\ Indices(requests, dfsAncestor)
         /\ DOMAIN body = Modules /\ DOMAIN status = Modules
  BY GraphsAssumption DEF Types, Graph, Indices

\* Whatever is on a stack is Linking or Evaluating.
LEMMA OnStacks ==
  ASSUME Inv, NEW i \in 1 .. Len(imports), NEW m \in ToSet(imports[i].dfs)
  PROVE  /\ m \in DOMAIN requests /\ m \in Modules
         /\ status[m] = "Evaluating" \/ (i = Len(imports) /\ Top.op = "link" /\ status[m] = "Linking")
         /\ imports[i].op = "eval" => status[m] = "Evaluating"
  <1>1. DOMAIN requests \subseteq Modules
    BY TypesGive DEF Inv
  <1>2. CASE EvalSearch(requests, status, dfsIndex, dfsAncestor, body, imports[i])
    <2>1. m \in DOMAIN requests
      BY <1>2, InSet DEF EvalSearch, Core
    <2> QED BY <1>1, <1>2, <2>1 DEF EvalSearch
  <1>3. CASE i = Len(imports) /\ LinkSearch(requests, status, dfsIndex, dfsAncestor, imports[i])
    <2>1. m \in DOMAIN requests
      BY <1>3, InSet DEF LinkSearch, Linkage, Core
    <2>2. status[m] = "Linking"
      BY <1>1, <1>3, <2>1 DEF LinkSearch, Linkage
    <2>3. imports[i].op = "link" /\ Top = imports[i]
      BY <1>3 DEF LinkSearch, Top, Last
    <2> QED BY <1>1, <1>3, <2>1, <2>2, <2>3
  <1> QED BY <1>2, <1>3 DEF Inv, Searches

\* The innermost search.
LEMMA Innermost ==
  ASSUME Inv, imports # <<>>
  PROVE  /\ imports \in Seq(Calls(DOMAIN requests)) /\ Len(imports) \in 1 .. Len(imports)
         /\ Len(imports) \in Nat
         /\ Top = imports[Len(imports)] /\ Top \in Calls(DOMAIN requests)
         /\ Top.op = "link" => LinkSearch(requests, status, dfsIndex, dfsAncestor, Top)
         /\ Top.op = "eval" => /\ EvalSearch(requests, status, dfsIndex, dfsAncestor, body, Top)
                               /\ \A m \in Modules : status[m] # "Linking"
                               /\ \A i \in 1 .. Len(imports) : imports[i].op = "eval"
         /\ Core(requests, dfsIndex, dfsAncestor, Top.dfs, Top.work)
         /\ \A m \in ToSet(Top.dfs) : m \in DOMAIN requests /\ m \in Modules
         /\ \A m \in Modules : status[m] = "Linking" => Top.op = "link" /\ m \in ToSet(Top.dfs)
  <1>1. imports \in Seq(Calls(DOMAIN requests)) /\ Linkings(status, imports)
    BY DEF Inv, Searches
  <1>2. Len(imports) \in Nat /\ Len(imports) \in 1 .. Len(imports)
    BY <1>1
  <1>3. Top = imports[Len(imports)] /\ Top \in Calls(DOMAIN requests)
    BY <1>1, <1>2, ElementOfSeq DEF Top, Last
  <1>4. \/ EvalSearch(requests, status, dfsIndex, dfsAncestor, body, Top)
        \/ LinkSearch(requests, status, dfsIndex, dfsAncestor, Top)
    BY <1>2, <1>3 DEF Inv, Searches
  <1>5. \A m \in ToSet(Top.dfs) : m \in DOMAIN requests /\ m \in Modules
    BY <1>2, <1>3, OnStacks
  <1>6. \A m \in Modules : status[m] = "Linking" => Top.op = "link" /\ m \in ToSet(Top.dfs)
    BY <1>1, <1>3 DEF Linkings
  <1>7. Core(requests, dfsIndex, dfsAncestor, Top.dfs, Top.work)
    BY <1>4 DEF EvalSearch, LinkSearch, Linkage
  <1>8. ASSUME Top.op = "eval", NEW i \in 1 .. Len(imports)
        PROVE  imports[i].op = "eval"
    BY <1>2, <1>3, <1>8 DEF Inv, Searches, EvalSearch, LinkSearch
  <1>9. Top.op = "eval" => EvalSearch(requests, status, dfsIndex, dfsAncestor, body, Top)
    BY <1>4 DEF LinkSearch
  <1>10. Top.op = "link" => LinkSearch(requests, status, dfsIndex, dfsAncestor, Top)
    BY <1>4 DEF EvalSearch
  <1> QED BY <1>1, <1>2, <1>3, <1>5, <1>6, <1>7, <1>8, <1>9, <1>10

\* Its last visit.
LEMMA Foremost ==
  ASSUME Inv, imports # <<>>, Top.work # <<>>
  PROVE  /\ Len(Top.work) \in 1 .. Len(Top.work) /\ Len(Top.work) \in Nat
         /\ Frame = Top.work[Len(Top.work)] /\ Frame \in Visits(DOMAIN requests)
         /\ Me = Top.work[Len(Top.work)].module
         /\ Me \in ToSet(Top.dfs) /\ Me \in DOMAIN requests /\ Me \in Modules
         /\ Len(requests[Me]) \in Nat
         /\ Ahead => /\ Frame.next \in 1 .. Len(requests[Me])
                     /\ Required \in DOMAIN requests /\ Required \in Modules
                     /\ Required \in ToSet(requests[Me])
  <1>1. Core(requests, dfsIndex, dfsAncestor, Top.dfs, Top.work)
    BY Innermost
  <1>2. Top.work \in Seq(Visits(DOMAIN requests))
    BY <1>1 DEF Core
  <1>3. /\ Len(Top.work) \in 1 .. Len(Top.work) /\ Len(Top.work) \in Nat
        /\ Top.work[Len(Top.work)] \in Visits(DOMAIN requests)
    BY <1>2, VisitTypes
  <1>4. Frame = Top.work[Len(Top.work)] /\ Me = Top.work[Len(Top.work)].module
    BY DEF Frame, Me, Last
  <1>5. Me \in ToSet(Top.dfs)
    BY <1>1, <1>4, WorkFront
  <1>6. Me \in DOMAIN requests /\ Me \in Modules
    BY <1>5, Innermost
  <1>7. Graph(requests) /\ DOMAIN requests \subseteq Modules
    BY TypesGive DEF Inv
  <1>8. Len(requests[Me]) \in Nat
    BY <1>6, <1>7, LenProperties DEF Graph
  <1>9. ASSUME Ahead
        PROVE  /\ Frame.next \in 1 .. Len(requests[Me])
               /\ Required \in DOMAIN requests /\ Required \in Modules
               /\ Required \in ToSet(requests[Me])
    <2>1. Frame.next \in Nat \ {0}
      BY <1>3, <1>4 DEF Visits
    <2>2. Frame.next \in 1 .. Len(requests[Me])
      BY <1>8, <1>9, <2>1 DEF Ahead
    <2>3. Required \in DOMAIN requests /\ Required \in ToSet(requests[Me])
      BY <1>6, <1>7, <2>2, EdgeIs DEF Required
    <2> QED BY <1>7, <2>2, <2>3
  <1> QED BY <1>3, <1>4, <1>5, <1>6, <1>8, <1>9

LEMMA Answers ==
  ASSUME Inv, imports # <<>>
  PROVE  Top.module \in Modules /\ imports[1].module \in Modules
         /\ \A ok \in BOOLEAN : /\ [module |-> Top.module, ok |-> ok] \in Outcomes
                                /\ [module |-> imports[1].module, ok |-> ok] \in Outcomes
  <1>1. imports \in Seq(Calls(DOMAIN requests)) /\ 1 \in 1 .. Len(imports) /\ Top \in Calls(DOMAIN requests)
    BY Innermost
  <1>2. imports[1] \in Calls(DOMAIN requests)
    BY <1>1, ElementOfSeq
  <1>3. Top.module \in Modules /\ imports[1].module \in Modules
    BY <1>1, <1>2, TypesGive DEF Calls, Inv
  <1> QED BY <1>3 DEF Outcomes

\* The search of an import begins where it should.
LEMMA FirstAt ==
  ASSUME NEW req, NEW m \in DOMAIN req
  PROVE  At(<<m>>, <<Visit(m)>>, 1) = 1
  <1> DEFINE dfs == <<m>>
  <1>1. dfs \in Seq({m}) /\ Len(dfs) = 1 /\ dfs[1] = m /\ 1 \in 1 .. Len(dfs)
    OBVIOUS
  <1>2. <<Visit(m)>>[1].module = m
    BY DEF Visit
  <1> HIDE DEF dfs
  <1>3. Once(dfs)
    BY <1>1 DEF Once
  <1>4. Place(dfs, dfs[1]) = 1
    BY <1>1, <1>3, PlaceIs, Zenon
  <1>5. At(dfs, <<Visit(m)>>, 1) = 1
    BY <1>1, <1>2, <1>4 DEF At
  <1> QED BY <1>5 DEF dfs

LEMMA SearchIs ==
  ASSUME NEW req, NEW m \in DOMAIN req, NEW op \in {"link", "eval"}
  PROVE  LET s == Search(m, op)
         IN /\ s \in Calls(DOMAIN req)
            /\ s.module = m /\ s.op = op /\ s.dfs = <<m>> /\ s.work = <<Visit(m)>> /\ s.index = 1
            /\ ToSet(s.dfs) = {m} /\ s.work # <<>> /\ s.work[1].module = s.module
            /\ At(s.dfs, s.work, 1) = 1
  <1> DEFINE dfs == <<m>>
             work == <<Visit(m)>>
             s == Search(m, op)
  <1>1. Visit(m) \in Visits(DOMAIN req) /\ Visit(m).module = m
    BY DEF Visit, Visits
  <1>2. dfs \in Seq(DOMAIN req) /\ work \in Seq(Visits(DOMAIN req))
    BY <1>1
  <1>3. ToSet(dfs) = {m}
    BY DEF ToSet
  <1>4. work # <<>> /\ work[1].module = m
    BY <1>1
  <1>5. At(dfs, work, 1) = 1
    BY FirstAt
  <1> HIDE DEF dfs, work, s
  <1>6. s = [module |-> m, op |-> op, dfs |-> dfs, work |-> work, index |-> 1]
    BY DEF Search, dfs, work, s
  <1>7. /\ s \in Calls(DOMAIN req)
        /\ s.module = m /\ s.op = op /\ s.dfs = dfs /\ s.work = work /\ s.index = 1
    BY <1>2, <1>6 DEF Calls
  <1>8. s.dfs = <<m>> /\ s.work = <<Visit(m)>>
    BY <1>7 DEF dfs, work
  <1> QED BY <1>3, <1>4, <1>5, <1>7, <1>8 DEF s

\* Nothing is Linking while no link is in progress.
LEMMA NoLink ==
  ASSUME Inv, imports = <<>> \/ Top.op = "eval"
  PROVE  /\ \A m \in Modules : status[m] # "Linking"
         /\ \A i \in 1 .. Len(imports) : imports[i].op = "eval"
         /\ \A i \in 1 .. Len(imports) : \A m \in ToSet(imports[i].dfs) : status[m] = "Evaluating"
  <1>1. CASE imports = <<>>
    BY <1>1 DEF Inv, Searches, Linkings
  <1>2. CASE imports # <<>>
    BY <1>2, Innermost, OnStacks
  <1> QED BY <1>1, <1>2

LEMMA ImportModuleSafe ==
  ASSUME Inv, NEW m \in DOMAIN requests, ImportModule(m)
  PROVE  Inv'
  <1>1. imports = <<>> \/ Top.op = "eval"
    BY DEF ImportModule, Searching
  <1>2. /\ calls' \in 0 .. MaxCalls
        /\ UNCHANGED <<requests, cycleRoot, evalError, initialized, contexts, body, fault>>
    BY MaxCallsAssumption DEF ImportModule, recordVars, Inv, Types
  <1>3. /\ Graph(requests) /\ DOMAIN requests \subseteq Modules
        /\ Indices(requests, dfsIndex) /\ Indices(requests, dfsAncestor)
    BY TypesGive DEF Inv
  <1>4. CASE status[m] = "Unlinked" /\ Begin(imports, m, "link", "Linking") /\ UNCHANGED answer
    <2>1. /\ status' = [status EXCEPT ![m] = "Linking"]
          /\ dfsIndex' = [dfsIndex EXCEPT ![m] = 0]
          /\ dfsAncestor' = [dfsAncestor EXCEPT ![m] = 0]
          /\ imports' = Append(imports, Search(m, "link"))
      BY <1>4 DEF Begin
    <2>2. Types'
      BY <1>2, <1>3, <1>4, <2>1 DEF Inv, Types, Statuses
    <2>3. /\ \A r \in Modules : r # m => status'[r] = status[r] /\ dfsIndex'[r] = dfsIndex[r]
                                         /\ dfsAncestor'[r] = dfsAncestor[r]
          /\ status'[m] = "Linking" /\ m \in Modules
      BY <1>3, <2>1 DEF Inv, Types
    <2>4. Linkage(requests, status', dfsIndex', dfsAncestor', <<m>>, <<Visit(m)>>, 1)
      BY <1>1, <1>3, <2>1, NoLink, LinkBegins DEF Inv, Types
    <2>5. LinkSearch(requests, status', dfsIndex', dfsAncestor', Search(m, "link"))
      <3> DEFINE s == Search(m, "link")
      <3>1. /\ s \in Calls(DOMAIN requests) /\ s.op = "link" /\ s.module = m
            /\ s.dfs = <<m>> /\ s.work = <<Visit(m)>> /\ s.index = 1
            /\ s.work # <<>> /\ s.work[1].module = s.module
        BY SearchIs
      <3>2. At(s.dfs, s.work, 1) = 1
        BY SearchIs
      <3> HIDE DEF s
      <3>3. Linkage(requests, status', dfsIndex', dfsAncestor', s.dfs, s.work, s.index)
        BY <2>4, <3>1
      <3>4. LinkSearch(requests, status', dfsIndex', dfsAncestor', s)
        BY <3>1, <3>2, <3>3 DEF LinkSearch
      <3> QED BY <3>4 DEF s
    <2>6. \A i \in 1 .. Len(imports) : m \notin ToSet(imports[i].dfs)
      BY <1>1, <1>4, NoLink
    <2>7. Searches(requests, status', dfsIndex', dfsAncestor', body, imports')
      <3> DEFINE s == Search(m, "link")
      <3>0. /\ s \in Calls(DOMAIN requests) /\ s.op = "link" /\ s.module = m
            /\ s.dfs = <<m>> /\ s.work = <<Visit(m)>>
        BY SearchIs
      <3> HIDE DEF s
      <3>1. s \in Calls(DOMAIN requests) /\ s.op = "link" /\ ToSet(s.dfs) = {m}
        BY <3>0 DEF ToSet
      <3>2. Starts(requests, status, dfsIndex, dfsAncestor, body, imports,
                   status', dfsIndex', dfsAncestor', s, m)
        BY <1>1, <2>3, <2>5, <2>6, <3>1, NoLink DEF Inv, s, Starts
      <3>3. Searches(requests, status', dfsIndex', dfsAncestor', body, Append(imports, s))
        BY <1>3, <3>2, Started
      <3> QED BY <2>1, <3>3 DEF s
    <2>8. Records(requests, status', cycleRoot, evalError, body)
      <3>1. \A r \in Modules : status'[r] = status[r]
              \/ (status[r] \in {"Unlinked", "Linking"} /\ status'[r] \in {"Unlinked", "Linking", "Linked"})
        BY <1>4, <2>3
      <3>2. \A r \in DOMAIN requests : Settled(status', r) => Settled(status, r)
        BY <1>3, <2>3 DEF Settled
      <3> QED BY <1>3, <3>1, <3>2, RecordsLink DEF Inv, Types
    <2> QED BY <1>2, <2>2, <2>7, <2>8 DEF Inv
  <1>5. CASE /\ answer' = [module |-> m, ok |-> TRUE]
             /\ UNCHANGED <<status, imports, dfsVars>>
    <2>1. UNCHANGED <<status, imports, dfsIndex, dfsAncestor>>
      BY <1>5 DEF dfsVars
    <2>2. answer' \in Outcomes
      BY <1>3, <1>5 DEF Outcomes
    <2>3. Types'
      BY <1>2, <2>1, <2>2 DEF Inv, Types
    <2> QED BY <1>2, <2>1, <2>3 DEF Inv
  <1> QED BY <1>4, <1>5 DEF ImportModule

\* What Link's catch block leaves.
LEMMA CleanUpSafe ==
  ASSUME Inv, imports # <<>>, Top.op = "link", CleanUp
  PROVE  /\ status' \in [Modules -> Statuses] /\ initialized' \subseteq Modules
         /\ dfsIndex' \in [Modules -> Int] /\ dfsAncestor' \in [Modules -> Int]
         /\ Searches(requests, status', dfsIndex', dfsAncestor', body, Front(imports))
         /\ Searches(requests, status', dfsIndex', dfsAncestor', body, <<>>)
         /\ Records(requests, status', cycleRoot, evalError, body)
  <1> DEFINE D == ToSet(Top.dfs)
  <1>1. /\ Graph(requests) /\ DOMAIN requests \subseteq Modules /\ status \in [Modules -> Statuses]
        /\ dfsIndex \in [Modules -> Int] /\ dfsAncestor \in [Modules -> Int]
        /\ initialized \subseteq Modules
    BY TypesGive DEF Inv, Types
  <1>2. /\ status' = [m \in Modules |-> IF m \in D THEN "Unlinked" ELSE status[m]]
        /\ initialized' = initialized \ D
        /\ dfsIndex' = [m \in Modules |-> IF m \in D THEN -1 ELSE dfsIndex[m]]
        /\ dfsAncestor' = [m \in Modules |-> IF m \in D THEN -1 ELSE dfsAncestor[m]]
    BY DEF CleanUp, Reset
  <1>3. Top = imports[Len(imports)] /\ \A m \in Modules : status[m] = "Linking" => m \in D
    BY Innermost
  <1>4. \A m \in D : status[m] = "Linking"
    BY Innermost DEF LinkSearch, Linkage
  <1> HIDE DEF D
  <1>5. /\ status' \in [Modules -> Statuses] /\ initialized' \subseteq Modules
        /\ dfsIndex' \in [Modules -> Int] /\ dfsAncestor' \in [Modules -> Int]
    BY <1>1, <1>2 DEF Statuses
  <1>6. \A m \in Modules : status'[m] # "Linking"
    BY <1>2, <1>3
  <1>7. \A m \in Modules : m \notin D =>
          status'[m] = status[m] /\ dfsIndex'[m] = dfsIndex[m] /\ dfsAncestor'[m] = dfsAncestor[m]
    BY <1>2
  <1>8. Searches(requests, status', dfsIndex', dfsAncestor', body, Front(imports))
    BY <1>1, <1>3, <1>6, <1>7, Finished DEF Inv, D
  <1>9. Searches(requests, status', dfsIndex', dfsAncestor', body, <<>>)
    BY <1>6, Unwound
  <1>10. Records(requests, status', cycleRoot, evalError, body)
    <2>1. \A m \in Modules : status'[m] = status[m]
            \/ (status[m] \in {"Unlinked", "Linking"} /\ status'[m] \in {"Unlinked", "Linking", "Linked"})
      BY <1>2, <1>4
    <2>2. \A m \in DOMAIN requests : Settled(status', m) => Settled(status, m)
      BY <1>1, <1>2 DEF Settled
    <2> QED BY <1>1, <2>1, <2>2, RecordsLink DEF Inv
  <1> QED BY <1>5, <1>8, <1>9, <1>10

\* The innermost search with another stack, visits and index.
Revision(s, dfs, work, n) == [s EXCEPT !.dfs = dfs, !.work = work, !.index = n]

LEMMA Revised ==
  ASSUME NEW N, NEW s \in Calls(N), NEW dfs \in Seq(N), NEW work \in Seq(Visits(N)), NEW n \in Int
  PROVE  LET t == Revision(s, dfs, work, n)
         IN /\ t \in Calls(N) /\ t.module = s.module /\ t.op = s.op
            /\ t.dfs = dfs /\ t.work = work /\ t.index = n
  BY DEF Calls, Revision

LEMMA RevisedLess ==
  ASSUME NEW N, NEW s \in Calls(N), NEW dfs, NEW work
  PROVE  /\ [s EXCEPT !.dfs = dfs, !.work = work] = Revision(s, dfs, work, s.index)
         /\ [s EXCEPT !.work = work] = Revision(s, s.dfs, work, s.index)
         /\ s.dfs \in Seq(N) /\ s.work \in Seq(Visits(N)) /\ s.index \in Int
  BY DEF Calls, Revision

\* What going on to the next required module and starting a body do to imports.
LEMMA AdvanceIs ==
  ASSUME Inv, imports # <<>>, Top.work # <<>>
  PROVE  /\ Advance = [imports EXCEPT ![Len(imports)] = [Top EXCEPT !.work = Onward(Top.work)]]
         /\ [imports EXCEPT ![Len(imports)].work[Len(Top.work)].body = TRUE]
              = [imports EXCEPT ![Len(imports)] = [Top EXCEPT !.work = Inside(Top.work)]]
  <1>1. Top = imports[Len(imports)]
    BY Innermost
  <1> QED BY <1>1 DEF Advance, Onward, Inside, Last

\* The innermost search links on as s.
LEMMA LinkedOn ==
  ASSUME Inv, imports # <<>>, Top.op = "link", Types',
         UNCHANGED <<requests, body, cycleRoot, evalError>>,
         NEW s, LinkSearch(requests, status', dfsIndex', dfsAncestor', s),
         imports' = [imports EXCEPT ![Len(imports)] = s],
         \A m \in ToSet(s.dfs) : m \in ToSet(Top.dfs) \/ status[m] \notin {"Linking", "Evaluating"},
         \A m \in Modules : m \notin ToSet(Top.dfs) /\ m \notin ToSet(s.dfs) =>
           status'[m] = status[m] /\ dfsIndex'[m] = dfsIndex[m] /\ dfsAncestor'[m] = dfsAncestor[m],
         \A m \in Modules : status'[m] = status[m]
           \/ (status[m] \in {"Unlinked", "Linking"} /\ status'[m] \in {"Unlinked", "Linking", "Linked"}),
         \A m \in DOMAIN requests : Settled(status', m) /\ ~Settled(status, m) =>
           \A r \in ToSet(requests[m]) : Settled(status', r)
  PROVE  Inv'
  <1>1. /\ Graph(requests) /\ DOMAIN requests \subseteq Modules /\ status \in [Modules -> Statuses]
        /\ UNCHANGED <<requests, body, cycleRoot, evalError>>
    BY TypesGive DEF Inv, Types
  <1>2. Top = imports[Len(imports)]
    BY Innermost
  <1>3. \A m : status[m] \notin {"Linking", "Evaluating"} =>
          \A i \in 1 .. Len(imports) : m \notin ToSet(imports[i].dfs)
    BY OnStacks
  <1>4. s \in Calls(DOMAIN requests) /\ s.op = "link"
    BY DEF LinkSearch
  <1>5. \A m \in Modules : status'[m] = "Linking" => s.op = "link" /\ m \in ToSet(s.dfs)
    BY <1>4 DEF LinkSearch, Linkage
  <1>6. Replaces(requests, status, dfsIndex, dfsAncestor, body, imports,
                 status', dfsIndex', dfsAncestor', body, s)
    BY <1>2, <1>3, <1>4, <1>5 DEF Inv, Replaces
  <1>7. Searches(requests, status', dfsIndex', dfsAncestor', body, imports')
    BY <1>1, <1>6, Replaced
  <1>8. Records(requests, status', cycleRoot, evalError, body)
    BY <1>1, RecordsLink DEF Inv
  <1> QED BY <1>1, <1>7, <1>8 DEF Inv

LEMMA LinkFaultSafe ==
  ASSUME Inv, imports # <<>>, Top.op = "link", NEW kind \in KnownFaults, LinkFault(kind),
         UNCHANGED <<requests, contexts, calls, body>>
  PROVE  Inv'
  <1>1. /\ CleanUp /\ imports' = <<>> /\ answer' = [module |-> imports[1].module, ok |-> FALSE]
        /\ fault' = fault \cup {kind} /\ UNCHANGED <<cycleRoot, evalError>>
    BY DEF LinkFault, Unwind, recordVars
  <1>2. /\ status' \in [Modules -> Statuses] /\ initialized' \subseteq Modules
        /\ dfsIndex' \in [Modules -> Int] /\ dfsAncestor' \in [Modules -> Int]
        /\ Searches(requests, status', dfsIndex', dfsAncestor', body, <<>>)
        /\ Records(requests, status', cycleRoot, evalError, body)
    BY <1>1, CleanUpSafe
  <1>3. answer' \in Outcomes
    BY <1>1, Answers
  <1>4. fault' \subseteq KnownFaults
    BY <1>1 DEF Inv, Types
  <1>5. Types'
    BY <1>1, <1>2, <1>3, <1>4 DEF Inv, Types
  <1> QED BY <1>1, <1>2, <1>5 DEF Inv

\* The innermost search and its last visit, as the lemmas about links take them.
LEMMA LinkIs ==
  ASSUME Inv, Searching("link")
  PROVE  /\ imports # <<>> /\ Top.op = "link" /\ Top.work # <<>> /\ Top \in Calls(DOMAIN requests)
         /\ Linkage(requests, status, dfsIndex, dfsAncestor, Top.dfs, Top.work, Top.index)
         /\ Core(requests, dfsIndex, dfsAncestor, Top.dfs, Top.work)
         /\ Top.work[1].module = Top.module /\ At(Top.dfs, Top.work, 1) = 1
         /\ Graph(requests) /\ DOMAIN requests \subseteq Modules
         /\ Indices(requests, dfsIndex) /\ Indices(requests, dfsAncestor)
         /\ status \in [Modules -> Statuses] /\ dfsIndex \in [Modules -> Int]
         /\ dfsAncestor \in [Modules -> Int] /\ Top.index \in Int
         /\ Me = Top.work[Len(Top.work)].module /\ Frame = Top.work[Len(Top.work)]
         /\ Me \in Modules /\ Me \in DOMAIN requests /\ Me \in ToSet(Top.dfs)
         /\ ToSet(Top.dfs) \subseteq Modules
  <1>1. imports # <<>> /\ Top.op = "link" /\ Top.work # <<>>
    BY DEF Searching
  <1>2. LinkSearch(requests, status, dfsIndex, dfsAncestor, Top) /\ Top \in Calls(DOMAIN requests)
        /\ \A m \in ToSet(Top.dfs) : m \in Modules
    BY <1>1, Innermost
  <1>3. /\ Linkage(requests, status, dfsIndex, dfsAncestor, Top.dfs, Top.work, Top.index)
        /\ Top.work[1].module = Top.module /\ At(Top.dfs, Top.work, 1) = 1
    BY <1>1, <1>2 DEF LinkSearch
  <1>4. Core(requests, dfsIndex, dfsAncestor, Top.dfs, Top.work) /\ Top.index \in Int
    BY <1>3 DEF Linkage
  <1>5. /\ Graph(requests) /\ DOMAIN requests \subseteq Modules
        /\ Indices(requests, dfsIndex) /\ Indices(requests, dfsAncestor)
        /\ status \in [Modules -> Statuses] /\ dfsIndex \in [Modules -> Int]
        /\ dfsAncestor \in [Modules -> Int]
    BY TypesGive DEF Inv, Types
  <1>6. /\ Me = Top.work[Len(Top.work)].module /\ Frame = Top.work[Len(Top.work)]
        /\ Me \in Modules /\ Me \in DOMAIN requests /\ Me \in ToSet(Top.dfs)
    BY <1>1, Foremost
  <1> QED BY <1>1, <1>2, <1>3, <1>4, <1>5, <1>6

LEMMA RequiredIs ==
  ASSUME Inv, imports # <<>>, Top.work # <<>>, Ahead
  PROVE  /\ Required = requests[Top.work[Len(Top.work)].module][Top.work[Len(Top.work)].next]
         /\ Top.work[Len(Top.work)].next \in 1 .. Len(requests[Top.work[Len(Top.work)].module])
         /\ Required \in Modules /\ Required \in DOMAIN requests
         /\ Required \in ToSet(requests[Top.work[Len(Top.work)].module])
  BY Foremost DEF Required

\* The visit of a required module begins.
LEMMA LinkEnterSafe ==
  ASSUME Inv, Searching("link"), Ahead, status[Required] = "Unlinked", Enter(Required, "Linking"),
         UNCHANGED <<initialized, answer, fault, cycleRoot, evalError, requests, contexts, calls, body>>
  PROVE  Inv'
  <1> DEFINE x == Required
             dfs2 == Append(Top.dfs, x)
             work2 == Append(Top.work, Visit(x))
             n2 == Top.index + 1
             s == Revision(Top, dfs2, work2, n2)
  <1>1. /\ Top \in Calls(DOMAIN requests) /\ Top.index \in Int /\ n2 \in Int /\ imports # <<>>
        /\ status \in [Modules -> Statuses] /\ dfsIndex \in [Modules -> Int] /\ Top.op = "link"
        /\ dfsAncestor \in [Modules -> Int] /\ x \in Modules /\ x \in DOMAIN requests
        /\ DOMAIN requests \subseteq Modules /\ ToSet(Top.dfs) \subseteq Modules
    BY LinkIs, RequiredIs
  <1>2. /\ status' = [status EXCEPT ![x] = "Linking"]
        /\ dfsIndex' = [dfsIndex EXCEPT ![x] = Top.index]
        /\ dfsAncestor' = [dfsAncestor EXCEPT ![x] = Top.index]
        /\ imports' = [imports EXCEPT ![Len(imports)] = s]
    BY DEF Enter, Revision
  <1>3. /\ Linkage(requests, status', dfsIndex', dfsAncestor', dfs2, work2, n2)
        /\ x \notin ToSet(Top.dfs)
    BY <1>2, LinkIs, RequiredIs, LinkEnters
  <1>4. /\ ToSet(dfs2) = ToSet(Top.dfs) \cup {x}
        /\ work2 # <<>> /\ work2[1].module = Top.module /\ At(dfs2, work2, 1) = 1
    BY <1>1, <1>3, LinkIs, EnteredFirst
  <1>5. status[x] = "Unlinked"
    OBVIOUS
  <1> HIDE DEF x, dfs2, work2, n2
  <1>6. s \in Calls(DOMAIN requests) /\ s.module = Top.module /\ s.op = "link" /\ s.dfs = dfs2
         /\ s.work = work2 /\ s.index = n2
    <2>1. dfs2 \in Seq(DOMAIN requests) /\ work2 \in Seq(Visits(DOMAIN requests))
      BY <1>3 DEF Linkage, Core
    <2> QED BY <1>1, <2>1, Revised
  <1> HIDE DEF s
  <1>7. LinkSearch(requests, status', dfsIndex', dfsAncestor', s)
    BY <1>3, <1>4, <1>6 DEF LinkSearch
  <1>8. /\ \A m \in Modules : m # x => status'[m] = status[m] /\ dfsIndex'[m] = dfsIndex[m]
                                       /\ dfsAncestor'[m] = dfsAncestor[m]
        /\ status'[x] = "Linking"
    BY <1>1, <1>2
  <1>9. /\ ToSet(s.dfs) = ToSet(Top.dfs) \cup {x}
        /\ \A m \in DOMAIN requests : Settled(status', m) => Settled(status, m)
    BY <1>1, <1>4, <1>6, <1>8 DEF Settled
  <1>10. Types'
    BY <1>1, <1>2 DEF Inv, Types, Statuses
  <1>11. UNCHANGED <<requests, body, cycleRoot, evalError>>
    OBVIOUS
  <1>12. /\ \A m \in ToSet(s.dfs) : m \in ToSet(Top.dfs) \/ status[m] \notin {"Linking", "Evaluating"}
         /\ \A m \in Modules : m \notin ToSet(Top.dfs) /\ m \notin ToSet(s.dfs) =>
             status'[m] = status[m] /\ dfsIndex'[m] = dfsIndex[m] /\ dfsAncestor'[m] = dfsAncestor[m]
         /\ \A m \in Modules : status'[m] = status[m]
              \/ (status[m] \in {"Unlinked", "Linking"} /\ status'[m] \in {"Unlinked", "Linking", "Linked"})
    BY <1>5, <1>8, <1>9
  <1> QED BY <1>1, <1>2, <1>7, <1>9, <1>10, <1>11, <1>12, LinkedOn
\* The search goes on to the next required module.
LEMMA LinkOnwardSafe ==
  ASSUME Inv, Searching("link"), imports' = Advance, status' = status, dfsIndex' = dfsIndex,
         dfsAncestor' \in [Modules -> Int],
         \A m \in Modules : m \notin ToSet(Top.dfs) => dfsAncestor'[m] = dfsAncestor[m],
         Linkage(requests, status, dfsIndex, dfsAncestor', Top.dfs, Onward(Top.work), Top.index),
         UNCHANGED <<initialized, answer, fault, cycleRoot, evalError, requests, contexts, calls, body>>
  PROVE  Inv'
  <1> DEFINE work2 == Onward(Top.work)
             s == Revision(Top, Top.dfs, work2, Top.index)
  <1>1. /\ Top \in Calls(DOMAIN requests) /\ Top.index \in Int /\ Top.op = "link" /\ imports # <<>>
        /\ Core(requests, dfsIndex, dfsAncestor, Top.dfs, Top.work) /\ Top.work # <<>>
        /\ Top.work[1].module = Top.module /\ At(Top.dfs, Top.work, 1) = 1
        /\ ToSet(Top.dfs) \subseteq Modules
    BY LinkIs
  <1>2. Top.dfs \in Seq(DOMAIN requests) /\ Top.work \in Seq(Visits(DOMAIN requests))
    BY <1>1 DEF Core
  <1>3. /\ work2 \in Seq(Visits(DOMAIN requests)) /\ work2 # <<>>
        /\ \A k \in 1 .. Len(Top.work) : work2[k].module = Top.work[k].module
    BY <1>1, <1>2, OnwardIs
  <1>4. 1 \in 1 .. Len(Top.work)
    BY <1>1, <1>2, VisitTypes
  <1>5. imports' = [imports EXCEPT ![Len(imports)] = s]
    <2>1. s = [Top EXCEPT !.work = Onward(Top.work)]
      BY <1>1 DEF Revision, Calls
    <2> QED BY <1>1, <2>1, AdvanceIs
  <1> HIDE DEF work2
  <1>6. /\ s \in Calls(DOMAIN requests) /\ s.module = Top.module /\ s.op = "link" /\ s.dfs = Top.dfs
        /\ s.work = work2 /\ s.index = Top.index
    <2>1. /\ Top \in Calls(DOMAIN requests) /\ Top.dfs \in Seq(DOMAIN requests)
          /\ work2 \in Seq(Visits(DOMAIN requests)) /\ Top.index \in Int
      BY <1>1, <1>2, <1>3
    <2>2. /\ s \in Calls(DOMAIN requests) /\ s.module = Top.module /\ s.op = Top.op
          /\ s.dfs = Top.dfs /\ s.work = work2 /\ s.index = Top.index
      BY ONLY <2>1, Revised
    <2> QED BY <1>1, <2>2
  <1> HIDE DEF s
  <1>7. At(Top.dfs, work2, 1) = 1 /\ work2[1].module = Top.module
    BY <1>1, <1>3, <1>4 DEF At
  <1>8. LinkSearch(requests, status', dfsIndex', dfsAncestor', s)
    BY <1>3, <1>6, <1>7 DEF LinkSearch, work2
  <1>9. Types'
    BY DEF Inv, Types
  <1>10. UNCHANGED <<requests, body, cycleRoot, evalError>>
    OBVIOUS
  <1>11. /\ \A m \in ToSet(s.dfs) : m \in ToSet(Top.dfs) \/ status[m] \notin {"Linking", "Evaluating"}
         /\ \A m \in Modules : m \notin ToSet(Top.dfs) /\ m \notin ToSet(s.dfs) =>
             status'[m] = status[m] /\ dfsIndex'[m] = dfsIndex[m] /\ dfsAncestor'[m] = dfsAncestor[m]
         /\ \A m \in Modules : status'[m] = status[m]
         /\ \A m \in DOMAIN requests : Settled(status', m) => Settled(status, m)
    BY <1>6
  <1> QED BY <1>1, <1>5, <1>8, <1>9, <1>10, <1>11, LinkedOn

LEMMA KnownAre == "link evaluating" \in KnownFaults /\ "eval other search" \in KnownFaults
  BY Zenon DEF KnownFaults

LEMMA LinkRequiredSafe ==
  ASSUME Inv, LinkRequired
  PROVE  Inv'
  <1>1. Searching("link") /\ Ahead /\ UNCHANGED <<requests, contexts, calls, body>>
    BY Zenon DEF LinkRequired
  <1>2. imports # <<>> /\ Top.op = "link" /\ Top.work # <<>>
    BY <1>1 DEF Searching
  <1>3. status[Required] = "Linking" <=> Required \in ToSet(Top.dfs)
    <2>1. Linkage(requests, status, dfsIndex, dfsAncestor, Top.dfs, Top.work, Top.index)
      BY <1>1, LinkIs
    <2>2. Required \in Modules
      BY <1>1, <1>2, RequiredIs
    <2> QED BY <2>1, <2>2 DEF Linkage
  <1>4. \/ /\ status[Required] = "Unlinked" /\ Enter(Required, "Linking")
           /\ UNCHANGED <<initialized, answer, fault, recordVars>>
        \/ \E kind \in KnownFaults : LinkFault(kind)
        \/ /\ Required \in ToSet(Top.dfs) /\ dfsAncestor' = LowLink(Required) /\ imports' = Advance
           /\ UNCHANGED <<status, dfsIndex, initialized, answer, fault, recordVars>>
        \/ /\ status[Required] \in {"Linked", "Evaluated"} /\ Required \notin ToSet(Top.dfs)
           /\ imports' = Advance
           /\ UNCHANGED <<status, dfsVars, initialized, answer, fault, recordVars>>
    <2>1. "Linked" # "Linking" /\ "Evaluated" # "Linking"
      OBVIOUS
    <2> QED BY <1>3, <2>1, KnownAre, Zenon DEF LinkRequired
  <1>5. CASE /\ status[Required] = "Unlinked" /\ Enter(Required, "Linking")
             /\ UNCHANGED <<initialized, answer, fault, recordVars>>
    <2>1. UNCHANGED <<initialized, answer, fault, cycleRoot, evalError, requests, contexts, calls, body>>
      BY <1>1, <1>5 DEF recordVars
    <2> QED BY <1>1, <1>5, <2>1, LinkEnterSafe
  <1>6. CASE \E kind \in KnownFaults : LinkFault(kind)
    BY <1>1, <1>2, <1>6, LinkFaultSafe
  <1>7. CASE /\ Required \in ToSet(Top.dfs) /\ dfsAncestor' = LowLink(Required) /\ imports' = Advance
             /\ UNCHANGED <<status, dfsIndex, initialized, answer, fault, recordVars>>
    <2>1. UNCHANGED <<initialized, answer, fault, cycleRoot, evalError, requests, contexts, calls, body>>
      BY <1>1, <1>7 DEF recordVars
    <2> DEFINE me == Top.work[Len(Top.work)].module
               r == Required
    <2>2. dfsAncestor' = [dfsAncestor EXCEPT ![me] = IF dfsAncestor[r] < @ THEN dfsAncestor[r] ELSE @]
      BY <1>1, <1>7, LinkIs DEF LowLink
    <2>3. Linkage(requests, status, dfsIndex, dfsAncestor', Top.dfs, Onward(Top.work), Top.index)
      <3>1. /\ Graph(requests) /\ Indices(requests, dfsIndex) /\ Indices(requests, dfsAncestor)
            /\ Linkage(requests, status, dfsIndex, dfsAncestor, Top.dfs, Top.work, Top.index)
            /\ Top.work # <<>> /\ r \in ToSet(Top.dfs)
            /\ Top.work[Len(Top.work)].next \in 1 .. Len(requests[me])
            /\ r = requests[me][Top.work[Len(Top.work)].next]
        BY <1>1, <1>2, <1>7, LinkIs, RequiredIs
      <3>2. Linkage(requests, status, dfsIndex, [dfsAncestor EXCEPT ![me] = IF dfsAncestor[r] < @ THEN dfsAncestor[r] ELSE @],
                    Top.dfs, Onward(Top.work), Top.index)
        BY <3>1, LinkLowers, Zenon
      <3> QED BY <2>2, <3>2, Zenon
    <2>4. /\ dfsAncestor \in [Modules -> Int] /\ r \in Modules /\ me \in Modules /\ me \in ToSet(Top.dfs)
      BY <1>1, <1>2, LinkIs, RequiredIs
    <2> HIDE DEF me, r
    <2>5. /\ dfsAncestor' \in [Modules -> Int]
          /\ \A m \in Modules : m \notin ToSet(Top.dfs) => dfsAncestor'[m] = dfsAncestor[m]
      BY <2>2, <2>4
    <2> QED BY <1>1, <1>7, <2>1, <2>3, <2>5, LinkOnwardSafe
  <1>8. CASE /\ status[Required] \in {"Linked", "Evaluated"} /\ Required \notin ToSet(Top.dfs)
             /\ imports' = Advance
             /\ UNCHANGED <<status, dfsVars, initialized, answer, fault, recordVars>>
    <2>1. /\ UNCHANGED <<initialized, answer, fault, cycleRoot, evalError, requests, contexts, calls, body>>
          /\ UNCHANGED <<status, dfsIndex, dfsAncestor>>
      BY <1>1, <1>8 DEF recordVars, dfsVars
    <2>2. Settled(status, Required)
      BY <1>8 DEF Settled
    <2>3. Linkage(requests, status, dfsIndex, dfsAncestor, Top.dfs, Onward(Top.work), Top.index)
      BY <1>1, <1>2, <1>8, <2>2, LinkIs, RequiredIs, LinkGoesOn
    <2>4. dfsAncestor \in [Modules -> Int]
      BY <1>1, LinkIs
    <2> QED BY <1>1, <1>8, <2>1, <2>3, <2>4, LinkOnwardSafe
  <1> QED BY <1>4, <1>5, <1>6, <1>7, <1>8

\* The visit that ends is not the first unless its module ends its component.
LEMMA FirstOf ==
  ASSUME NEW req, NEW ix, Indices(req, ix), NEW an, Indices(req, an), NEW dfs, NEW work,
         Core(req, ix, an, dfs, work), work # <<>>, At(dfs, work, 1) = 1
  PROVE  LET me == work[Len(work)].module
         IN /\ Front(work) = <<>> => an[me] = ix[me] /\ me = work[1].module
            /\ Front(work) # <<>> => /\ Front(work)[1] = work[1] /\ At(dfs, Front(work), 1) = 1
                                     /\ At(Rest(dfs, me), Front(work), 1) = 1
            /\ me \in Popped(dfs, me)
  <1> DEFINE me == work[Len(work)].module
             rest == Rest(dfs, me)
             front == Front(work)
  <1>1. /\ front \in Seq(Visits(DOMAIN req)) /\ Len(front) = Len(work) - 1 /\ Len(work) \in Nat \ {0}
        /\ \A k \in 1 .. Len(work) - 1 : front[k] = work[k]
        /\ me \in ToSet(dfs) /\ At(dfs, work, Len(work)) \in 1 .. Len(dfs)
        /\ \A k \in 1 .. Len(work) - 1 : At(dfs, work, k) < At(dfs, work, Len(work)) /\ k \in 1 .. Len(work)
    BY WorkFront
  <1>2. /\ \A m : m \in ToSet(rest) <=> m \in ToSet(dfs) /\ Place(dfs, m) < Place(dfs, me)
        /\ \A m \in ToSet(rest) : Place(rest, m) = Place(dfs, m)
        /\ \A m : m \in Popped(dfs, me) <=> m \in ToSet(dfs) /\ Place(dfs, m) >= Place(dfs, me)
    BY CorePops
  <1>3. At(dfs, work, Len(work)) = Place(dfs, me) /\ At(dfs, work, 1) = Place(dfs, work[1].module)
    BY DEF At
  <1>4. Len(work) = 1 => an[work[1].module] = ix[work[1].module]
    BY RootFirst
  <1>5. 1 \in 1 .. Len(work) => work[1].module \in ToSet(dfs)
    BY DEF Core, Visiting
  <1> HIDE DEF rest, front
  <1>6. CASE Len(work) = 1
    <2>1. front = <<>>
      BY <1>1, <1>6
    <2>2. me \in Popped(dfs, me)
      BY <1>1, <1>2, <1>3
    <2> QED BY <1>4, <1>6, <2>1, <2>2 DEF front
  <1>7. CASE Len(work) # 1
    <2>1. 1 \in 1 .. Len(work) - 1 /\ 1 \in 1 .. Len(front) /\ 1 \in 1 .. Len(work)
      BY <1>1, <1>7
    <2>2. front # <<>>
      BY <2>1
    <2>3. front[1] = work[1] /\ At(dfs, work, 1) < At(dfs, work, Len(work))
      BY <1>1, <2>1
    <2>4. work[1].module \in ToSet(rest)
      BY <1>2, <1>3, <1>5, <2>1, <2>3
    <2>5. At(dfs, front, 1) = 1 /\ At(rest, front, 1) = 1
      BY <1>2, <1>3, <2>3, <2>4 DEF At
    <2>6. me \in Popped(dfs, me)
      BY <1>1, <1>2, <1>3
    <2> QED BY <2>2, <2>3, <2>5, <2>6 DEF front, rest
  <1> QED BY <1>6, <1>7

\* The assertions at the end of InnerModuleLinking hold.
LEMMA IndexHolds ==
  ASSUME Inv, Searching("link")
  PROVE  ~IndexBroken
  <1>1. /\ Core(requests, dfsIndex, dfsAncestor, Top.dfs, Top.work) /\ Me \in ToSet(Top.dfs)
        /\ Me \in Modules /\ dfsIndex \in [Modules -> Int] /\ dfsAncestor \in [Modules -> Int]
    BY LinkIs
  <1>2. dfsAncestor[Me] <= dfsIndex[Me] /\ dfsAncestor[Me] \in Int /\ dfsIndex[Me] \in Int
    BY <1>1 DEF Core
  <1>3. Once(Top.dfs) /\ DOMAIN Top.dfs = 1 .. Len(Top.dfs)
    BY <1>1 DEF Core
  <1> QED BY <1>2, <1>3 DEF IndexBroken, Once
\* The search links on with another stack and one visit less.
LEMMA LinkEndsSafe ==
  ASSUME Inv, Searching("link"), NEW D \in SUBSET ToSet(Top.dfs), NEW dfs2,
         imports' = [imports EXCEPT ![Len(imports)] = Revision(Top, dfs2, Front(Top.work), Top.index)],
         status' = [m \in Modules |-> IF m \in D THEN "Linked" ELSE status[m]],
         \A m \in D : m \in DOMAIN requests => \A r \in ToSet(requests[m]) : Settled(status', r),
         Linkage(requests, status', dfsIndex, dfsAncestor, dfs2, Front(Top.work), Top.index),
         ToSet(dfs2) \subseteq ToSet(Top.dfs),
         IF Front(Top.work) = <<>> THEN status'[Top.module] = "Linked"
         ELSE Front(Top.work)[1] = Top.work[1] /\ At(dfs2, Front(Top.work), 1) = 1,
         initialized' = initialized \cup {Me},
         UNCHANGED <<dfsIndex, dfsAncestor, answer, fault, cycleRoot, evalError, requests, contexts, calls, body>>
  PROVE  Inv'
  <1> DEFINE s == Revision(Top, dfs2, Front(Top.work), Top.index)
  <1>1. /\ Top \in Calls(DOMAIN requests) /\ Top.index \in Int /\ Top.op = "link" /\ imports # <<>>
        /\ Top.work[1].module = Top.module /\ Me \in Modules
        /\ ToSet(Top.dfs) \subseteq Modules /\ status \in [Modules -> Statuses]
        /\ DOMAIN requests \subseteq Modules
        /\ Linkage(requests, status, dfsIndex, dfsAncestor, Top.dfs, Top.work, Top.index)
    BY LinkIs
  <1>2. dfs2 \in Seq(DOMAIN requests) /\ Front(Top.work) \in Seq(Visits(DOMAIN requests))
    BY DEF Linkage, Core
  <1>3. /\ s \in Calls(DOMAIN requests) /\ s.module = Top.module /\ s.op = "link" /\ s.dfs = dfs2
        /\ s.work = Front(Top.work) /\ s.index = Top.index
    BY <1>1, <1>2, Revised
  <1>4. imports' = [imports EXCEPT ![Len(imports)] = s]
    OBVIOUS
  <1> HIDE DEF s
  <1>5. UNCHANGED <<dfsIndex, dfsAncestor, requests, body, cycleRoot, evalError>>
    OBVIOUS
  <1>6. LinkSearch(requests, status', dfsIndex', dfsAncestor', s)
    BY <1>1, <1>3, <1>5 DEF LinkSearch
  <1>7. Types'
    BY <1>1 DEF Inv, Types, Statuses
  <1>8. \A m \in ToSet(Top.dfs) : status[m] = "Linking"
    BY <1>1 DEF Linkage
  <1>9. \A m \in Modules : status'[m] = status[m] \/ (m \in D /\ status[m] = "Linking" /\ status'[m] = "Linked")
    BY <1>1, <1>8
  <1>10. \A m \in ToSet(s.dfs) : m \in ToSet(Top.dfs)
    BY <1>3
  <1>11. \A m \in Modules : m \notin ToSet(Top.dfs) => status'[m] = status[m]
    BY <1>9
  <1>12. \A m \in DOMAIN requests : Settled(status', m) /\ ~Settled(status, m) =>
           \A r \in ToSet(requests[m]) : Settled(status', r)
    BY <1>1, <1>9 DEF Settled
  <1> QED BY <1>1, <1>4, <1>5, <1>6, <1>7, <1>9, <1>10, <1>11, <1>12, LinkedOn

LEMMA LinkFinishSafe ==
  ASSUME Inv, LinkFinish
  PROVE  Inv'
  <1> DEFINE me == Top.work[Len(Top.work)].module
             front == Front(Top.work)
             rest == Rest(Top.dfs, me)
             popped == Popped(Top.dfs, me)
  <1>1. Searching("link") /\ ~Ahead
    BY DEF LinkFinish
  <1>2. /\ imports # <<>> /\ Top.op = "link" /\ Top.work # <<>> /\ Top \in Calls(DOMAIN requests)
        /\ Linkage(requests, status, dfsIndex, dfsAncestor, Top.dfs, Top.work, Top.index)
        /\ Core(requests, dfsIndex, dfsAncestor, Top.dfs, Top.work)
        /\ Top.work[1].module = Top.module /\ At(Top.dfs, Top.work, 1) = 1
        /\ Graph(requests) /\ DOMAIN requests \subseteq Modules
        /\ Indices(requests, dfsIndex) /\ Indices(requests, dfsAncestor)
        /\ status \in [Modules -> Statuses] /\ Top.index \in Int
        /\ Me = me /\ Frame = Top.work[Len(Top.work)] /\ me \in Modules /\ me \in ToSet(Top.dfs)
    BY <1>1, LinkIs
  <1>3. ~ Top.work[Len(Top.work)].next <= Len(requests[me])
    BY <1>1, <1>2 DEF Ahead
  <1>4. /\ UNCHANGED <<dfsIndex, dfsAncestor, answer, fault, cycleRoot, evalError, requests, contexts, calls, body>>
        /\ initialized' = initialized \cup {Me}
        /\ status' = [m \in Modules |-> IF m \in (IF IsRoot THEN popped ELSE {}) THEN "Linked" ELSE status[m]]
        /\ imports' = [imports EXCEPT ![Len(imports)] =
              [Top EXCEPT !.dfs = IF IsRoot THEN Rest(@, Me) ELSE @, !.work = Front(@)]]
    BY <1>1, <1>2, IndexHolds DEF LinkFinish, recordVars, dfsVars
  <1>5. /\ front = <<>> => dfsAncestor[me] = dfsIndex[me] /\ me = Top.work[1].module
        /\ front # <<>> => front[1] = Top.work[1] /\ At(Top.dfs, front, 1) = 1 /\ At(rest, front, 1) = 1
        /\ me \in popped
    BY <1>2, FirstOf
  <1>6. CASE IsRoot
    <2>1. status' = [m \in Modules |-> IF m \in popped THEN "Linked" ELSE status[m]]
      BY <1>4, <1>6
    <2>2. imports' = [imports EXCEPT ![Len(imports)] = Revision(Top, rest, front, Top.index)]
      BY <1>2, <1>4, <1>6 DEF Revision, Calls
    <2>3. dfsAncestor[me] = dfsIndex[me]
      BY <1>2, <1>6 DEF IsRoot
    <2>4. /\ Linkage(requests, status', dfsIndex, dfsAncestor, rest, front, Top.index)
          /\ \A m \in popped : m \in ToSet(Top.dfs) /\ \A r \in ToSet(requests[m]) : Settled(status', r)
      BY <1>2, <1>3, <2>1, <2>3, LinkPops
    <2>5. ToSet(rest) \subseteq ToSet(Top.dfs)
      BY <1>2, CorePops
    <2> HIDE DEF me, front, rest, popped
    <2>6. front = <<>> => status'[Top.module] = "Linked"
      BY <1>2, <1>5, <2>1
    <2>7. IF front = <<>> THEN status'[Top.module] = "Linked" ELSE front[1] = Top.work[1] /\ At(rest, front, 1) = 1
      BY <1>5, <2>6
    <2>8. popped \in SUBSET ToSet(Top.dfs)
      BY <2>4
    <2> USE DEF front
    <2> QED BY <1>1, <1>4, <2>1, <2>2, <2>4, <2>5, <2>7, <2>8, LinkEndsSafe
  <1>7. CASE ~IsRoot
    <2>1. status' = [m \in Modules |-> IF m \in {} THEN "Linked" ELSE status[m]]
      BY <1>4, <1>7
    <2>2. status' = status
      BY <1>2, <2>1
    <2>3. imports' = [imports EXCEPT ![Len(imports)] = Revision(Top, Top.dfs, front, Top.index)]
      BY <1>2, <1>4, <1>7 DEF Revision, Calls
    <2>4. dfsAncestor[me] # dfsIndex[me]
      BY <1>2, <1>7 DEF IsRoot
    <2>5. Linkage(requests, status', dfsIndex, dfsAncestor, Top.dfs, front, Top.index)
      BY <1>2, <1>3, <2>2, <2>4, LinkStays
    <2>6. IF front = <<>> THEN status'[Top.module] = "Linked" ELSE front[1] = Top.work[1] /\ At(Top.dfs, front, 1) = 1
      BY <1>5, <2>4
    <2>7. {} \in SUBSET ToSet(Top.dfs) /\ ToSet(Top.dfs) \subseteq ToSet(Top.dfs)
          /\ \A m \in {} : m \in DOMAIN requests => \A r \in ToSet(requests[m]) : Settled(status', r)
      OBVIOUS
    <2> QED BY <1>1, <1>4, <2>1, <2>3, <2>5, <2>6, <2>7, LinkEndsSafe
  <1> QED BY <1>6, <1>7

LEMMA LinkThrowsSafe ==
  ASSUME Inv, LinkThrows
  PROVE  Inv'
  <1>1. /\ imports # <<>> /\ Top.op = "link" /\ CleanUp
        /\ UNCHANGED <<requests, cycleRoot, evalError, contexts, calls, body, fault>>
        /\ \/ imports' = Front(imports) /\ answer' = [module |-> Top.module, ok |-> FALSE]
           \/ imports' = <<>> /\ answer' = [module |-> imports[1].module, ok |-> FALSE]
    BY DEF LinkThrows, Searching, Return, Unwind, recordVars
  <1>2. /\ status' \in [Modules -> Statuses] /\ initialized' \subseteq Modules
        /\ dfsIndex' \in [Modules -> Int] /\ dfsAncestor' \in [Modules -> Int]
        /\ Searches(requests, status', dfsIndex', dfsAncestor', body, Front(imports))
        /\ Searches(requests, status', dfsIndex', dfsAncestor', body, <<>>)
        /\ Records(requests, status', cycleRoot, evalError, body)
    BY <1>1, CleanUpSafe
  <1>3. answer' \in Outcomes
    BY <1>1, Answers
  <1>4. Types'
    BY <1>1, <1>2, <1>3 DEF Inv, Types
  <1> QED BY <1>1, <1>2, <1>4 DEF Inv

-----------------------------------------------------------------------------
(* Evaluation keeps the invariant *)

\* The innermost search evaluates on as s.
LEMMA EvaluatedOn ==
  ASSUME Inv, imports # <<>>, Top.op = "eval", Types', requests' = requests,
         NEW s, EvalSearch(requests, status', dfsIndex', dfsAncestor', body', s),
         imports' = [imports EXCEPT ![Len(imports)] = s],
         \A m \in ToSet(s.dfs) : m \in ToSet(Top.dfs) \/ status[m] \notin {"Linking", "Evaluating"},
         \A m \in Modules : m \notin ToSet(Top.dfs) /\ m \notin ToSet(s.dfs) =>
           /\ status'[m] = status[m] /\ dfsIndex'[m] = dfsIndex[m] /\ dfsAncestor'[m] = dfsAncestor[m]
           /\ body'[m] = body[m],
         \A m \in Modules : Over(body, m) => Over(body', m),
         \A m \in Modules : status'[m] # "Linking",
         Records(requests, status', cycleRoot', evalError', body')
  PROVE  Inv'
  <1>1. Graph(requests) /\ DOMAIN requests \subseteq Modules
    BY TypesGive DEF Inv
  <1>2. Top = imports[Len(imports)]
    BY Innermost
  <1>3. \A m : status[m] \notin {"Linking", "Evaluating"} =>
          \A i \in 1 .. Len(imports) : m \notin ToSet(imports[i].dfs)
    BY OnStacks
  <1>4. s \in Calls(DOMAIN requests)
    BY DEF EvalSearch
  <1>5. Replaces(requests, status, dfsIndex, dfsAncestor, body, imports,
                 status', dfsIndex', dfsAncestor', body', s)
    BY <1>2, <1>3, <1>4 DEF Inv, Replaces
  <1>6. Searches(requests, status', dfsIndex', dfsAncestor', body', imports')
    BY <1>1, <1>5, Replaced
  <1> QED BY <1>6 DEF Inv

\* The innermost search is over, and nothing on another stack has changed.
LEMMA SearchEnds ==
  ASSUME Inv, imports # <<>>, Types', requests' = requests, imports' = Front(imports),
         \A m \in Modules : m \notin ToSet(Top.dfs) =>
           /\ status'[m] = status[m] /\ dfsIndex'[m] = dfsIndex[m] /\ dfsAncestor'[m] = dfsAncestor[m]
           /\ body'[m] = body[m],
         \A m \in Modules : Over(body, m) => Over(body', m),
         \A m \in Modules : status'[m] # "Linking",
         Records(requests, status', cycleRoot', evalError', body')
  PROVE  Inv'
  <1>1. Graph(requests) /\ DOMAIN requests \subseteq Modules
    BY TypesGive DEF Inv
  <1>2. Top = imports[Len(imports)]
    BY Innermost
  <1>3. Searches(requests, status', dfsIndex', dfsAncestor', body', Front(imports))
    BY <1>1, <1>2, Finished DEF Inv
  <1> QED BY <1>3 DEF Inv

\* An exception that nothing catches leaves the modules as they are.
LEMMA UnwindSafe ==
  ASSUME Inv, imports # <<>>, Top.op = "eval", Unwind, fault' \subseteq KnownFaults, dfsIndex' = dfsIndex,
         UNCHANGED <<requests, status, dfsAncestor, cycleRoot, evalError, initialized, contexts, calls, body>>
  PROVE  Inv'
  <1>1. imports' = <<>> /\ answer' = [module |-> imports[1].module, ok |-> FALSE]
    BY DEF Unwind
  <1>2. \A m \in Modules : status[m] # "Linking"
    BY Innermost
  <1>3. Searches(requests, status, dfsIndex, dfsAncestor, body, <<>>)
    BY <1>2, Unwound
  <1>4. answer' \in Outcomes
    BY <1>1, Answers
  <1>5. Types'
    BY <1>4 DEF Inv, Types
  <1> QED BY <1>1, <1>3, <1>5 DEF Inv

\* When Link has come to its end, its stack is empty and its module linked.
LEMMA LinkOver ==
  ASSUME Inv, imports # <<>>, Top.op = "link", Top.work = <<>>
  PROVE  /\ status[Top.module] = "Linked" /\ Top.dfs = <<>> /\ ToSet(Top.dfs) = {}
         /\ Top.module \in DOMAIN requests
  <1>1. LinkSearch(requests, status, dfsIndex, dfsAncestor, Top)
    BY Innermost
  <1>2. status[Top.module] = "Linked" /\ Core(requests, dfsIndex, dfsAncestor, Top.dfs, Top.work)
        /\ Top.module \in DOMAIN requests
    BY <1>1 DEF LinkSearch, Linkage, Calls
  <1>3. ToSet(Top.dfs) = {} /\ Top.dfs \in Seq(DOMAIN requests)
    <2>1. \A k \in 1 .. Len(Top.work) : FALSE
      OBVIOUS
    <2> QED BY <1>2, <2>1 DEF Core
  <1>4. Top.dfs = <<>>
    <2>1. \A i \in 1 .. Len(Top.dfs) : FALSE
      <3>1. \A i \in 1 .. Len(Top.dfs) : Top.dfs[i] \in ToSet(Top.dfs)
        BY <1>3 DEF ToSet
      <3> QED BY <1>3, <3>1
    <2>2. Len(Top.dfs) \in Nat
      BY <1>3
    <2>3. Len(Top.dfs) = 0
      BY <2>1, <2>2
    <2> QED BY <1>3, <2>3, EmptySeq
  <1> QED BY <1>2, <1>3, <1>4

LEMMA EvaluateModuleSafe ==
  ASSUME Inv, EvaluateModule
  PROVE  Inv'
  <1> DEFINE m0 == Top.module
             outer == Front(imports)
  <1>1. imports # <<>> /\ Top.op = "link" /\ Top.work = <<>>
        /\ UNCHANGED <<requests, cycleRoot, evalError, initialized, contexts, calls, body>>
    BY DEF EvaluateModule, recordVars
  <1>2. status[m0] = "Linked" /\ Top.dfs = <<>> /\ ToSet(Top.dfs) = {} /\ m0 \in DOMAIN requests
    BY <1>1, LinkOver
  <1>3. /\ status' = [status EXCEPT ![m0] = "Evaluating"]
        /\ dfsIndex' = [dfsIndex EXCEPT ![m0] = 0] /\ dfsAncestor' = [dfsAncestor EXCEPT ![m0] = 0]
        /\ imports' = Append(outer, Search(m0, "eval")) /\ UNCHANGED <<answer, fault>>
    BY <1>1, <1>2, Zenon DEF EvaluateModule, Begin
  <1>4. /\ Graph(requests) /\ DOMAIN requests \subseteq Modules /\ status \in [Modules -> Statuses]
        /\ dfsIndex \in [Modules -> Int] /\ dfsAncestor \in [Modules -> Int]
    BY TypesGive DEF Inv, Types
  <1>5. Top = imports[Len(imports)]
    BY <1>1, Innermost
  <1>6. \A m \in Modules : status[m] # "Linking"
    BY <1>1, <1>2, Innermost
  <1>7. /\ Searches(requests, status, dfsIndex, dfsAncestor, body, outer)
        /\ \A i \in 1 .. Len(outer) : outer[i].op = "eval"
    BY <1>1, <1>4, <1>6, Finished DEF Inv
  <1>8. \A i \in 1 .. Len(outer) : m0 \notin ToSet(outer[i].dfs)
    BY <1>2, <1>7 DEF Searches, EvalSearch, LinkSearch
  <1> HIDE DEF m0, outer
  <1>9. /\ \A m \in Modules : m # m0 => status'[m] = status[m] /\ dfsIndex'[m] = dfsIndex[m]
                                        /\ dfsAncestor'[m] = dfsAncestor[m]
        /\ status'[m0] = "Evaluating" /\ dfsIndex'[m0] = 0 /\ dfsAncestor'[m0] = 0 /\ m0 \in Modules
    BY <1>2, <1>3, <1>4
  <1>10. Types'
    BY <1>1, <1>2, <1>3, <1>4 DEF Inv, Types, Statuses
  <1> DEFINE s == Search(m0, "eval")
  <1>11. /\ s \in Calls(DOMAIN requests) /\ s.op = "eval" /\ s.module = m0
         /\ s.dfs = <<m0>> /\ s.work = <<Visit(m0)>>
         /\ s.work # <<>> /\ s.work[1].module = s.module
         /\ ToSet(s.dfs) = {m0} /\ At(s.dfs, s.work, 1) = 1
    BY <1>2, SearchIs
  <1> HIDE DEF s
  <1>12. Core(requests, dfsIndex', dfsAncestor', <<m0>>, <<Visit(m0)>>)
    BY <1>2, <1>9, CoreBegins
  <1>13. Bodies(requests, body, <<m0>>, <<Visit(m0)>>)
    <2>1. Fresh(body, m0)
      BY <1>2 DEF Inv, Records, Ran
    <2> QED BY <2>1, BodiesBegin
  <1>14. EvalSearch(requests, status', dfsIndex', dfsAncestor', body, s)
    BY <1>9, <1>11, <1>12, <1>13 DEF EvalSearch
  <1>15. Searches(requests, status', dfsIndex', dfsAncestor', body, Append(outer, s))
    <2>1. Starts(requests, status, dfsIndex, dfsAncestor, body, outer, status', dfsIndex', dfsAncestor', s, m0)
      BY <1>6, <1>7, <1>8, <1>9, <1>11, <1>14 DEF Starts
    <2> QED BY <1>4, <2>1, Started
  <1>16. Records(requests, status', cycleRoot, evalError, body)
    <2>1. Evaluates(requests, status, cycleRoot, evalError, body, status', cycleRoot, evalError, body)
      BY <1>2, <1>4, <1>9 DEF Evaluates
    <2> QED BY <1>4, <2>1, RecordsEval DEF Inv
  <1> QED BY <1>1, <1>3, <1>10, <1>15, <1>16 DEF Inv, s

\* The innermost search and its last visit, as the lemmas about evaluation take them.
LEMMA EvalIs ==
  ASSUME Inv, Searching("eval")
  PROVE  /\ imports # <<>> /\ Top.op = "eval" /\ Top.work # <<>> /\ Top \in Calls(DOMAIN requests)
         /\ Core(requests, dfsIndex, dfsAncestor, Top.dfs, Top.work)
         /\ Bodies(requests, body, Top.dfs, Top.work)
         /\ \A m \in ToSet(Top.dfs) : status[m] = "Evaluating"
         /\ Top.work[1].module = Top.module /\ At(Top.dfs, Top.work, 1) = 1
         /\ Graph(requests) /\ DOMAIN requests \subseteq Modules
         /\ Indices(requests, dfsIndex) /\ Indices(requests, dfsAncestor)
         /\ status \in [Modules -> Statuses] /\ dfsIndex \in [Modules -> Int]
         /\ dfsAncestor \in [Modules -> Int] /\ Top.index \in Int
         /\ Top.dfs \in Seq(DOMAIN requests) /\ Top.work \in Seq(Visits(DOMAIN requests))
         /\ Me = Top.work[Len(Top.work)].module /\ Frame = Top.work[Len(Top.work)]
         /\ Me \in Modules /\ Me \in DOMAIN requests /\ Me \in ToSet(Top.dfs)
         /\ ToSet(Top.dfs) \subseteq Modules
         /\ \A m \in Modules : status[m] # "Linking"
         /\ 1 \in 1 .. Len(Top.work) /\ Len(Top.work) \in 1 .. Len(Top.work)
  <1>1. imports # <<>> /\ Top.op = "eval" /\ Top.work # <<>>
    BY DEF Searching
  <1>2. /\ EvalSearch(requests, status, dfsIndex, dfsAncestor, body, Top) /\ Top \in Calls(DOMAIN requests)
        /\ \A m \in ToSet(Top.dfs) : m \in Modules
        /\ \A m \in Modules : status[m] # "Linking"
    BY <1>1, Innermost
  <1>3. /\ Core(requests, dfsIndex, dfsAncestor, Top.dfs, Top.work)
        /\ Bodies(requests, body, Top.dfs, Top.work)
        /\ \A m \in ToSet(Top.dfs) : status[m] = "Evaluating"
        /\ Top.work[1].module = Top.module /\ At(Top.dfs, Top.work, 1) = 1
    BY <1>2 DEF EvalSearch
  <1>4. Top.dfs \in Seq(DOMAIN requests) /\ Top.work \in Seq(Visits(DOMAIN requests)) /\ Top.index \in Int
    BY <1>2 DEF Calls
  <1>5. /\ Graph(requests) /\ DOMAIN requests \subseteq Modules
        /\ Indices(requests, dfsIndex) /\ Indices(requests, dfsAncestor)
        /\ status \in [Modules -> Statuses] /\ dfsIndex \in [Modules -> Int]
        /\ dfsAncestor \in [Modules -> Int]
    BY TypesGive DEF Inv, Types
  <1>6. /\ Me = Top.work[Len(Top.work)].module /\ Frame = Top.work[Len(Top.work)]
        /\ Me \in Modules /\ Me \in DOMAIN requests /\ Me \in ToSet(Top.dfs)
        /\ Len(Top.work) \in 1 .. Len(Top.work) /\ Len(Top.work) \in Nat
    BY <1>1, Foremost
  <1> QED BY <1>1, <1>2, <1>3, <1>4, <1>5, <1>6

\* The visit of a required module that is linked begins.
LEMMA EvalEnterSafe ==
  ASSUME Inv, Searching("eval"), Ahead, status[Required] = "Linked", Enter(Required, "Evaluating"),
         UNCHANGED <<initialized, answer, fault, cycleRoot, evalError, requests, contexts, calls, body>>
  PROVE  Inv'
  <1> DEFINE x == Required
             dfs2 == Append(Top.dfs, x)
             work2 == Append(Top.work, Visit(x))
             n2 == Top.index + 1
             s == Revision(Top, dfs2, work2, n2)
  <1>1. /\ Top \in Calls(DOMAIN requests) /\ Top.index \in Int /\ n2 \in Int /\ imports # <<>>
        /\ status \in [Modules -> Statuses] /\ dfsIndex \in [Modules -> Int] /\ Top.op = "eval"
        /\ dfsAncestor \in [Modules -> Int] /\ x \in Modules /\ x \in DOMAIN requests
        /\ DOMAIN requests \subseteq Modules /\ ToSet(Top.dfs) \subseteq Modules
        /\ \A m \in ToSet(Top.dfs) : status[m] = "Evaluating"
        /\ \A m \in Modules : status[m] # "Linking"
        /\ Core(requests, dfsIndex, dfsAncestor, Top.dfs, Top.work) /\ Top.work # <<>>
        /\ Bodies(requests, body, Top.dfs, Top.work)
        /\ Top.work[1].module = Top.module /\ At(Top.dfs, Top.work, 1) = 1
        /\ Graph(requests)
    BY EvalIs, RequiredIs
  <1>2. /\ status' = [status EXCEPT ![x] = "Evaluating"]
        /\ dfsIndex' = [dfsIndex EXCEPT ![x] = Top.index]
        /\ dfsAncestor' = [dfsAncestor EXCEPT ![x] = Top.index]
        /\ imports' = [imports EXCEPT ![Len(imports)] = s]
    BY DEF Enter, Revision
  <1>3. x \notin ToSet(Top.dfs) /\ status[x] = "Linked"
    BY <1>1
  <1>4. Core(requests, dfsIndex', dfsAncestor', dfs2, work2)
    <2>1. Indices(requests, dfsIndex) /\ Indices(requests, dfsAncestor)
      BY EvalIs
    <2>2. /\ x = requests[Top.work[Len(Top.work)].module][Top.work[Len(Top.work)].next]
          /\ Top.work[Len(Top.work)].next \in 1 .. Len(requests[Top.work[Len(Top.work)].module])
      BY <1>1, RequiredIs
    <2> HIDE DEF x
    <2> QED BY <1>1, <1>2, <1>3, <2>1, <2>2, CoreEnters
  <1>5. Bodies(requests, body, dfs2, work2)
    <2>1. Fresh(body, x)
      BY <1>1, <1>3 DEF Inv, Records, Ran
    <2> QED BY <1>1, <1>3, <2>1, BodiesEnter
  <1>6. /\ ToSet(dfs2) = ToSet(Top.dfs) \cup {x}
        /\ work2 # <<>> /\ work2[1].module = Top.module /\ At(dfs2, work2, 1) = 1
    <2>1. /\ ToSet(dfs2) = ToSet(Top.dfs) \cup {x}
          /\ work2 # <<>> /\ work2[1] = Top.work[1] /\ At(dfs2, work2, 1) = At(Top.dfs, Top.work, 1)
      <3>1. /\ Core(requests, dfsIndex, dfsAncestor, Top.dfs, Top.work) /\ Top.work # <<>>
            /\ x \in DOMAIN requests /\ x \notin ToSet(Top.dfs)
        BY <1>1, <1>3
      <3> HIDE DEF x
      <3> QED BY ONLY <3>1, EnteredFirst
    <2> QED BY <1>1, <2>1
  <1> HIDE DEF x, dfs2, work2, n2
  <1>7. s \in Calls(DOMAIN requests) /\ s.module = Top.module /\ s.op = "eval" /\ s.dfs = dfs2
         /\ s.work = work2 /\ s.index = n2
    <2>1. dfs2 \in Seq(DOMAIN requests) /\ work2 \in Seq(Visits(DOMAIN requests))
      BY <1>4 DEF Core
    <2> QED BY <1>1, <2>1, Revised
  <1> HIDE DEF s
  <1>8. /\ \A m \in Modules : m # x => status'[m] = status[m] /\ dfsIndex'[m] = dfsIndex[m]
                                       /\ dfsAncestor'[m] = dfsAncestor[m]
        /\ status'[x] = "Evaluating"
    BY <1>1, <1>2
  <1>9. /\ \A m \in ToSet(dfs2) : status'[m] = "Evaluating"
        /\ ToSet(s.dfs) = ToSet(Top.dfs) \cup {x}
    BY <1>1, <1>6, <1>7, <1>8
  <1>10. UNCHANGED <<requests, body, cycleRoot, evalError>>
    OBVIOUS
  <1>11. EvalSearch(requests, status', dfsIndex', dfsAncestor', body', s)
    BY <1>4, <1>5, <1>6, <1>7, <1>9, <1>10 DEF EvalSearch
  <1>12. Types'
    BY <1>1, <1>2 DEF Inv, Types, Statuses
  <1>13. Records(requests, status', cycleRoot', evalError', body')
    <2>1. Evaluates(requests, status, cycleRoot, evalError, body, status', cycleRoot, evalError, body)
      BY <1>1, <1>3, <1>8 DEF Evaluates
    <2>2. Records(requests, status', cycleRoot, evalError, body)
      BY <1>1, <2>1, RecordsEval DEF Inv
    <2> QED BY <1>10, <2>2
  <1>14. /\ \A m \in ToSet(s.dfs) : m \in ToSet(Top.dfs) \/ status[m] \notin {"Linking", "Evaluating"}
         /\ \A m \in Modules : m \notin ToSet(Top.dfs) /\ m \notin ToSet(s.dfs) =>
              /\ status'[m] = status[m] /\ dfsIndex'[m] = dfsIndex[m] /\ dfsAncestor'[m] = dfsAncestor[m]
              /\ body'[m] = body[m]
         /\ \A m \in Modules : Over(body, m) => Over(body', m)
         /\ \A m \in Modules : status'[m] # "Linking"
    BY <1>1, <1>3, <1>8, <1>9, <1>10
  <1> QED BY <1>1, <1>2, <1>10, <1>11, <1>12, <1>13, <1>14, EvaluatedOn

\* The search goes on with the same stack and the visits work2.
LEMMA EvalOnSafe ==
  ASSUME Inv, Searching("eval"), NEW work2,
         imports' = [imports EXCEPT ![Len(imports)] = Revision(Top, Top.dfs, work2, Top.index)],
         UNCHANGED <<requests, status, dfsIndex, cycleRoot, evalError, fault, answer, initialized, calls>>,
         dfsAncestor' \in [Modules -> Int], contexts' \in Seq(Modules), body' \in [Modules -> BodyStates],
         \A m \in Modules : m \notin ToSet(Top.dfs) =>
           dfsAncestor'[m] = dfsAncestor[m] /\ body'[m] = body[m],
         \A m \in Modules : (Over(body, m) => Over(body', m)) /\ (body'[m] = "threw" <=> body[m] = "threw"),
         Core(requests, dfsIndex, dfsAncestor', Top.dfs, work2), Len(work2) = Len(Top.work),
         work2[1].module = Top.work[1].module, Bodies(requests, body', Top.dfs, work2)
  PROVE  Inv'
  <1> DEFINE s == Revision(Top, Top.dfs, work2, Top.index)
  <1>1. /\ Top \in Calls(DOMAIN requests) /\ Top.index \in Int /\ imports # <<>> /\ Top.op = "eval"
        /\ \A m \in ToSet(Top.dfs) : status[m] = "Evaluating"
        /\ \A m \in Modules : status[m] # "Linking" /\ Top.work # <<>>
        /\ Top.work[1].module = Top.module /\ At(Top.dfs, Top.work, 1) = 1
        /\ Graph(requests) /\ DOMAIN requests \subseteq Modules /\ status \in [Modules -> Statuses]
        /\ Top.dfs \in Seq(DOMAIN requests) /\ Top.work \in Seq(Visits(DOMAIN requests))
        /\ 1 \in 1 .. Len(Top.work)
    BY EvalIs
  <1>2. work2 \in Seq(Visits(DOMAIN requests))
    BY DEF Core
  <1>3. work2 # <<>> /\ At(Top.dfs, work2, 1) = 1
    <2>1. At(Top.dfs, work2, 1) = 1
      BY <1>1 DEF At
    <2>2. 1 \in 1 .. Len(work2)
      BY <1>1
    <2> QED BY <2>1, <2>2
  <1>4. s \in Calls(DOMAIN requests) /\ s.module = Top.module /\ s.op = "eval" /\ s.dfs = Top.dfs
        /\ s.work = work2 /\ s.index = Top.index
    BY ONLY <1>1, <1>2, Revised
  <1>5. imports' = [imports EXCEPT ![Len(imports)] = s]
    OBVIOUS
  <1> HIDE DEF s
  <1>6. UNCHANGED <<requests, status, dfsIndex, cycleRoot, evalError>>
    OBVIOUS
  <1>7. EvalSearch(requests, status', dfsIndex', dfsAncestor', body', s)
    BY <1>1, <1>3, <1>4, <1>6 DEF EvalSearch
  <1>8. Types'
    BY DEF Inv, Types
  <1>9. Records(requests, status, cycleRoot, evalError, body')
    <2>1. Evaluates(requests, status, cycleRoot, evalError, body, status, cycleRoot, evalError, body')
      BY <1>1 DEF Evaluates
    <2> QED BY <1>1, <2>1, RecordsEval DEF Inv
  <1>10. /\ \A m \in ToSet(s.dfs) : m \in ToSet(Top.dfs)
         /\ \A m \in Modules : m \notin ToSet(Top.dfs) =>
              /\ status'[m] = status[m] /\ dfsIndex'[m] = dfsIndex[m] /\ dfsAncestor'[m] = dfsAncestor[m]
              /\ body'[m] = body[m]
         /\ \A m \in Modules : Over(body, m) => Over(body', m)
         /\ \A m \in Modules : status'[m] # "Linking"
    BY <1>1, <1>4
  <1>11. Records(requests, status', cycleRoot', evalError', body')
    BY <1>6, <1>9
  <1> QED BY <1>1, <1>5, <1>6, <1>7, <1>8, <1>10, <1>11, EvaluatedOn

\* The modules B become Evaluated with the error of a body that threw.
LEMMA FailSafe ==
  ASSUME Inv, Searching("eval"), Fail(status, Top.dfs),
         \A m \in ToSet(Top.dfs) : Blamed(requests, body, m),
         UNCHANGED <<requests, dfsIndex, dfsAncestor, cycleRoot, initialized, contexts, calls, body, fault>>
  PROVE  Inv'
  <1>1. /\ imports # <<>> /\ Top.op = "eval" /\ status \in [Modules -> Statuses]
        /\ Graph(requests) /\ DOMAIN requests \subseteq Modules /\ ToSet(Top.dfs) \subseteq Modules
        /\ \A m \in ToSet(Top.dfs) : status[m] = "Evaluating"
        /\ \A m \in Modules : status[m] # "Linking"
        /\ Top.dfs \in Seq(DOMAIN requests)
    BY EvalIs
  <1>2. /\ status' = [m \in Modules |-> IF m \in ToSet(Top.dfs) THEN "Evaluated" ELSE status[m]]
        /\ evalError' = evalError \cup ToSet(Top.dfs)
        /\ imports' = Front(imports) /\ answer' = [module |-> Top.module, ok |-> FALSE]
    BY DEF Fail, Failing, Return
  <1>3. answer' \in Outcomes
    BY <1>1, <1>2, Answers
  <1>4. Types'
    BY <1>1, <1>2, <1>3 DEF Inv, Types, Statuses
  <1>5. \A m \in ToSet(Top.dfs) : m \in DOMAIN requests
    BY <1>1, InSet
  <1>6. Evaluates(requests, status, cycleRoot, evalError, body, status', cycleRoot, evalError', body)
    BY <1>1, <1>2, <1>5 DEF Evaluates
  <1>7. Records(requests, status', cycleRoot, evalError', body)
    BY <1>1, <1>6, RecordsEval DEF Inv
  <1>8. /\ \A m \in Modules : m \notin ToSet(Top.dfs) => status'[m] = status[m]
        /\ \A m \in Modules : status'[m] # "Linking"
    BY <1>1, <1>2
  <1>9. UNCHANGED <<requests, dfsIndex, dfsAncestor, cycleRoot, body>>
    OBVIOUS
  <1> QED BY <1>1, <1>2, <1>4, <1>7, <1>8, <1>9, SearchEnds

\* Whoever requires a module with an error is to blame, too.
LEMMA BlamedBy ==
  ASSUME Inv, Searching("eval"), Ahead, NEW e \in evalError,
         e = Required \/ Goes(requests, Required, e), NEW m \in ToSet(Top.dfs)
  PROVE  Blamed(requests, body, m)
  <1> DEFINE me == Top.work[Len(Top.work)].module
  <1>1. /\ Core(requests, dfsIndex, dfsAncestor, Top.dfs, Top.work) /\ Top.work # <<>>
        /\ Graph(requests) /\ me = Me /\ me \in DOMAIN requests
        /\ Required \in ToSet(requests[me]) /\ Required \in DOMAIN requests
    BY EvalIs, RequiredIs
  <1>2. e \in DOMAIN requests /\ Blamed(requests, body, e)
    BY DEF Inv, Records, Failed
  <1>3. PICK r \in Modules : body[r] = "threw" /\ (r = e \/ Goes(requests, e, r))
    BY <1>2 DEF Blamed
  <1>4. m = me \/ Goes(requests, m, me)
    BY <1>1, AllLead
  <1> HIDE DEF me
  <1>5. Goes(requests, me, Required)
    BY <1>1, GoesOne
  <1>6. Goes(requests, m, Required)
    <2>1. CASE m = me
      BY <1>5, <2>1
    <2>2. CASE m # me
      <3>1. Goes(requests, m, me)
        BY <1>4, <2>2
      <3> QED BY <1>1, <1>5, <3>1, GoesOn
    <2> QED BY <2>1, <2>2
  <1>7. Goes(requests, m, e)
    <2>1. CASE Required = e
      BY <1>6, <2>1
    <2>2. CASE Required # e
      <3>1. Goes(requests, Required, e)
        BY <2>2
      <3> QED BY <1>1, <1>6, <3>1, GoesOn
    <2> QED BY <2>1, <2>2
  <1>8. Goes(requests, m, r)
    <2>1. CASE r = e
      BY <1>7, <2>1
    <2>2. CASE r # e
      <3>1. Goes(requests, e, r)
        BY <1>3, <2>2
      <3> QED BY <1>2, <1>7, <3>1, GoesOn
    <2> QED BY <2>1, <2>2
  <1> QED BY <1>3, <1>8 DEF Blamed

\* The search goes on to the next required module.
LEMMA EvalGoesOn ==
  ASSUME Inv, Searching("eval"), ~Frame.body, Ahead, imports' = Advance,
         Required \in ToSet(Top.dfs) \/ Over(body, Required),
         Core(requests, dfsIndex, dfsAncestor', Top.dfs, Top.work), dfsAncestor' \in [Modules -> Int],
         \A m \in Modules : m \notin ToSet(Top.dfs) => dfsAncestor'[m] = dfsAncestor[m],
         UNCHANGED <<requests, status, dfsIndex, cycleRoot, evalError, fault, answer, initialized, calls,
                     contexts, body>>
  PROVE  Inv'
  <1> DEFINE work2 == Onward(Top.work)
  <1>1. /\ imports # <<>> /\ Top.work # <<>> /\ Top \in Calls(DOMAIN requests)
        /\ Core(requests, dfsIndex, dfsAncestor, Top.dfs, Top.work)
        /\ Bodies(requests, body, Top.dfs, Top.work)
        /\ Top.work \in Seq(Visits(DOMAIN requests)) /\ 1 \in 1 .. Len(Top.work)
        /\ ~Top.work[Len(Top.work)].body
        /\ Required = requests[Top.work[Len(Top.work)].module][Top.work[Len(Top.work)].next]
    BY EvalIs, RequiredIs
  <1>2. Bodies(requests, body, Top.dfs, work2)
    BY <1>1, BodiesOnward
  <1>3. /\ work2 \in Seq(Visits(DOMAIN requests)) /\ Len(work2) = Len(Top.work)
        /\ \A k \in 1 .. Len(Top.work) : work2[k].module = Top.work[k].module
        /\ \A k \in 1 .. Len(Top.work) : k < Len(Top.work) => work2[k].next = Top.work[k].next
    BY <1>1, OnwardIs
  <1>4. imports' = [imports EXCEPT ![Len(imports)] = Revision(Top, Top.dfs, work2, Top.index)]
    <2>1. Revision(Top, Top.dfs, work2, Top.index) = [Top EXCEPT !.work = Onward(Top.work)]
      BY <1>1 DEF Revision, Calls
    <2> QED BY <1>1, <2>1, AdvanceIs
  <1> HIDE DEF work2
  <1>5. Core(requests, dfsIndex, dfsAncestor', Top.dfs, work2)
    BY <1>3, CoreVisits
  <1>6. contexts' \in Seq(Modules) /\ body' \in [Modules -> BodyStates]
    BY DEF Inv, Types
  <1>7. work2[1].module = Top.work[1].module
    BY <1>1, <1>3
  <1>8. /\ \A m \in Modules : m \notin ToSet(Top.dfs) =>
             dfsAncestor'[m] = dfsAncestor[m] /\ body'[m] = body[m]
        /\ \A m \in Modules : (Over(body, m) => Over(body', m)) /\ (body'[m] = "threw" <=> body[m] = "threw")
        /\ Bodies(requests, body', Top.dfs, work2)
    BY <1>2
  <1>9. UNCHANGED <<requests, status, dfsIndex, cycleRoot, evalError, fault, answer, initialized, calls>>
    OBVIOUS
  <1> QED BY <1>3, <1>4, <1>5, <1>6, <1>7, <1>8, <1>9, EvalOnSafe

LEMMA EvalRequiredSafe ==
  ASSUME Inv, EvalRequired
  PROVE  Inv'
  <1> DEFINE r == Required
             me == Top.work[Len(Top.work)].module
             root == cycleRoot[r]
  <1>1. Searching("eval") /\ ~Frame.body /\ Ahead /\ UNCHANGED <<requests, initialized, contexts, calls, body>>
    BY Zenon DEF EvalRequired
  <1>2. /\ imports # <<>> /\ Top.op = "eval" /\ Top.work # <<>>
        /\ Core(requests, dfsIndex, dfsAncestor, Top.dfs, Top.work)
        /\ \A m \in ToSet(Top.dfs) : status[m] = "Evaluating" /\ m \in Modules
        /\ Graph(requests) /\ DOMAIN requests \subseteq Modules /\ status \in [Modules -> Statuses]
        /\ Indices(requests, dfsIndex) /\ Indices(requests, dfsAncestor)
        /\ dfsAncestor \in [Modules -> Int]
        /\ me = Me /\ me \in ToSet(Top.dfs) /\ me \in DOMAIN requests /\ me \in Modules
        /\ r \in Modules /\ r \in DOMAIN requests /\ r \in ToSet(requests[me])
    BY <1>1, EvalIs, RequiredIs
  <1>3. Settled(status, r)
    <2>1. Settled(status, me)
      BY <1>2 DEF Settled
    <2> QED BY <1>2, <2>1 DEF Inv, Records, Closed
  <1>4. status[r] = "Evaluated" /\ r \notin evalError => Grounded(requests, status, cycleRoot, body, r)
    BY <1>2 DEF Inv, Records, Rooted
  <1>5. status[r] = "Evaluated" /\ r \notin evalError => root # NoModule /\ status[root] = "Evaluated"
    BY <1>2, <1>4, SentinelsAssumption DEF Grounded
  <1>6. \/ /\ status[r] = "Linked" /\ Enter(r, "Evaluating")
           /\ UNCHANGED <<recordVars, answer, fault>>
        \/ /\ status[r] = "Evaluating" /\ r \in ToSet(Top.dfs) /\ dfsAncestor' = LowLink(r)
           /\ imports' = Advance /\ UNCHANGED <<status, recordVars, answer, fault, dfsIndex>>
        \/ \E kind \in KnownFaults : EvalFault(kind) /\ UNCHANGED dfsIndex
        \/ /\ status[r] = "Evaluated" /\ r \in evalError
           /\ Fail(status, Top.dfs) /\ UNCHANGED <<cycleRoot, dfsVars, fault>>
        \/ /\ status[r] = "Evaluated" /\ r \notin evalError /\ root \in evalError
           /\ Fail(status, Top.dfs) /\ UNCHANGED <<cycleRoot, dfsAncestor, fault>> /\ UNCHANGED dfsIndex
        \/ /\ status[r] = "Evaluated" /\ r \notin evalError
           /\ imports' = Advance /\ UNCHANGED <<status, recordVars, dfsAncestor, answer, fault>>
           /\ UNCHANGED dfsIndex
    <2>1. status[r] \notin {"Unlinked", "Linking"}
      BY <1>3 DEF Settled
    <2> HIDE DEF root, r
    <2> USE DEF r
    <2>2. status[r] = "Evaluated" /\ r \notin evalError =>
            ~(cycleRoot[r] = NoModule \/ status[cycleRoot[r]] # "Evaluated")
      BY <1>5 DEF root
    <2> QED BY <2>1, <2>2, KnownAre, Zenon DEF EvalRequired, root
  <1>7. CASE /\ status[r] = "Linked" /\ Enter(r, "Evaluating")
             /\ UNCHANGED <<recordVars, answer, fault>>
    <2>1. UNCHANGED <<initialized, answer, fault, cycleRoot, evalError, requests, contexts, calls, body>>
      BY <1>1, <1>7 DEF recordVars
    <2> QED BY <1>1, <1>7, <2>1, EvalEnterSafe
  <1>8. CASE /\ status[r] = "Evaluating" /\ r \in ToSet(Top.dfs) /\ dfsAncestor' = LowLink(r)
             /\ imports' = Advance /\ UNCHANGED <<status, recordVars, answer, fault, dfsIndex>>
    <2>1. UNCHANGED <<requests, status, dfsIndex, cycleRoot, evalError, fault, answer, initialized, calls,
                      contexts, body>>
      BY <1>1, <1>8 DEF recordVars
    <2>2. dfsAncestor' = [dfsAncestor EXCEPT ![me] = IF dfsAncestor[r] < @ THEN dfsAncestor[r] ELSE @]
      BY <1>2, <1>8 DEF LowLink
    <2>3. Core(requests, dfsIndex, dfsAncestor', Top.dfs, Top.work)
      <3>1. Core(requests, dfsIndex, [dfsAncestor EXCEPT ![me] = IF dfsAncestor[r] < @ THEN dfsAncestor[r] ELSE @],
                 Top.dfs, Top.work)
        BY <1>2, <1>8, CoreLowers, Zenon
      <3> QED BY <2>2, <3>1, Zenon
    <2> HIDE DEF me, r
    <2>4. /\ dfsAncestor' \in [Modules -> Int]
          /\ \A m \in Modules : m \notin ToSet(Top.dfs) => dfsAncestor'[m] = dfsAncestor[m]
      BY <1>2, <2>2
    <2> USE DEF r
    <2> QED BY <1>1, <1>8, <2>1, <2>3, <2>4, EvalGoesOn
  <1>9. CASE \E kind \in KnownFaults : EvalFault(kind) /\ UNCHANGED dfsIndex
    <2>1. /\ Unwind /\ fault' \subseteq KnownFaults
          /\ UNCHANGED <<requests, status, dfsAncestor, cycleRoot, evalError, initialized, contexts, calls, body>>
      BY <1>1, <1>9 DEF EvalFault, recordVars, Inv, Types
    <2> QED BY <1>2, <1>9, <2>1, UnwindSafe
  <1>10. CASE /\ status[r] = "Evaluated" /\ r \in evalError
              /\ Fail(status, Top.dfs) /\ UNCHANGED <<cycleRoot, dfsVars, fault>>
    <2>1. \A m \in ToSet(Top.dfs) : Blamed(requests, body, m)
      BY <1>1, <1>10, BlamedBy
    <2>2. UNCHANGED <<requests, dfsIndex, dfsAncestor, cycleRoot, initialized, contexts, calls, body, fault>>
      BY <1>1, <1>10 DEF dfsVars
    <2> QED BY <1>1, <1>10, <2>1, <2>2, FailSafe
  <1>11. CASE /\ status[r] = "Evaluated" /\ r \notin evalError /\ root \in evalError
              /\ Fail(status, Top.dfs) /\ UNCHANGED <<cycleRoot, dfsAncestor, fault>> /\ UNCHANGED dfsIndex
    <2>1. root = r \/ Goes(requests, r, root)
      BY <1>4, <1>11 DEF Grounded
    <2>2. \A m \in ToSet(Top.dfs) : Blamed(requests, body, m)
      BY <1>1, <1>11, <2>1, BlamedBy
    <2>3. UNCHANGED <<requests, dfsIndex, dfsAncestor, cycleRoot, initialized, contexts, calls, body, fault>>
      BY <1>1, <1>11
    <2> QED BY <1>1, <1>11, <2>2, <2>3, FailSafe
  <1>12. CASE /\ status[r] = "Evaluated" /\ r \notin evalError
              /\ imports' = Advance /\ UNCHANGED <<status, recordVars, dfsAncestor, answer, fault>>
              /\ UNCHANGED dfsIndex
    <2>1. UNCHANGED <<requests, status, dfsIndex, dfsAncestor, cycleRoot, evalError, fault, answer,
                      initialized, calls, contexts, body>>
      BY <1>1, <1>12 DEF recordVars
    <2>2. Over(body, r)
      BY <1>4, <1>12 DEF Grounded
    <2>3. /\ Core(requests, dfsIndex, dfsAncestor', Top.dfs, Top.work) /\ dfsAncestor' \in [Modules -> Int]
          /\ \A m \in Modules : m \notin ToSet(Top.dfs) => dfsAncestor'[m] = dfsAncestor[m]
      BY <1>2, <2>1
    <2> QED BY <1>1, <1>12, <2>1, <2>2, <2>3, EvalGoesOn
  <1> QED BY <1>6, <1>7, <1>8, <1>9, <1>10, <1>11, <1>12

\* What the visit that is running its body, or starts it, has done with it.
LEMMA MyBody ==
  ASSUME Inv, Searching("eval")
  PROVE  IF Frame.body THEN body[Me] = "running" /\ ~Over(body, Me) /\ body[Me] # "threw"
         ELSE Fresh(body, Me) /\ ~Over(body, Me) /\ body[Me] # "threw"
  <1>1. Starting(requests, body, Frame)
    BY EvalIs DEF Bodies
  <1>2. IF Frame.body THEN body[Me] = "running" ELSE Fresh(body, Me)
    BY <1>1 DEF Starting, Me
  <1>3. Fresh(body, Me) => ~Over(body, Me) /\ body[Me] # "threw"
    <2>1. "not started" # "returned" /\ "not started" # "threw"
      BY Zenon
    <2> QED BY <2>1, Zenon DEF Fresh, Over
  <1>4. body[Me] = "running" => ~Over(body, Me) /\ body[Me] # "threw"
    BY DEF Over
  <1> QED BY <1>2, <1>3, <1>4

LEMMA BodyStatesAre ==
  "running" \in BodyStates /\ "returned" \in BodyStates /\ "threw" \in BodyStates
  BY Zenon DEF BodyStates

LEMMA StartBodySafe ==
  ASSUME Inv, StartBody
  PROVE  Inv'
  <1> DEFINE work2 == Inside(Top.work)
             me == Top.work[Len(Top.work)].module
  <1>1. /\ Searching("eval") /\ ~Frame.body /\ ~Ahead
        /\ contexts' = Append(contexts, Me) /\ body' = [body EXCEPT ![Me] = "running"]
        /\ imports' = [imports EXCEPT ![Len(imports)].work[Len(Top.work)].body = TRUE]
        /\ UNCHANGED <<requests, status, dfsIndex, cycleRoot, evalError, fault, answer, initialized, calls>>
        /\ UNCHANGED dfsAncestor
    BY DEF StartBody, DependenciesDone, dfsVars, recordVars
  <1>2. /\ imports # <<>> /\ Top.work # <<>> /\ Top \in Calls(DOMAIN requests)
        /\ Core(requests, dfsIndex, dfsAncestor, Top.dfs, Top.work)
        /\ Bodies(requests, body, Top.dfs, Top.work)
        /\ Top.work \in Seq(Visits(DOMAIN requests)) /\ 1 \in 1 .. Len(Top.work)
        /\ ~Top.work[Len(Top.work)].body /\ Me = me /\ me \in Modules /\ me \in ToSet(Top.dfs)
        /\ Graph(requests) /\ DOMAIN requests \subseteq Modules
        /\ Frame = Top.work[Len(Top.work)] /\ dfsAncestor \in [Modules -> Int]
    BY <1>1, EvalIs
  <1>3. ~ Top.work[Len(Top.work)].next <= Len(requests[me])
    BY <1>1, <1>2 DEF Ahead
  <1>4. body \in [Modules -> BodyStates] /\ DOMAIN body = Modules /\ contexts \in Seq(Modules)
    BY DEF Inv, Types
  <1>5. Bodies(requests, body', Top.dfs, work2)
    BY <1>1, <1>2, <1>3, <1>4, BodiesStart
  <1>6. /\ work2 \in Seq(Visits(DOMAIN requests)) /\ Len(work2) = Len(Top.work)
        /\ \A k \in 1 .. Len(Top.work) : work2[k].module = Top.work[k].module
        /\ \A k \in 1 .. Len(Top.work) : work2[k].next = Top.work[k].next
    BY <1>2, InsideIs
  <1>7. imports' = [imports EXCEPT ![Len(imports)] = Revision(Top, Top.dfs, work2, Top.index)]
    <2>1. Revision(Top, Top.dfs, work2, Top.index) = [Top EXCEPT !.work = Inside(Top.work)]
      BY <1>2 DEF Revision, Calls
    <2> QED BY <1>1, <1>2, <2>1, AdvanceIs
  <1>8. ~Over(body, me) /\ body[me] # "threw"
    BY <1>1, <1>2, MyBody
  <1> HIDE DEF work2, me
  <1>9. Core(requests, dfsIndex, dfsAncestor', Top.dfs, work2)
    BY <1>1, <1>2, <1>6, CoreVisits
  <1>10. contexts' \in Seq(Modules) /\ body' \in [Modules -> BodyStates]
    BY <1>1, <1>2, <1>4, BodyStatesAre
  <1>11. work2[1].module = Top.work[1].module
    BY <1>2, <1>6
  <1>12. /\ \A m \in Modules : m # me => body'[m] = body[m]
         /\ body'[me] = "running"
    BY <1>1, <1>2, <1>4
  <1>13. /\ \A m \in Modules : m \notin ToSet(Top.dfs) =>
              dfsAncestor'[m] = dfsAncestor[m] /\ body'[m] = body[m]
         /\ \A m \in Modules : (Over(body, m) => Over(body', m)) /\ (body'[m] = "threw" <=> body[m] = "threw")
         /\ dfsAncestor' \in [Modules -> Int]
    BY <1>1, <1>2, <1>8, <1>12 DEF Over
  <1> QED BY <1>1, <1>5, <1>6, <1>7, <1>9, <1>10, <1>11, <1>13, EvalOnSafe

LEMMA BodyAbortsSafe ==
  ASSUME Inv, BodyAborts
  PROVE  Inv'
  <1>1. /\ imports # <<>> /\ Top.op = "eval" /\ Unwind /\ dfsIndex' = dfsIndex /\ fault' = fault
        /\ UNCHANGED <<requests, status, dfsAncestor, cycleRoot, evalError, initialized, contexts, calls, body>>
    BY DEF BodyAborts, Searching, dfsVars, recordVars
  <1>2. fault' \subseteq KnownFaults
    BY <1>1 DEF Inv, Types
  <1> QED BY <1>1, <1>2, UnwindSafe

\* The assertions at the end of InnerModuleEvaluation hold, whatever values the
\* bodies have returned.
LEMMA EvalIndexHolds ==
  ASSUME Inv, Searching("eval")
  PROVE  ~IndexBroken
  <1>1. /\ Core(requests, dfsIndex, dfsAncestor, Top.dfs, Top.work) /\ Me \in ToSet(Top.dfs)
        /\ Me \in Modules /\ dfsIndex \in [Modules -> Int] /\ dfsAncestor \in [Modules -> Int]
    BY EvalIs
  <1>2. dfsAncestor[Me] <= dfsIndex[Me] /\ dfsAncestor[Me] \in Int /\ dfsIndex[Me] \in Int
    BY <1>1 DEF Core
  <1>3. Once(Top.dfs) /\ DOMAIN Top.dfs = 1 .. Len(Top.dfs)
    BY <1>1 DEF Core
  <1> QED BY <1>2, <1>3 DEF IndexBroken, Once

\* What the end of a body leaves of the innermost search, and what it completes.
LEMMA EndsGive ==
  ASSUME Inv, NEW how \in {"returned", "threw"}, BodyEnds(how)
  PROVE  /\ Complete \subseteq ToSet(Top.dfs) /\ ToSet(Remaining) \subseteq ToSet(Top.dfs)
         /\ Me \in Complete \/ Me \in ToSet(Remaining)
         /\ \A m \in ToSet(Top.dfs) : m \in Complete \/ m \in ToSet(Remaining)
         /\ \A m \in ToSet(Remaining) : m \notin Complete
         /\ Core(requests, dfsIndex, dfsAncestor, Remaining, Front(Top.work))
         /\ Bodies(requests, body', Remaining, Front(Top.work))
         /\ \A m \in Complete : Over(body', m)
         /\ \A m \in ToSet(Top.dfs) : m = Me \/ Goes(requests, m, Me)
         /\ Complete # {} => Me \in Complete
         /\ Front(Top.work) = <<>> => Me = Top.module /\ Me \in Complete /\ Remaining = <<>>
         /\ Front(Top.work) # <<>> =>
              Front(Top.work)[1] = Top.work[1] /\ At(Remaining, Front(Top.work), 1) = 1
  <1> DEFINE me == Top.work[Len(Top.work)].module
             front == Front(Top.work)
             rest == Rest(Top.dfs, me)
             popped == Popped(Top.dfs, me)
  <1>1. /\ Searching("eval") /\ body' = [body EXCEPT ![Me] = how]
    BY DEF BodyEnds
  <1>2. /\ Core(requests, dfsIndex, dfsAncestor, Top.dfs, Top.work) /\ Top.work # <<>>
        /\ Bodies(requests, body, Top.dfs, Top.work)
        /\ Top.work[1].module = Top.module /\ At(Top.dfs, Top.work, 1) = 1
        /\ Graph(requests) /\ DOMAIN requests \subseteq Modules
        /\ Indices(requests, dfsIndex) /\ Indices(requests, dfsAncestor)
        /\ Me = me /\ me \in Modules /\ me \in ToSet(Top.dfs)
        /\ Top.dfs \in Seq(DOMAIN requests)
    BY <1>1, EvalIs
  <1>3. body \in [Modules -> BodyStates]
    BY DEF Inv, Types
  <1>4. /\ front = <<>> => dfsAncestor[me] = dfsIndex[me] /\ me = Top.work[1].module
        /\ front # <<>> => front[1] = Top.work[1] /\ At(Top.dfs, front, 1) = 1 /\ At(rest, front, 1) = 1
        /\ me \in popped
    BY <1>2, FirstOf
  <1>5. \A m \in ToSet(Top.dfs) : m = me \/ Goes(requests, m, me)
    BY <1>2, AllLead
  <1>6. Over(body', me) /\ \A m \in Modules : m # me => body'[m] = body[m]
    <2> HIDE DEF me
    <2> QED BY <1>1, <1>2, <1>3 DEF Over
  <1>7. CASE IsRoot
    <2>1. Complete = popped /\ Remaining = rest
      BY <1>2, <1>7 DEF Complete, Remaining
    <2>2. /\ Core(requests, dfsIndex, dfsAncestor, rest, front)
          /\ \A m : m \in ToSet(rest) <=> m \in ToSet(Top.dfs) /\ Place(Top.dfs, m) < Place(Top.dfs, me)
          /\ \A m : m \in popped <=> m \in ToSet(Top.dfs) /\ Place(Top.dfs, m) >= Place(Top.dfs, me)
      BY <1>2, CorePops
    <2>3. Bodies(requests, body', rest, front) /\ \A m \in popped : Over(body', m)
      BY <1>2, <1>6, BodiesPop
    <2>4. front = <<>> => rest = <<>>
      <3>1. SUFFICES ASSUME front = <<>> PROVE rest = <<>>
        OBVIOUS
      <3>2. Place(Top.dfs, me) = 1
        BY <1>2, <1>4, <3>1 DEF At
      <3>3. rest = SubSeq(Top.dfs, 1, 0)
        BY <3>2 DEF Rest
      <3> HIDE DEF rest
      <3> QED BY <1>2, <3>3
    <2>5. \A m \in ToSet(Top.dfs) : Place(Top.dfs, m) \in Int
      BY <1>2, PlaceOf DEF Core
    <2> HIDE DEF me, front, rest, popped
    <2>6. /\ popped \subseteq ToSet(Top.dfs) /\ ToSet(rest) \subseteq ToSet(Top.dfs)
          /\ \A m \in ToSet(rest) : m \notin popped
          /\ \A m \in ToSet(Top.dfs) : m \in popped \/ m \in ToSet(rest)
      BY <1>2, <2>2, <2>5
    <2>7. /\ Complete \subseteq ToSet(Top.dfs) /\ ToSet(Remaining) \subseteq ToSet(Top.dfs)
          /\ Me \in Complete
          /\ \A m \in ToSet(Remaining) : m \notin Complete
          /\ \A m \in ToSet(Top.dfs) : m \in Complete \/ m \in ToSet(Remaining)
          /\ Core(requests, dfsIndex, dfsAncestor, Remaining, front)
          /\ Bodies(requests, body', Remaining, front)
          /\ \A m \in Complete : Over(body', m)
          /\ \A m \in ToSet(Top.dfs) : m = Me \/ Goes(requests, m, Me)
          /\ front = <<>> => Me = Top.module /\ Remaining = <<>>
          /\ front # <<>> => front[1] = Top.work[1] /\ At(Remaining, front, 1) = 1
      BY <1>2, <1>4, <1>5, <2>1, <2>2, <2>3, <2>4, <2>6
    <2> QED BY <2>7 DEF front
  <1>8. CASE ~IsRoot
    <2>1. Complete = {} /\ Remaining = Top.dfs
      BY <1>8 DEF Complete, Remaining
    <2>2. dfsAncestor[me] # dfsIndex[me]
      BY <1>2, <1>8 DEF IsRoot
    <2>3. Core(requests, dfsIndex, dfsAncestor, Top.dfs, front)
      BY <1>2, <2>2, CoreStays
    <2>4. Bodies(requests, body', Top.dfs, front)
      BY <1>2, <1>6, BodiesStay
    <2>5. front # <<>>
      BY <1>4, <2>2
    <2> HIDE DEF me, front, rest, popped
    <2>6. /\ Complete \subseteq ToSet(Top.dfs) /\ ToSet(Remaining) \subseteq ToSet(Top.dfs)
          /\ Me \in ToSet(Remaining) /\ Complete = {} /\ Remaining = Top.dfs
          /\ Core(requests, dfsIndex, dfsAncestor, Remaining, front)
          /\ Bodies(requests, body', Remaining, front)
          /\ \A m \in ToSet(Top.dfs) : m = Me \/ Goes(requests, m, Me)
          /\ front # <<>> /\ front[1] = Top.work[1] /\ At(Remaining, front, 1) = 1
      BY <1>2, <1>4, <1>5, <2>1, <2>3, <2>4, <2>5
    <2> QED BY <2>6 DEF front
  <1> QED BY <1>7, <1>8

\* The modules F are left on the stack with an error when the body threw.
LEMMA EndsRecord ==
  ASSUME Inv, NEW how \in {"returned", "threw"}, BodyEnds(how), CompletesCycle, requests' = requests,
         NEW F \in SUBSET ToSet(Remaining), F # {} => how = "threw", how = "threw" => F = ToSet(Remaining),
         status' = [m \in Modules |-> IF m \in F \cup Complete THEN "Evaluated" ELSE status[m]],
         evalError' = evalError \cup F
  PROVE  /\ Records(requests, status', cycleRoot', evalError', body')
         /\ status' \in [Modules -> Statuses] /\ evalError' \subseteq Modules
         /\ cycleRoot' \in [Modules -> Modules \cup {NoModule}]
         /\ contexts' \in Seq(Modules) /\ body' \in [Modules -> BodyStates]
         /\ \A m \in Modules : m \notin ToSet(Top.dfs) => status'[m] = status[m] /\ body'[m] = body[m]
         /\ \A m \in Modules : Over(body, m) => Over(body', m)
         /\ \A m \in Modules : status'[m] # "Linking"
         /\ \A m \in ToSet(Remaining) : m \in F \/ status'[m] = "Evaluating"
  <1>1. /\ Searching("eval") /\ Frame.body /\ body' = [body EXCEPT ![Me] = how] /\ contexts' = Front(contexts)
        /\ cycleRoot' = [m \in Modules |-> IF m \in Complete THEN Me ELSE cycleRoot[m]]
    BY DEF BodyEnds, CompletesCycle, Leave
  <1>2. /\ Graph(requests) /\ DOMAIN requests \subseteq Modules /\ status \in [Modules -> Statuses]
        /\ Me \in Modules /\ Me \in DOMAIN requests /\ Me \in ToSet(Top.dfs)
        /\ ToSet(Top.dfs) \subseteq Modules /\ Top.dfs \in Seq(DOMAIN requests)
        /\ \A m \in ToSet(Top.dfs) : status[m] = "Evaluating"
        /\ \A m \in Modules : status[m] # "Linking"
    BY <1>1, EvalIs
  <1>3. /\ body \in [Modules -> BodyStates] /\ contexts \in Seq(Modules)
        /\ cycleRoot \in [Modules -> Modules \cup {NoModule}] /\ evalError \subseteq Modules
    BY DEF Inv, Types
  <1>4. /\ Complete \subseteq ToSet(Top.dfs) /\ ToSet(Remaining) \subseteq ToSet(Top.dfs)
        /\ Me \in Complete \/ Me \in ToSet(Remaining)
        /\ \A m \in ToSet(Remaining) : m \notin Complete
        /\ \A m \in Complete : Over(body', m)
        /\ \A m \in ToSet(Top.dfs) : m = Me \/ Goes(requests, m, Me)
        /\ Complete # {} => Me \in Complete
    BY EndsGive
  <1>5. \A m \in ToSet(Top.dfs) : m \in DOMAIN requests
    BY <1>2, InSet
  <1>6. ~Over(body, Me) /\ body[Me] # "threw"
    BY <1>1, MyBody
  <1>7. /\ \A m \in Modules : m # Me => body'[m] = body[m]
        /\ body'[Me] = how
    BY <1>1, <1>2, <1>3
  <1>8. /\ \A m \in Modules : (body[m] = "threw" => body'[m] = "threw") /\ (Over(body, m) => Over(body', m))
        /\ \A m \in Modules : m \notin ToSet(Top.dfs) => body'[m] = body[m]
    BY <1>2, <1>6, <1>7 DEF Over
  <1>9. contexts' \in Seq(Modules)
    <2>1. CASE contexts = <<>>
      <3>1. Front(contexts) = <<>>
        BY <2>1 DEF Front
      <3> QED BY <1>1, <3>1
    <2>2. CASE contexts # <<>>
      BY <1>1, <1>3, <2>2, FrontIs
    <2> QED BY <2>1, <2>2
  <1>10. body' \in [Modules -> BodyStates] /\ cycleRoot' \in [Modules -> Modules \cup {NoModule}]
    BY <1>1, <1>2, <1>3, BodyStatesAre
  <1>11. /\ \A m \in Modules : status'[m] = IF m \in F \cup Complete THEN "Evaluated" ELSE status[m]
         /\ \A m \in Modules : cycleRoot'[m] = IF m \in Complete THEN Me ELSE cycleRoot[m]
    BY <1>1
  <1>12. \A m \in F : m \in DOMAIN requests /\ status'[m] = "Evaluated" /\ Blamed(requests, body', m)
    <2> SUFFICES ASSUME NEW m \in F
                 PROVE  m \in DOMAIN requests /\ status'[m] = "Evaluated" /\ Blamed(requests, body', m)
      OBVIOUS
    <2>1. body'[Me] = "threw"
      BY <1>7
    <2>2. m \in ToSet(Top.dfs) /\ m \in DOMAIN requests /\ m \in Modules
      BY <1>2, <1>4, <1>5
    <2>3. Blamed(requests, body', m)
      BY <1>2, <1>4, <2>1, <2>2 DEF Blamed
    <2> QED BY <1>11, <2>2, <2>3
  <1>13. \A m \in DOMAIN requests : status'[m] = "Evaluated" /\ m \notin evalError' =>
           (status[m] = "Evaluated" /\ cycleRoot'[m] = cycleRoot[m])
             \/ Grounded(requests, status', cycleRoot', body', m)
    <2> SUFFICES ASSUME NEW m \in DOMAIN requests, status'[m] = "Evaluated", m \notin evalError'
                 PROVE  (status[m] = "Evaluated" /\ cycleRoot'[m] = cycleRoot[m])
                          \/ Grounded(requests, status', cycleRoot', body', m)
      OBVIOUS
    <2>1. m \in Modules /\ m \notin F
      BY <1>2
    <2>2. CASE m \in Complete
      <3>1. Me \in Complete /\ cycleRoot'[m] = Me /\ status'[Me] = "Evaluated" /\ Over(body', m)
        BY <1>2, <1>4, <1>11, <2>1, <2>2
      <3>2. m = Me \/ Goes(requests, m, Me)
        BY <1>4, <2>2
      <3> QED BY <1>2, <3>1, <3>2 DEF Grounded
    <2>3. CASE m \notin Complete
      BY <1>11, <2>1, <2>3
    <2> QED BY <2>2, <2>3
  <1>14. Evaluates(requests, status, cycleRoot, evalError, body, status', cycleRoot', evalError', body')
    <2>1. /\ evalError \subseteq evalError'
          /\ \A m \in evalError' : m \in evalError
               \/ (m \in DOMAIN requests /\ status'[m] = "Evaluated" /\ Blamed(requests, body', m))
      BY <1>12
    <2>2. \A m \in Modules : status'[m] = status[m]
            \/ (status[m] = "Linked" /\ status'[m] = "Evaluating")
            \/ (status[m] = "Evaluating" /\ status'[m] = "Evaluated")
      BY <1>2, <1>4, <1>11
    <2>3. \A m \in Modules : body'[m] = "threw" => body[m] = "threw" \/ status'[m] = "Evaluated"
      <3>1. body'[Me] = "threw" => status'[Me] = "Evaluated"
        BY <1>2, <1>4, <1>7, <1>11
      <3> QED BY <1>7, <3>1
    <2>4. \A m \in DOMAIN requests : status'[m] \in {"Unlinked", "Linking", "Linked"} => body'[m] = body[m]
      <3>1. status'[Me] \notin {"Unlinked", "Linking", "Linked"}
        BY <1>2, <1>11
      <3> QED BY <1>2, <1>7, <3>1
    <2> QED BY <1>8, <1>13, <2>1, <2>2, <2>3, <2>4 DEF Evaluates
  <1>15. Records(requests, status', cycleRoot', evalError', body')
    BY <1>2, <1>14, RecordsEval DEF Inv
  <1>16. status' \in [Modules -> Statuses] /\ evalError' \subseteq Modules
    BY <1>2, <1>3, <1>4 DEF Statuses
  <1>17. \A m \in Modules : m \notin ToSet(Top.dfs) => status'[m] = status[m]
    BY <1>4, <1>11
  <1>18. \A m \in Modules : status'[m] # "Linking"
    BY <1>2, <1>11
  <1>19. \A m \in ToSet(Remaining) : m \in F \/ status'[m] = "Evaluating"
    BY <1>2, <1>4, <1>11
  <1> QED BY <1>8, <1>9, <1>10, <1>15, <1>16, <1>17, <1>18, <1>19

LEMMA BodyThrowsSafe ==
  ASSUME Inv, BodyThrows
  PROVE  Inv'
  <1> DEFINE F == ToSet(Remaining)
  <1>0. BodyEnds("threw") /\ ~IndexBroken
    BY EvalIndexHolds DEF BodyThrows, BodyEnds
  <1>1. /\ BodyEnds("threw") /\ CompletesCycle /\ imports' = Front(imports) /\ answer' = [module |-> Top.module, ok |-> FALSE]
        /\ evalError' = evalError \cup F
        /\ status' = [m \in Modules |-> IF m \in F THEN "Evaluated" ELSE Completed[m]]
        /\ UNCHANGED <<requests, dfsIndex, dfsAncestor, initialized, calls, fault>>
    BY <1>0, Zenon DEF BodyThrows, Fail, Failing, Return
  <1>2. status' = [m \in Modules |-> IF m \in F \cup Complete THEN "Evaluated" ELSE status[m]]
    BY <1>1 DEF Completed
  <1>3. /\ Records(requests, status', cycleRoot', evalError', body')
        /\ status' \in [Modules -> Statuses] /\ evalError' \subseteq Modules
        /\ cycleRoot' \in [Modules -> Modules \cup {NoModule}]
        /\ contexts' \in Seq(Modules) /\ body' \in [Modules -> BodyStates]
        /\ \A m \in Modules : m \notin ToSet(Top.dfs) => status'[m] = status[m] /\ body'[m] = body[m]
        /\ \A m \in Modules : Over(body, m) => Over(body', m)
        /\ \A m \in Modules : status'[m] # "Linking"
    BY <1>1, <1>2, EndsRecord
  <1>4. imports # <<>>
    BY <1>1 DEF BodyEnds, Searching
  <1>5. answer' \in Outcomes
    BY <1>1, <1>4, Answers
  <1>6. Types'
    BY <1>1, <1>3, <1>5 DEF Inv, Types
  <1> QED BY <1>1, <1>3, <1>4, <1>6, SearchEnds

LEMMA BodyReturnsSafe ==
  ASSUME Inv, NEW v \in Values \cup {Unconvertible}, BodyReturns(v)
  PROVE  Inv'
  <1> DEFINE front == Front(Top.work)
             s == Revision(Top, Remaining, front, v)
  <1>0. BodyEnds("returned") /\ Searching("eval") /\ ~IndexBroken
    BY EvalIndexHolds DEF BodyReturns, BodyEnds
  <1>1. /\ BodyEnds("returned") /\ Searching("eval") /\ CompletesCycle /\ status' = Completed
        /\ UNCHANGED <<requests, dfsIndex, dfsAncestor, evalError, initialized, calls>>
    BY <1>0, Zenon DEF BodyReturns
  <1>2. /\ status' = [m \in Modules |-> IF m \in {} \cup Complete THEN "Evaluated" ELSE status[m]]
        /\ evalError' = evalError \cup {} /\ {} \in SUBSET ToSet(Remaining)
    BY <1>1 DEF Completed
  <1>3. /\ Records(requests, status', cycleRoot', evalError', body')
        /\ status' \in [Modules -> Statuses] /\ evalError' \subseteq Modules
        /\ cycleRoot' \in [Modules -> Modules \cup {NoModule}]
        /\ contexts' \in Seq(Modules) /\ body' \in [Modules -> BodyStates]
        /\ \A m \in Modules : m \notin ToSet(Top.dfs) => status'[m] = status[m] /\ body'[m] = body[m]
        /\ \A m \in Modules : Over(body, m) => Over(body', m)
        /\ \A m \in Modules : status'[m] # "Linking"
        /\ \A m \in ToSet(Remaining) : status'[m] = "Evaluating"
    BY <1>1, <1>2, EndsRecord
  <1>4. /\ imports # <<>> /\ Top.op = "eval" /\ Top \in Calls(DOMAIN requests)
        /\ Top.work \in Seq(Visits(DOMAIN requests)) /\ Top.work # <<>> /\ Top.work[1].module = Top.module
        /\ Me \in Modules /\ Me \in ToSet(Top.dfs)
        /\ \A m \in ToSet(Top.dfs) : status[m] = "Evaluating"
    BY <1>1, EvalIs
  <1>5. /\ ToSet(Remaining) \subseteq ToSet(Top.dfs)
        /\ Core(requests, dfsIndex, dfsAncestor, Remaining, front)
        /\ Bodies(requests, body', Remaining, front)
        /\ front = <<>> => Me = Top.module /\ Me \in Complete /\ Remaining = <<>>
        /\ front # <<>> => front[1] = Top.work[1] /\ At(Remaining, front, 1) = 1
    BY <1>1, EndsGive
  <1>6. /\ front \in Seq(Visits(DOMAIN requests)) /\ Len(front) = Len(Top.work) - 1
        /\ Len(Top.work) \in Nat
    BY <1>4, FrontIs
  <1>7. \A ok \in BOOLEAN : [module |-> Top.module, ok |-> ok] \in Outcomes
    BY <1>4, Answers
  <1> HIDE DEF front
  <1>8. front = <<>> <=> Len(Top.work) = 1
    <2>1. front = <<>> => Len(front) = 0
      OBVIOUS
    <2>2. Len(front) = 0 => front = <<>>
      BY <1>6, EmptySeq
    <2>3. Len(front) = 0 <=> Len(Top.work) = 1
      BY <1>6
    <2> QED BY <2>1, <2>2, <2>3
  <1>9. CASE \E ok \in BOOLEAN : Return(ok) /\ UNCHANGED fault
    <2>1. imports' = Front(imports) /\ answer' \in Outcomes /\ fault' = fault
      BY <1>7, <1>9 DEF Return
    <2>2. Types'
      BY <1>1, <1>3, <2>1 DEF Inv, Types
    <2> QED BY <1>1, <1>3, <1>4, <2>1, <2>2, SearchEnds
  <1>10. CASE Len(Top.work) = 1
    <2>1. status'[Top.module] = "Evaluated" /\ Top.module \notin evalError /\ Remaining = <<>>
      <3>1. Me = Top.module /\ Me \in Complete /\ Remaining = <<>>
        BY <1>5, <1>8, <1>10
      <3>2. Me \notin evalError
        BY <1>4 DEF Inv, Records, Failed
      <3> QED BY <1>2, <1>4, <3>1, <3>2
    <2>2. Return(TRUE) /\ UNCHANGED fault
      <3>1. ~ Len(Top.work) > 1
        BY <1>10
      <3> QED BY <1>0, <2>1, <3>1, Zenon DEF BodyReturns
    <2> QED BY <1>9, <2>2
  <1>11. CASE /\ Len(Top.work) > 1 /\ v \in Values
              /\ imports' = [imports EXCEPT ![Len(imports)] =
                   [Top EXCEPT !.dfs = Remaining, !.work = Front(@), !.index = v]]
              /\ UNCHANGED <<answer, fault>>
    <2>1. imports' = [imports EXCEPT ![Len(imports)] = s]
      BY <1>11 DEF Revision, front
    <2>2. v \in Int /\ front # <<>>
      <3>1. v \in Int
        BY <1>11, SentinelsAssumption
      <3>2. Len(Top.work) # 1
        <4>1. Len(Top.work) > 1
          BY <1>11, Zenon
        <4>2. Len(Top.work) = 1 => ~ Len(Top.work) > 1
          OBVIOUS
        <4> QED BY <4>1, <4>2, Zenon
      <3> QED BY <1>8, <3>1, <3>2
    <2>3. Remaining \in Seq(DOMAIN requests)
      BY <1>5 DEF Core
    <2>4. s \in Calls(DOMAIN requests) /\ s.module = Top.module /\ s.op = Top.op /\ s.dfs = Remaining
          /\ s.work = front /\ s.index = v
      BY ONLY <1>4, <1>6, <2>2, <2>3, Revised
    <2> HIDE DEF s
    <2>5. UNCHANGED <<requests, dfsIndex, dfsAncestor>>
      BY <1>1
    <2>6. EvalSearch(requests, status', dfsIndex', dfsAncestor', body', s)
      BY <1>3, <1>4, <1>5, <2>2, <2>4, <2>5 DEF EvalSearch
    <2>7. Types'
      BY <1>1, <1>3, <1>11 DEF Inv, Types
    <2>8. /\ \A m \in ToSet(s.dfs) : m \in ToSet(Top.dfs)
          /\ \A m \in Modules : m \notin ToSet(Top.dfs) =>
               /\ status'[m] = status[m] /\ dfsIndex'[m] = dfsIndex[m] /\ dfsAncestor'[m] = dfsAncestor[m]
               /\ body'[m] = body[m]
      BY <1>3, <1>5, <2>4, <2>5
    <2> QED BY <1>3, <1>4, <2>1, <2>5, <2>6, <2>7, <2>8, EvaluatedOn
  <1>12. \/ Len(Top.work) = 1
         \/ /\ Len(Top.work) > 1 /\ v \in Values
            /\ imports' = [imports EXCEPT ![Len(imports)] =
                 [Top EXCEPT !.dfs = Remaining, !.work = Front(@), !.index = v]]
            /\ UNCHANGED <<answer, fault>>
         \/ \E ok \in BOOLEAN : Return(ok) /\ UNCHANGED fault
    BY <1>0, Zenon DEF BodyReturns, Converts
  <1> QED BY <1>9, <1>10, <1>11, <1>12

-----------------------------------------------------------------------------
(* The theorems *)

LEMMA InvBegins == Init => Inv
  <1> SUFFICES ASSUME Init PROVE Inv
    OBVIOUS
  <1>1. /\ requests \in Graphs /\ status = [m \in Modules |-> "Unlinked"]
        /\ dfsIndex = [m \in Modules |-> 0] /\ dfsAncestor = [m \in Modules |-> 0]
        /\ cycleRoot = [m \in Modules |-> NoModule] /\ evalError = {} /\ initialized = {}
        /\ imports = <<>> /\ contexts = <<>> /\ answer = [module |-> NoModule, ok |-> FALSE]
        /\ calls = 0 /\ fault = {}
    BY Zenon DEF Init
  <1>2. body \in [Modules -> BodyStates]
    <2>1. body = [m \in Modules |-> "not started"]
      BY Zenon DEF Init
    <2>2. "not started" \in BodyStates
      BY Zenon DEF BodyStates
    <2> QED BY <2>1, <2>2, Zenon
  <1>3. \A m \in Modules : Fresh(body, m) /\ ~(body[m] = "threw")
    <2>1. body = [m \in Modules |-> "not started"]
      BY Zenon DEF Init
    <2>2. "not started" # "threw"
      BY Zenon
    <2> QED BY <2>1, <2>2, Zenon DEF Fresh
  <1>4. Types
    BY <1>1, <1>2, MaxCallsAssumption DEF Types, Statuses, Outcomes
  <1>5. DOMAIN requests \subseteq Modules /\ \A m \in Modules : status[m] = "Unlinked"
    BY <1>1, <1>4, TypesGive
  <1>6. Searches(requests, status, dfsIndex, dfsAncestor, body, imports)
    BY <1>1, <1>5, Unwound
  <1>7. Records(requests, status, cycleRoot, evalError, body)
    <2>1. Closed(requests, status) /\ Rooted(requests, status, cycleRoot, evalError, body)
      BY <1>5 DEF Closed, Settled, Rooted
    <2>2. Failed(requests, status, evalError, body)
      BY <1>1 DEF Failed
    <2>3. Ran(requests, status, body)
      BY <1>3, <1>5 DEF Ran
    <2> QED BY <2>1, <2>2, <2>3 DEF Records
  <1> QED BY <1>4, <1>6, <1>7 DEF Inv

LEMMA InvHolds == Inv /\ [Next]_vars => Inv'
  <1> SUFFICES ASSUME Inv, [Next]_vars PROVE Inv'
    OBVIOUS
  <1>1. CASE UNCHANGED vars
    BY <1>1 DEF vars, Inv, Types, Top, Last
  <1>2. ASSUME NEW m \in DOMAIN requests, ImportModule(m) PROVE Inv'
    BY <1>2, ImportModuleSafe
  <1>3. CASE LinkRequired
    BY <1>3, LinkRequiredSafe
  <1>4. CASE LinkFinish
    BY <1>4, LinkFinishSafe
  <1>5. CASE LinkThrows
    BY <1>5, LinkThrowsSafe
  <1>6. CASE EvaluateModule
    BY <1>6, EvaluateModuleSafe
  <1>7. CASE EvalRequired
    BY <1>7, EvalRequiredSafe
  <1>8. CASE StartBody
    BY <1>8, StartBodySafe
  <1>9. ASSUME NEW v \in Values \cup {Unconvertible}, BodyReturns(v) PROVE Inv'
    BY <1>9, BodyReturnsSafe
  <1>10. CASE BodyThrows
    BY <1>10, BodyThrowsSafe
  <1>11. CASE BodyAborts
    BY <1>11, BodyAbortsSafe
  <1> QED BY <1>1, <1>2, <1>3, <1>4, <1>5, <1>6, <1>7, <1>8, <1>9, <1>10, <1>11 DEF Next, Step

LEMMA InvAlways == Spec => []Inv
  <1> QED BY InvBegins, InvHolds, PTL DEF Spec

\* Every variable of CyclicModules keeps its type.
THEOREM ModuleTypes == Spec => []TypeOK
  <1>1. Inv => TypeOK
    <2> SUFFICES ASSUME Inv PROVE TypeOK
      OBVIOUS
    <2>1. /\ requests \in Graphs
          /\ status \in [Modules -> Statuses]
          /\ dfsIndex \in [Modules -> Int]
          /\ dfsAncestor \in [Modules -> Int]
          /\ cycleRoot \in [Modules -> Modules \cup {NoModule}]
          /\ evalError \subseteq Modules
          /\ initialized \subseteq Modules
          /\ answer \in Outcomes
          /\ calls \in 0 .. MaxCalls
      BY DEF Inv, Types
    <2>2. ToSet(contexts) \subseteq Modules
      BY InSet DEF Inv, Types
    <2>3. body \in [Modules -> {"not started", "running", "returned", "threw"}]
      BY Zenon DEF Inv, Types, BodyStates
    <2>4. fault \subseteq {"link evaluating", "link stack", "link index", "not linked", "eval unlinked",
                           "eval other search", "eval root", "eval index", "not evaluated"}
      <3>1. KnownFaults \subseteq {"link evaluating", "link stack", "link index", "not linked",
                                   "eval unlinked", "eval other search", "eval root", "eval index", "not evaluated"}
        BY Zenon DEF KnownFaults
      <3> QED BY <3>1, Zenon DEF Inv, Types
    <2>5. \A i \in DOMAIN imports :
            /\ imports[i].module \in Modules /\ imports[i].op \in {"link", "eval"}
            /\ imports[i].index \in Int
            /\ ToSet(imports[i].dfs) \subseteq Modules
            /\ ToSet(imports[i].work) \subseteq Frames
      <3>1. imports \in Seq(Calls(DOMAIN requests)) /\ DOMAIN requests \subseteq Modules
        BY TypesGive DEF Inv, Searches
      <3> SUFFICES ASSUME NEW i \in DOMAIN imports
                   PROVE  /\ imports[i].module \in Modules /\ imports[i].op \in {"link", "eval"}
                          /\ imports[i].index \in Int
                          /\ ToSet(imports[i].dfs) \subseteq Modules
                          /\ ToSet(imports[i].work) \subseteq Frames
        OBVIOUS
      <3>2. imports[i] \in Calls(DOMAIN requests)
        BY <3>1
      <3>3. /\ imports[i].module \in DOMAIN requests /\ imports[i].op \in {"link", "eval"}
            /\ imports[i].index \in Int /\ imports[i].dfs \in Seq(DOMAIN requests)
            /\ imports[i].work \in Seq(Visits(DOMAIN requests))
        BY <3>2 DEF Calls
      <3>4. ToSet(imports[i].dfs) \subseteq DOMAIN requests
        BY <3>3, InSet
      <3>5. ToSet(imports[i].work) \subseteq Visits(DOMAIN requests)
        BY <3>3, InSet
      <3>6. Visits(DOMAIN requests) \subseteq Frames
        BY <3>1 DEF Visits, Frames
      <3> QED BY <3>1, <3>3, <3>4, <3>5, <3>6
    <2> QED BY <2>1, <2>2, <2>3, <2>4, <2>5, Zenon DEF TypeOK
  <1> QED BY <1>1, InvAlways, PTL

\* The searches that interrupt each other share no module, a module is Linking
\* exactly while the innermost call's Link has it on its stack, and only two
\* of the assertions of the searches can fail.
THEOREM SearchesKeepApart == Spec => []SearchesSound
  <1>1. Inv => SearchesSound
    <2> SUFFICES ASSUME Inv PROVE SearchesSound
      OBVIOUS
    <2>1. LinkingOnStack
      <3> SUFFICES ASSUME NEW m \in Modules
                   PROVE  status[m] = "Linking" <=> (imports # <<>> /\ Top.op = "link" /\ m \in ToSet(Top.dfs))
        BY DEF LinkingOnStack
      <3>1. ASSUME imports # <<>>, Top.op = "link", m \in ToSet(Top.dfs)
            PROVE  status[m] = "Linking"
        BY <3>1, Innermost DEF LinkSearch, Linkage
      <3>2. ASSUME status[m] = "Linking"
            PROVE  imports # <<>> /\ Top.op = "link" /\ m \in ToSet(Top.dfs)
        <4>1. imports # <<>>
          BY <3>2, NoLink
        <4> QED BY <3>2, <4>1, Innermost
      <3> QED BY <3>1, <3>2
    <2>2. OnOneStack
      <3> SUFFICES ASSUME NEW i \in DOMAIN imports, NEW j \in DOMAIN imports,
                          NEW k \in DOMAIN imports[i].dfs, NEW l \in DOMAIN imports[j].dfs,
                          imports[i].dfs[k] = imports[j].dfs[l]
                   PROVE  i = j /\ k = l
        BY DEF OnOneStack
      <3>1. imports \in Seq(Calls(DOMAIN requests)) /\ Separate(imports)
        BY DEF Inv, Searches
      <3>2. i \in 1 .. Len(imports) /\ j \in 1 .. Len(imports)
        BY <3>1
      <3>3. imports[i].dfs[k] \in ToSet(imports[i].dfs) /\ imports[j].dfs[l] \in ToSet(imports[j].dfs)
        BY DEF ToSet
      <3>4. i = j
        BY <3>2, <3>3, <3>1 DEF Separate
      <3>5. Core(requests, dfsIndex, dfsAncestor, imports[i].dfs, imports[i].work)
        BY <3>2 DEF Inv, Searches, EvalSearch, LinkSearch, Linkage
      <3>6. Once(imports[i].dfs) /\ DOMAIN imports[i].dfs = 1 .. Len(imports[i].dfs)
        BY <3>5 DEF Core
      <3> QED BY <3>4, <3>6 DEF Once
    <2>3. fault \subseteq KnownFaults
      BY DEF Inv, Types
    <2> QED BY <2>1, <2>2, <2>3 DEF SearchesSound
  <1> QED BY <1>1, InvAlways, PTL

\* A module has an error only if it imports, directly or not, a module whose
\* body threw.
THEOREM BlameHolds == Spec => []BlameReaches
  <1>1. Inv => BlameReaches
    <2> SUFFICES ASSUME Inv, NEW m \in evalError
                 PROVE  \E r \in Modules : body[r] = "threw" /\ (r = m \/ Order!Reaches(m, r))
      BY DEF BlameReaches
    <2>1. Blamed(requests, body, m)
      BY DEF Inv, Records, Failed
    <2> QED BY <2>1, GoesIsReaches DEF Blamed
  <1> QED BY <1>1, InvAlways, PTL

\* Only a body that returns ends an import well.
LEMMA EndsWell ==
  ASSUME Inv, Next, imports # <<>>, imports' = Front(imports), answer'.ok
  PROVE  \E v \in Values \cup {Unconvertible} :
           BodyReturns(v) /\ Len(Top.work) = 1 /\ answer'.module = Top.module
  <1>1. imports \in Seq(Calls(DOMAIN requests)) /\ Len(imports) \in Nat
    BY Innermost
  <1>2. Len(imports') = Len(imports) - 1 /\ imports' \in Seq(Calls(DOMAIN requests))
    BY <1>1, FrontIs
  <1>3. ~Unwind /\ ~Return(FALSE)
    BY DEF Unwind, Return
  <1>4. \A s : imports' # [imports EXCEPT ![Len(imports)] = s]
    <2> SUFFICES ASSUME NEW s, imports' = [imports EXCEPT ![Len(imports)] = s]
                 PROVE  FALSE
      OBVIOUS
    <2> DEFINE t == [imports EXCEPT ![Len(imports)] = s]
    <2>1. DOMAIN t = DOMAIN imports /\ DOMAIN imports = 1 .. Len(imports)
      BY <1>1
    <2>2. imports' = t
      OBVIOUS
    <2> HIDE DEF t
    <2>3. DOMAIN imports' = 1 .. Len(imports')
      BY <1>2
    <2> QED BY <1>1, <1>2, <2>1, <2>2, <2>3
  <1>5. \A s : imports' # Append(imports, s) /\ imports' # Append(Front(imports), s)
    <2> SUFFICES ASSUME NEW s PROVE imports' # Append(imports, s) /\ imports' # Append(Front(imports), s)
      OBVIOUS
    <2>1. Len(Append(imports, s)) = Len(imports) + 1
      BY <1>1
    <2>2. Front(imports) \in Seq(Calls(DOMAIN requests)) /\ Len(Front(imports)) = Len(imports) - 1
      BY <1>1, FrontIs
    <2>3. Len(Append(Front(imports), s)) = Len(imports)
      BY <1>1, <2>2
    <2> QED BY <1>1, <1>2, <2>1, <2>3
  <1>6. imports' # imports
    BY <1>1, <1>2
  <1>7. ASSUME Top.work # <<>> PROVE imports' # Advance
    BY <1>4, <1>7, AdvanceIs
  <1>8. ~LinkRequired
    BY <1>3, <1>4, <1>7, Zenon DEF LinkRequired, LinkFault, Enter, Searching
  <1>9. ~LinkFinish /\ ~LinkThrows
    <2>1. ~LinkFinish
      BY <1>3, <1>4, Zenon DEF LinkFinish, LinkFault
    <2>2. ~LinkThrows
      BY <1>3, Zenon DEF LinkThrows
    <2> QED BY <2>1, <2>2
  <1>10. ~EvaluateModule
    BY <1>3, <1>5, Zenon DEF EvaluateModule, Begin
  <1>11. ~EvalRequired
    BY <1>3, <1>4, <1>7, Zenon DEF EvalRequired, EvalFault, Enter, Fail, Searching
  <1>12. ~StartBody
    <2> SUFFICES ASSUME StartBody PROVE FALSE
      OBVIOUS
    <2>1. Top.work # <<>> /\ imports' = [imports EXCEPT ![Len(imports)].work[Len(Top.work)].body = TRUE]
      BY DEF StartBody, Searching
    <2> QED BY <1>4, <2>1, AdvanceIs
  <1>13. ~BodyThrows /\ ~BodyAborts
    BY <1>3, Zenon DEF BodyThrows, BodyAborts, Fail, EvalFault
  <1>14. \A m \in DOMAIN requests : ~ImportModule(m)
    BY <1>5, <1>6, Zenon DEF ImportModule, Begin
  <1>15. PICK v \in Values \cup {Unconvertible} : BodyReturns(v)
    BY <1>8, <1>9, <1>10, <1>11, <1>12, <1>13, <1>14, Zenon DEF Next, Step
  <1>16. Len(Top.work) = 1 /\ Return(TRUE)
    BY <1>3, <1>4, <1>15, Zenon DEF BodyReturns, EvalFault
  <1> QED BY <1>15, <1>16 DEF Return

\* When an import that linked and evaluated a module ends well, the bodies of
\* that module and of all it imports have run.
THEOREM ImportDoneHolds == Spec => ImportDone
  <1> DEFINE Done(m) == /\ status'[m] = "Evaluated" /\ body'[m] = "returned"
                        /\ \A r \in ToSet(requests[m]) : body'[r] \in {"returned", "threw"}
  <1>1. ASSUME Inv, [Next]_vars, imports # <<>>, imports' = Front(imports), answer'.ok
        PROVE  Done(answer'.module)
    <2>1. Next
      <3>1. CASE UNCHANGED vars
        <4>1. imports' = imports
          BY <3>1 DEF vars
        <4>2. Len(Front(imports)) = Len(imports) - 1 /\ Len(imports) \in Nat
          BY <1>1, Innermost, FrontIs
        <4> QED BY <1>1, <4>1, <4>2
      <3> QED BY <1>1, <3>1
    <2>2. PICK v \in Values \cup {Unconvertible} :
            BodyReturns(v) /\ Len(Top.work) = 1 /\ answer'.module = Top.module
      BY <1>1, <2>1, EndsWell
    <2> DEFINE me == Top.work[Len(Top.work)].module
    <2>3. /\ BodyEnds("returned") /\ Searching("eval") /\ Frame.body /\ status' = Completed
          /\ body' = [body EXCEPT ![Me] = "returned"]
      <3>1. /\ BodyEnds("returned") /\ Searching("eval") /\ Frame.body
            /\ body' = [body EXCEPT ![Me] = "returned"]
        BY <2>2 DEF BodyReturns, BodyEnds
      <3>2. ~IndexBroken
        BY <1>1, <3>1, EvalIndexHolds
      <3> QED BY <2>2, <3>1, <3>2, Zenon DEF BodyReturns
    <2>4. /\ Me \in Modules /\ Me = Top.work[Len(Top.work)].module /\ Me \in DOMAIN requests
          /\ Top.work \in Seq(Visits(DOMAIN requests)) /\ Top.work # <<>>
          /\ Bodies(requests, body, Top.dfs, Top.work) /\ Frame = Top.work[Len(Top.work)]
          /\ Graph(requests) /\ DOMAIN requests \subseteq Modules
          /\ Len(Top.work) \in 1 .. Len(Top.work)
      BY <1>1, <2>3, EvalIs
    <2>5. Front(Top.work) = <<>>
      <3>1. Front(Top.work) \in Seq(Visits(DOMAIN requests)) /\ Len(Front(Top.work)) = 0
        BY <2>2, <2>4, FrontIs
      <3> QED BY <3>1, EmptySeq
    <2>6. /\ Me = Top.module /\ Me \in Complete /\ Remaining = <<>>
          /\ \A m \in ToSet(Top.dfs) : m \in Complete \/ m \in ToSet(Remaining)
          /\ \A m \in Complete : Over(body', m)
      BY <1>1, <2>3, <2>5, EndsGive
    <2>7. \A m \in ToSet(Top.dfs) : Over(body', m)
      <3>1. ToSet(Remaining) = {}
        BY <2>6 DEF ToSet
      <3> QED BY <2>6, <3>1
    <2>8. DOMAIN body = Modules
      BY <1>1, TypesGive DEF Inv
    <2>9. status'[Me] = "Evaluated" /\ body'[Me] = "returned"
      BY <2>3, <2>4, <2>6, <2>8 DEF Completed
    <2>10. Starting(requests, body, Frame) /\ Before(requests, body, Top.dfs, Frame) /\ Frame.module = Me
      BY <2>4 DEF Bodies
    <2>11. ~ Frame.next <= Len(requests[Me])
      BY <2>3, <2>10 DEF Starting
    <2>12. ASSUME NEW r \in ToSet(requests[Me])
           PROVE  Over(body', r)
      <3>1. requests[Me] \in Seq(DOMAIN requests)
        BY <2>4 DEF Graph
      <3>2. PICK j \in 1 .. Len(requests[Me]) : r = requests[Me][j]
        BY <3>1, InSet
      <3>3. j < Frame.next
        <4>1. Frame.next \in Nat
          BY <2>4, VisitTypes
        <4> QED BY <2>11, <3>1, <3>2, <4>1
      <3>4. r \in ToSet(Top.dfs) \/ Over(body, r)
        BY <2>10, <3>2, <3>3 DEF Before
      <3>5. r \in Modules
        BY <2>4, <3>1, InSet
      <3>6. Over(body, r) => Over(body', r)
        BY <2>3, <2>4, <2>8, <3>5 DEF Over
      <3> QED BY <2>7, <3>4, <3>6
    <2>13. \A r \in ToSet(requests[Me]) : body'[r] \in {"returned", "threw"}
      BY <2>12 DEF Over
    <2> QED BY <2>2, <2>6, <2>9, <2>13
  <1> HIDE DEF Done
  <1>2. Inv /\ [Next]_vars =>
          [\A m \in Modules :
            (/\ imports # <<>> /\ imports' = Front(imports) /\ answer'.ok /\ answer'.module = m)
            => /\ status'[m] = "Evaluated" /\ body'[m] = "returned"
               /\ \A r \in ToSet(requests[m]) : body'[r] \in {"returned", "threw"}]_vars
    BY <1>1 DEF Done
  <1> QED BY <1>2, InvAlways, PTL DEF Spec, ImportDone

\* Bodies start at most once, and only when what they import has ended or
\* waits for them in turn.
THEOREM OrderImplemented == Spec => ImplementsOrder
  <1>1. Init => Order!Init
    BY Zenon DEF Init, Order!Init
  <1>2. Inv /\ [Next]_vars => [Order!Next]_<<requests, body>>
    <2> SUFFICES ASSUME Inv, [Next]_vars
                 PROVE  [Order!Next]_<<requests, body>>
      OBVIOUS
    <2>1. CASE UNCHANGED <<requests, body>>
      BY <2>1
    <2>2. CASE StartBody
      <3>1. /\ Searching("eval") /\ ~Frame.body /\ ~Ahead /\ body' = [body EXCEPT ![Me] = "running"]
            /\ requests' = requests
        BY <2>2 DEF StartBody, DependenciesDone
      <3>2. /\ Core(requests, dfsIndex, dfsAncestor, Top.dfs, Top.work) /\ Top.work # <<>>
            /\ Bodies(requests, body, Top.dfs, Top.work)
            /\ Me = Top.work[Len(Top.work)].module /\ Frame = Top.work[Len(Top.work)]
            /\ Graph(requests) /\ DOMAIN requests \subseteq Modules /\ Me \in DOMAIN requests
            /\ Len(Top.work) \in 1 .. Len(Top.work)
            /\ Top.work \in Seq(Visits(DOMAIN requests))
        BY <3>1, EvalIs
      <3>3. Fresh(body, Me) /\ Before(requests, body, Top.dfs, Frame)
        BY <3>1, <3>2, MyBody DEF Bodies
      <3>4. ASSUME NEW r \in ToSet(requests[Me])
            PROVE  r \in Order!Ended \/ Order!Reaches(r, Me)
        <4>1. requests[Me] \in Seq(DOMAIN requests)
          BY <3>2 DEF Graph
        <4>2. PICK j \in 1 .. Len(requests[Me]) : r = requests[Me][j]
          BY <4>1, InSet
        <4>3. j < Frame.next
          <5>1. Frame.next \in Nat
            BY <3>2, VisitTypes
          <5> QED BY <3>1, <4>1, <4>2, <5>1 DEF Ahead
        <4>4. r \in ToSet(Top.dfs) \/ Over(body, r)
          BY <3>2, <3>3, <4>2, <4>3 DEF Before
        <4>5. r \in Modules
          BY <3>2, <4>1, InSet
        <4>6. CASE Over(body, r)
          BY <4>5, <4>6, Zenon DEF Over, Order!Ended
        <4>7. CASE r \in ToSet(Top.dfs)
          <5>1. r = Me \/ Goes(requests, r, Me)
            BY <3>2, <4>7, AllLead
          <5>2. Goes(requests, r, Me)
            BY <5>1, GoesOne
          <5> QED BY <5>2, GoesIsReaches
        <4> QED BY <4>4, <4>6, <4>7
      <3>5. \A r \in Order!ToSet(requests[Me]) : r \in Order!Ended \/ Order!Reaches(r, Me)
        BY <3>4 DEF ToSet, Order!ToSet
      <3>6. Order!Start(Me)
        BY <3>1, <3>3, <3>5, Zenon DEF Order!Start, Fresh
      <3> QED BY <3>1, <3>2, <3>6, Zenon DEF Order!Next
    <2>3. ASSUME NEW how \in {"returned", "threw"}, BodyEnds(how), requests' = requests
          PROVE  [Order!Next]_<<requests, body>>
      <3>1. Searching("eval") /\ Frame.body /\ body' = [body EXCEPT ![Me] = how]
        BY <2>3 DEF BodyEnds
      <3>2. body[Me] = "running" /\ Me \in DOMAIN requests
        BY <3>1, MyBody, EvalIs
      <3>3. Order!End(Me)
        BY <3>1, <3>2, Zenon DEF Order!End
      <3> QED BY <2>3, <3>2, <3>3, Zenon DEF Order!Next
    <2>4. ASSUME NEW v \in Values \cup {Unconvertible}, BodyReturns(v)
          PROVE  [Order!Next]_<<requests, body>>
      <3>1. BodyEnds("returned") /\ requests' = requests
        BY <2>4 DEF BodyReturns
      <3> QED BY <2>3, <3>1
    <2>5. CASE BodyThrows
      <3>1. BodyEnds("threw") /\ requests' = requests
        BY <2>5 DEF BodyThrows
      <3> QED BY <2>3, <3>1
    <2>6. \/ UNCHANGED <<requests, body>> \/ StartBody \/ BodyThrows
          \/ \E v \in Values \cup {Unconvertible} : BodyReturns(v)
      <3>1. CASE UNCHANGED vars
        BY <3>1 DEF vars
      <3>2. CASE LinkRequired \/ LinkFinish \/ LinkThrows
        BY <3>2, Zenon DEF LinkRequired, LinkFinish, LinkThrows
      <3>3. CASE EvaluateModule \/ EvalRequired \/ BodyAborts
        BY <3>3, Zenon DEF EvaluateModule, EvalRequired, BodyAborts
      <3>4. CASE \E m \in DOMAIN requests : ImportModule(m)
        BY <3>4, Zenon DEF ImportModule
      <3> QED BY <3>1, <3>2, <3>3, <3>4, Zenon DEF Next, Step
    <2> QED BY <2>1, <2>2, <2>4, <2>5, <2>6
  <1> QED BY <1>1, <1>2, InvAlways, PTL DEF Spec, ImplementsOrder, Order!Spec

=============================================================================
