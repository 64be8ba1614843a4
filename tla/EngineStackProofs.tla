-------------------------- MODULE EngineStackProofs --------------------------
(***************************************************************************)
(* The engine's stacks match the calls in progress, for any functions, any *)
(* limits and any number of operations.  Every stack of the engine grows   *)
(* and shrinks at its head, so each part of the invariant comes with a     *)
(* lemma that says what it means of a sequence <<x>> \o s in terms of s;   *)
(* an action then only chooses x.                                          *)
(***************************************************************************)
EXTENDS EngineStackProperties, TLAPS, FiniteSetTheorems, SequenceTheorems

-----------------------------------------------------------------------------
(* Sequences that grow at the head *)

LEMMA Cons ==
  ASSUME NEW T, NEW x \in T, NEW s \in Seq(T)
  PROVE  /\ <<x>> \o s \in Seq(T) /\ <<x>> \o s # <<>>
         /\ Len(<<x>> \o s) = Len(s) + 1
         /\ DOMAIN s = 1 .. Len(s) /\ DOMAIN (<<x>> \o s) = 1 .. Len(s) + 1
         /\ (<<x>> \o s)[1] = x
         /\ \A i \in 1 .. Len(s) : (<<x>> \o s)[i + 1] = s[i]
         /\ Head(<<x>> \o s) = x /\ Tail(<<x>> \o s) = s
  <1>1. /\ <<x>> \in Seq(T) /\ Len(<<x>>) = 1 /\ <<x>>[1] = x
        /\ Len(s) \in Nat
    OBVIOUS
  <1>2. /\ <<x>> \o s \in Seq(T) /\ Len(<<x>> \o s) = Len(s) + 1
        /\ (<<x>> \o s)[1] = x
        /\ \A i \in 1 .. Len(s) : (<<x>> \o s)[i + 1] = s[i]
    BY <1>1
  <1>3. Tail(<<x>> \o s) = s
    <2>1. Tail(<<x>> \o s) \in Seq(T) /\ Len(Tail(<<x>> \o s)) = Len(s)
      BY <1>1, <1>2
    <2>2. \A i \in 1 .. Len(s) : Tail(<<x>> \o s)[i] = s[i]
      BY <1>1, <1>2
    <2> QED BY <2>1, <2>2, SeqEqual
  <1> QED BY <1>1, <1>2, <1>3

LEMMA Parts ==
  ASSUME NEW T, NEW s \in Seq(T), s # <<>>
  PROVE  /\ Head(s) \in T /\ Tail(s) \in Seq(T) /\ s = <<Head(s)>> \o Tail(s)
         /\ Len(Tail(s)) = Len(s) - 1 /\ Len(s) \in Nat \ {0}
  <1>1. /\ Len(s) \in Nat \ {0} /\ Head(s) \in T /\ Tail(s) \in Seq(T)
        /\ Len(Tail(s)) = Len(s) - 1 /\ Head(s) = s[1]
        /\ \A i \in 1 .. Len(s) - 1 : Tail(s)[i] = s[i + 1]
    OBVIOUS
  <1> DEFINE t == <<Head(s)>> \o Tail(s)
  <1>2. /\ t \in Seq(T) /\ Len(t) = Len(Tail(s)) + 1 /\ t[1] = Head(s)
        /\ \A i \in 1 .. Len(Tail(s)) : t[i + 1] = Tail(s)[i]
    BY <1>1, Cons
  <1>3. \A i \in 1 .. Len(s) : t[i] = s[i]
    <2> SUFFICES ASSUME NEW i \in 1 .. Len(s) PROVE t[i] = s[i]
      OBVIOUS
    <2>1. CASE i = 1
      BY <2>1, <1>1, <1>2
    <2>2. CASE i # 1
      <3>1. i - 1 \in 1 .. Len(s) - 1 /\ (i - 1) + 1 = i
        BY <2>2, <1>1
      <3> HIDE DEF t
      <3>2. t[(i - 1) + 1] = Tail(s)[i - 1] /\ Tail(s)[i - 1] = s[(i - 1) + 1]
        BY <3>1, <1>1, <1>2
      <3> QED BY <3>1, <3>2
    <2> QED BY <2>1, <2>2
  <1>4. t = s
    <2> HIDE DEF t
    <2> QED BY <1>1, <1>2, <1>3, SeqEqual
  <1> QED BY <1>1, <1>4

-----------------------------------------------------------------------------
(* Positions that are one further down *)

LEMMA Positions ==
  ASSUME NEW n \in Nat
  PROVE  \A k : k \in 1 .. n + 1 <=> k = 1 \/ \E i \in 1 .. n : k = i + 1
  <1>1. ASSUME NEW k \in 1 .. n + 1 PROVE k = 1 \/ \E i \in 1 .. n : k = i + 1
    <2>1. k = 1 \/ (k - 1 \in 1 .. n /\ k = (k - 1) + 1)
      OBVIOUS
    <2> QED BY <2>1
  <1>2. ASSUME NEW i \in 1 .. n PROVE i + 1 \in 1 .. n + 1
    OBVIOUS
  <1>3. 1 \in 1 .. n + 1
    OBVIOUS
  <1> QED BY <1>1, <1>2, <1>3, Zenon

Shift(S) == {i + 1 : i \in S}

\* Shifting a set of positions keeps its size.
LEMMA ShiftCardinality ==
  ASSUME NEW S, S \subseteq Nat, IsFiniteSet(S)
  PROVE  IsFiniteSet(Shift(S)) /\ Cardinality(Shift(S)) = Cardinality(S)
  <1> DEFINE f == [i \in S |-> i + 1]
  <1>1. f \in Bijection(S, Shift(S))
    BY DEF Bijection, Injection, Surjection, IsInjective, Shift
  <1>2. ExistsBijection(S, Shift(S))
    BY <1>1 DEF ExistsBijection
  <1> QED BY <1>2, FS_Bijection

\* The ranks of positions that are one further down, below an unmarked or a
\* marked head.
LEMMA ShiftRanks ==
  ASSUME NEW n \in Nat, NEW S \in SUBSET (1 .. n)
  PROVE  /\ IsFiniteSet(S) /\ Cardinality(S) \in Nat
         /\ Cardinality(Shift(S)) = Cardinality(S)
         /\ Cardinality({1} \cup Shift(S)) = Cardinality(S) + 1
         /\ \A i \in S : /\ Rank(S, i) \in 1 .. Cardinality(S)
                         /\ Rank(Shift(S), i + 1) = Rank(S, i)
                         /\ Rank({1} \cup Shift(S), i + 1) = Rank(S, i) + 1
         /\ Rank({1} \cup Shift(S), 1) = 1
  <1> USE DEF Rank
  <1>1. \A U \in SUBSET (1 .. n) :
          /\ IsFiniteSet(U) /\ Cardinality(U) \in Nat
          /\ Cardinality(Shift(U)) = Cardinality(U)
          /\ Cardinality({1} \cup Shift(U)) = Cardinality(U) + 1
    <2> SUFFICES ASSUME NEW U \in SUBSET (1 .. n)
                 PROVE  /\ IsFiniteSet(U) /\ Cardinality(U) \in Nat
                        /\ Cardinality(Shift(U)) = Cardinality(U)
                        /\ Cardinality({1} \cup Shift(U)) = Cardinality(U) + 1
      OBVIOUS
    <2>1. IsFiniteSet(U) /\ Cardinality(U) \in Nat
      <3>1. IsFiniteSet(1 .. n)
        BY FS_Interval
      <3>2. IsFiniteSet(U)
        BY <3>1, FS_Subset, Zenon
      <3> QED BY <3>2, FS_CardinalityType
    <2>2. IsFiniteSet(Shift(U)) /\ Cardinality(Shift(U)) = Cardinality(U)
      <3>1. U \subseteq Nat
        OBVIOUS
      <3> QED BY <2>1, <3>1, ShiftCardinality, Zenon
    <2>3. 1 \notin Shift(U)
      BY DEF Shift
    <2>4. Cardinality(Shift(U) \cup {1}) = Cardinality(U) + 1
      BY <2>2, <2>3, FS_AddElement
    <2>5. Shift(U) \cup {1} = {1} \cup Shift(U)
      OBVIOUS
    <2> QED BY <2>1, <2>2, <2>4, <2>5
  <1>2. ASSUME NEW i \in S
        PROVE  /\ Cardinality({j \in S : j <= i}) \in 1 .. Cardinality(S)
               /\ Cardinality({j \in Shift(S) : j <= i + 1}) = Cardinality({j \in S : j <= i})
               /\ Cardinality({j \in {1} \cup Shift(S) : j <= i + 1})
                    = Cardinality({j \in S : j <= i}) + 1
    <2> DEFINE U == {j \in S : j <= i}
    <2>1. U \in SUBSET (1 .. n) /\ U \in SUBSET S /\ i \in U
      <3>1. i \in Nat /\ i <= i
        OBVIOUS
      <3> QED BY <3>1
    <2>2. {j \in Shift(S) : j <= i + 1} = Shift(U)
      BY DEF Shift
    <2>3. {j \in {1} \cup Shift(S) : j <= i + 1} = {1} \cup Shift(U)
      <3>1. 1 <= i + 1
        OBVIOUS
      <3> HIDE DEF U
      <3> QED BY <2>2, <3>1
    <2>4. Cardinality(U) <= Cardinality(S) /\ Cardinality(U) \in Nat /\ Cardinality(U) # 0
      <3>1. IsFiniteSet(S) /\ IsFiniteSet(U) /\ Cardinality(U) \in Nat
        BY <2>1, <1>1
      <3> HIDE DEF U
      <3>2. Cardinality(U) <= Cardinality(S)
        BY <2>1, <3>1, FS_Subset, Zenon
      <3>3. Cardinality(U) # 0
        BY <2>1, <3>1, FS_EmptySet
      <3> QED BY <3>1, <3>2, <3>3
    <2> HIDE DEF U
    <2>5. /\ Cardinality(U) \in 1 .. Cardinality(S)
          /\ Cardinality(Shift(U)) = Cardinality(U)
          /\ Cardinality({1} \cup Shift(U)) = Cardinality(U) + 1
      <3>1. Cardinality(S) \in Nat
        BY <1>1
      <3> QED BY <2>1, <2>4, <3>1, <1>1
    <2>6. /\ Cardinality(U) \in 1 .. Cardinality(S)
          /\ Cardinality({j \in Shift(S) : j <= i + 1}) = Cardinality(U)
          /\ Cardinality({j \in {1} \cup Shift(S) : j <= i + 1}) = Cardinality(U) + 1
      BY <2>5, <2>2, <2>3, Zenon
    <2> QED BY <2>6 DEF U
  <1>3. Cardinality({j \in {1} \cup Shift(S) : j <= 1}) = 1
    <2>1. {j \in {1} \cup Shift(S) : j <= 1} = {1}
      BY DEF Shift
    <2> QED BY <2>1, FS_Singleton
  <1> QED BY <1>1, <1>2, <1>3

-----------------------------------------------------------------------------
(* A list of the functions of some frames, below one more frame *)

LEMMA ListsBelow ==
  ASSUME NEW T, NEW list \in Seq(T), NEW fs \in Seq(Frames), NEW fr \in Frames,
         NEW S \in SUBSET (1 .. Len(fs))
  PROVE  Lists(list, <<fr>> \o fs, Shift(S)) <=> Lists(list, fs, S)
  <1> DEFINE gs == <<fr>> \o fs
  <1>1. \A i \in S : gs[i + 1] = fs[i]
    BY Cons
  <1>2. /\ Cardinality(Shift(S)) = Cardinality(S)
        /\ \A i \in S : Rank(Shift(S), i + 1) = Rank(S, i)
    <2>1. Len(fs) \in Nat
      OBVIOUS
    <2> QED BY <2>1, ShiftRanks, Zenon
  <1> HIDE DEF gs
  <1>3. (\A k \in Shift(S) : Rank(Shift(S), k) <= Len(list) => list[Rank(Shift(S), k)] = gs[k].fn)
          <=> \A i \in S : Rank(Shift(S), i + 1) <= Len(list)
                             => list[Rank(Shift(S), i + 1)] = gs[i + 1].fn
    BY Zenon DEF Shift
  <1>4. (\A k \in Shift(S) : Rank(Shift(S), k) <= Len(list) => list[Rank(Shift(S), k)] = gs[k].fn)
          <=> \A i \in S : Rank(S, i) <= Len(list) => list[Rank(S, i)] = fs[i].fn
    BY <1>1, <1>2, <1>3
  <1>5. Lists(list, gs, Shift(S)) <=> Lists(list, fs, S)
    BY <1>2, <1>4 DEF Lists
  <1> QED BY <1>5 DEF gs

LEMMA ListsWith ==
  ASSUME NEW T, NEW x \in T, NEW list \in Seq(T), NEW fs \in Seq(Frames), NEW fr \in Frames,
         NEW S \in SUBSET (1 .. Len(fs))
  PROVE  Lists(<<x>> \o list, <<fr>> \o fs, {1} \cup Shift(S)) <=> x = fr.fn /\ Lists(list, fs, S)
  <1> DEFINE gs == <<fr>> \o fs
             more == <<x>> \o list
             M == {1} \cup Shift(S)
             Right(k) == Rank(M, k) <= Len(more) => more[Rank(M, k)] = gs[k].fn
  <1>1. gs[1] = fr /\ \A i \in S : gs[i + 1] = fs[i]
    BY Cons
  <1>2. /\ more[1] = x /\ Len(more) = Len(list) + 1 /\ Len(list) \in Nat
        /\ \A i \in 1 .. Len(list) : more[i + 1] = list[i]
    BY Cons
  <1>3. /\ Cardinality(M) = Cardinality(S) + 1 /\ Cardinality(S) \in Nat
        /\ Rank(M, 1) = 1
        /\ \A i \in S : Rank(M, i + 1) = Rank(S, i) + 1 /\ Rank(S, i) \in 1 .. Cardinality(S)
    <2>1. Len(fs) \in Nat
      OBVIOUS
    <2> QED BY <2>1, ShiftRanks, Zenon
  <1>4. Lists(more, gs, M)
          <=> Len(more) <= Cardinality(M) /\ Right(1) /\ \A i \in S : Right(i + 1)
    <2>1. \A k : k \in M <=> k = 1 \/ \E i \in S : k = i + 1
      BY DEF Shift
    <2> HIDE DEF gs, more, M
    <2>2. (\A k \in M : Right(k)) <=> Right(1) /\ \A i \in S : Right(i + 1)
      <3> HIDE DEF Right
      <3> QED BY <2>1, Zenon
    <2> QED BY <2>2 DEF Lists
  <1> HIDE DEF gs, more, M
  <1>5. Right(1) <=> x = fr.fn
    BY <1>1, <1>2, <1>3
  <1>6. ASSUME NEW i \in S
        PROVE  Right(i + 1) <=> (Rank(S, i) <= Len(list) => list[Rank(S, i)] = fs[i].fn)
    <2>1. Rank(M, i + 1) = Rank(S, i) + 1 /\ Rank(S, i) \in Nat \ {0}
      BY <1>3
    <2>2. Rank(S, i) <= Len(list) => more[Rank(S, i) + 1] = list[Rank(S, i)]
      BY <1>2, <2>1
    <2> QED BY <1>1, <1>2, <2>1, <2>2
  <1> HIDE DEF Right
  <1>7. (\A i \in S : Right(i + 1))
          <=> \A i \in S : Rank(S, i) <= Len(list) => list[Rank(S, i)] = fs[i].fn
    BY <1>6
  <1>8. Len(more) <= Cardinality(M) <=> Len(list) <= Cardinality(S)
    BY <1>2, <1>3
  <1>9. Lists(more, gs, M) <=> x = fr.fn /\ Lists(list, fs, S)
    BY <1>4, <1>5, <1>7, <1>8, Zenon DEF Lists
  <1> QED BY <1>9 DEF gs, more, M

\* Which frames pushed an element or run in a context, below one more frame.
LEMMA Marks ==
  ASSUME NEW fs \in Seq(Frames), NEW fr \in Frames
  PROVE  /\ Pushing(fs) \in SUBSET (1 .. Len(fs)) /\ Running(fs) \in SUBSET (1 .. Len(fs))
         /\ Pushing(<<fr>> \o fs) = IF fr.kind \in {"call", "construct"}
                                    THEN {1} \cup Shift(Pushing(fs)) ELSE Shift(Pushing(fs))
         /\ Running(<<fr>> \o fs) = IF RunsScript(fr)
                                    THEN {1} \cup Shift(Running(fs)) ELSE Shift(Running(fs))
  <1> DEFINE gs == <<fr>> \o fs
  <1>1. /\ DOMAIN fs = 1 .. Len(fs) /\ DOMAIN gs = 1 .. Len(fs) + 1 /\ Len(fs) \in Nat
        /\ gs[1] = fr /\ \A i \in 1 .. Len(fs) : gs[i + 1] = fs[i]
    BY Cons
  <1> HIDE DEF gs
  <1>2. \A k : k \in 1 .. Len(fs) + 1 <=> k = 1 \/ \E i \in 1 .. Len(fs) : k = i + 1
    BY <1>1, Positions
  <1>3. Pushing(fs) \in SUBSET (1 .. Len(fs)) /\ Running(fs) \in SUBSET (1 .. Len(fs))
    BY <1>1 DEF Pushing, Running
  <1>4. \A k : k \in Pushing(gs) <=> \/ k = 1 /\ fr.kind \in {"call", "construct"}
                                     \/ k \in Shift(Pushing(fs))
    BY <1>1, <1>2 DEF Pushing, Shift
  <1>5. \A k : k \in Running(gs) <=> \/ k = 1 /\ RunsScript(fr)
                                     \/ k \in Shift(Running(fs))
    <2> HIDE DEF RunsScript
    <2> QED BY <1>1, <1>2 DEF Running, Shift
  <1>6. Pushing(gs) = IF fr.kind \in {"call", "construct"}
                      THEN {1} \cup Shift(Pushing(fs)) ELSE Shift(Pushing(fs))
    BY <1>4
  <1>7. Running(gs) = IF RunsScript(fr)
                      THEN {1} \cup Shift(Running(fs)) ELSE Shift(Running(fs))
    <2> HIDE DEF RunsScript
    <2> QED BY <1>5
  <1> QED BY <1>3, <1>6, <1>7, Zenon DEF gs

-----------------------------------------------------------------------------
(* How often a function is on the call stack *)

LEMMA OccurrencesOfCons ==
  ASSUME NEW s \in Seq(Functions), NEW x \in Functions, NEW f \in Functions
  PROVE  /\ Occurrences(s, f) \in Nat
         /\ Occurrences(<<x>> \o s, f) = Occurrences(s, f) + (IF x = f THEN 1 ELSE 0)
  <1> DEFINE t == <<x>> \o s
             At(u) == {i \in DOMAIN u : u[i] = f}
  <1>1. /\ DOMAIN s = 1 .. Len(s) /\ DOMAIN t = 1 .. Len(s) + 1 /\ Len(s) \in Nat
        /\ t[1] = x /\ \A i \in 1 .. Len(s) : t[i + 1] = s[i]
    BY Cons
  <1> HIDE DEF t
  <1>2. \A k : k \in 1 .. Len(s) + 1 <=> k = 1 \/ \E i \in 1 .. Len(s) : k = i + 1
    BY <1>1, Positions
  <1>3. At(s) \in SUBSET (1 .. Len(s))
    BY <1>1
  <1>4. At(t) = IF x = f THEN {1} \cup Shift(At(s)) ELSE Shift(At(s))
    <2>1. \A k : k \in At(t) <=> \/ k = 1 /\ x = f
                                 \/ k \in Shift(At(s))
      BY <1>1, <1>2 DEF Shift
    <2> HIDE DEF At
    <2> QED BY <2>1
  <1> HIDE DEF At
  <1>5. /\ Cardinality(At(s)) \in Nat
        /\ Cardinality(Shift(At(s))) = Cardinality(At(s))
        /\ Cardinality({1} \cup Shift(At(s))) = Cardinality(At(s)) + 1
    BY <1>1, <1>3, ShiftRanks, Zenon
  <1>6. Cardinality(At(t)) = Cardinality(At(s)) + (IF x = f THEN 1 ELSE 0)
    BY <1>4, <1>5
  <1> QED BY <1>5, <1>6 DEF Occurrences, At, t

LEMMA OccurrencesOfNothing == \A f : Occurrences(<<>>, f) = 0
  <1> SUFFICES ASSUME NEW f PROVE Occurrences(<<>>, f) = 0
    OBVIOUS
  <1>1. {i \in DOMAIN <<>> : <<>>[i] = f} = {}
    OBVIOUS
  <1> QED BY <1>1, FS_EmptySet DEF Occurrences

-----------------------------------------------------------------------------
(* The strict-mode count while each of the frames is on top: a script adds to *)
(* what it finds and takes it away; a function body replaces what it finds    *)
(* and keeps it, to put it back.                                              *)

FrameLevel(fr, here, below) ==
  CASE fr.kind \in Entries -> here = below + Count(fr.strict)
    [] fr.kind \in Calls /\ fr.fn \in ScriptFunctions -> here = Count(fr.strict) /\ fr.saved = below
    [] OTHER -> here = below

Leveled(fs, n) ==
  \E level \in Seq(Nat) :
    /\ Len(level) = Len(fs) + 1 /\ level[1] = n /\ level[Len(fs) + 1] = 0
    /\ \A i \in 1 .. Len(fs) : FrameLevel(fs[i], level[i], level[i + 1])

LEMMA LeveledEmpty ==
  ASSUME NEW n \in Nat
  PROVE  Leveled(<<>>, n) <=> n = 0
  <1>1. Len(<<>>) = 0
    OBVIOUS
  <1>2. ASSUME n = 0 PROVE Leveled(<<>>, n)
    <2>1. <<0>> \in Seq(Nat) /\ Len(<<0>>) = 1 /\ <<0>>[1] = 0
      OBVIOUS
    <2>2. 1 .. Len(<<>>) = {} /\ Len(<<>>) + 1 = 1
      BY <1>1
    <2> DEFINE level == <<0>>
    <2>3. level \in Seq(Nat) /\ Len(level) = 1 /\ level[1] = 0
      BY <2>1
    <2> HIDE DEF level
    <2>4. /\ Len(level) = Len(<<>>) + 1 /\ level[1] = n /\ level[Len(<<>>) + 1] = 0
          /\ \A i \in 1 .. Len(<<>>) : FrameLevel(<<>>[i], level[i], level[i + 1])
      BY <1>2, <2>2, <2>3, Zenon
    <2> QED BY <2>3, <2>4, Zenon DEF Leveled
  <1>3. ASSUME Leveled(<<>>, n) PROVE n = 0
    BY <1>1, <1>3 DEF Leveled
  <1> QED BY <1>2, <1>3

LEMMA LeveledCons ==
  ASSUME NEW fs \in Seq(Frames), NEW fr \in Frames, NEW n \in Nat
  PROVE  Leveled(<<fr>> \o fs, n) <=> \E m \in Nat : Leveled(fs, m) /\ FrameLevel(fr, n, m)
  <1> DEFINE gs == <<fr>> \o fs
  <1>1. /\ Len(gs) = Len(fs) + 1 /\ Len(fs) \in Nat
        /\ gs[1] = fr /\ \A i \in 1 .. Len(fs) : gs[i + 1] = fs[i]
    BY Cons
  <1> HIDE DEF gs
  <1>2. ASSUME NEW m \in Nat, Leveled(fs, m), FrameLevel(fr, n, m)
        PROVE  Leveled(gs, n)
    <2>1. PICK level \in Seq(Nat) :
            /\ Len(level) = Len(fs) + 1 /\ level[1] = m /\ level[Len(fs) + 1] = 0
            /\ \A i \in 1 .. Len(fs) : FrameLevel(fs[i], level[i], level[i + 1])
      BY <1>2 DEF Leveled
    <2> DEFINE more == <<n>> \o level
    <2>2. /\ more \in Seq(Nat) /\ Len(more) = Len(level) + 1 /\ more[1] = n
          /\ \A i \in 1 .. Len(level) : more[i + 1] = level[i]
      BY Cons
    <2> HIDE DEF more, FrameLevel
    <2>3. Len(more) = Len(gs) + 1 /\ more[1] = n /\ more[Len(gs) + 1] = 0
      BY <1>1, <2>1, <2>2
    <2>4. ASSUME NEW k \in 1 .. Len(gs) PROVE FrameLevel(gs[k], more[k], more[k + 1])
      <3>1. CASE k = 1
        BY <1>1, <1>2, <2>1, <2>2, <3>1
      <3>2. CASE k # 1
        <4>1. PICK i \in 1 .. Len(fs) : k = i + 1
          BY <1>1, <3>2
        <4>2. i \in 1 .. Len(level) /\ i + 1 \in 1 .. Len(level)
          BY <1>1, <2>1
        <4>3. gs[i + 1] = fs[i] /\ more[i + 1] = level[i] /\ more[(i + 1) + 1] = level[i + 1]
          BY <1>1, <2>2, <4>2
        <4> QED BY <4>1, <4>3, <2>1
      <3> QED BY <3>1, <3>2
    <2> QED BY <2>2, <2>3, <2>4 DEF Leveled
  <1>3. ASSUME Leveled(gs, n)
        PROVE  \E m \in Nat : Leveled(fs, m) /\ FrameLevel(fr, n, m)
    <2>1. PICK level \in Seq(Nat) :
            /\ Len(level) = Len(gs) + 1 /\ level[1] = n /\ level[Len(gs) + 1] = 0
            /\ \A i \in 1 .. Len(gs) : FrameLevel(gs[i], level[i], level[i + 1])
      BY <1>3 DEF Leveled
    <2> DEFINE less == Tail(level)
    <2>2. /\ less \in Seq(Nat) /\ Len(less) = Len(fs) + 1
          /\ \A i \in 1 .. Len(fs) + 1 : less[i] = level[i + 1]
      BY <1>1, <2>1
    <2> HIDE DEF less, FrameLevel
    <2>3. less[1] = level[2] /\ less[1] \in Nat /\ less[Len(fs) + 1] = 0
      <3>1. 1 \in 1 .. Len(fs) + 1 /\ Len(fs) + 1 \in 1 .. Len(fs) + 1
        BY <1>1
      <3>2. less[1] = level[1 + 1] /\ less[Len(fs) + 1] = level[(Len(fs) + 1) + 1]
        BY <2>2, <3>1, Zenon
      <3>3. less[1] \in Nat
        BY <2>2, <3>1
      <3> QED BY <1>1, <2>1, <3>2, <3>3
    <2>4. \A i \in 1 .. Len(fs) : FrameLevel(fs[i], less[i], less[i + 1])
      <3> SUFFICES ASSUME NEW i \in 1 .. Len(fs)
                   PROVE  FrameLevel(fs[i], less[i], less[i + 1])
        OBVIOUS
      <3>1. i + 1 \in 1 .. Len(gs)
        BY <1>1
      <3>2. i \in 1 .. Len(fs) + 1 /\ i + 1 \in 1 .. Len(fs) + 1
        BY <1>1
      <3>3. less[i] = level[i + 1] /\ less[i + 1] = level[(i + 1) + 1] /\ gs[i + 1] = fs[i]
        BY <1>1, <2>2, <3>2, Zenon
      <3> QED BY <2>1, <3>1, <3>3
    <2>5. FrameLevel(fr, n, less[1])
      BY <1>1, <2>1, <2>3
    <2>6. Leveled(fs, less[1])
      BY <2>2, <2>3, <2>4 DEF Leveled
    <2> QED BY <2>3, <2>5, <2>6
  <1>4. Leveled(gs, n) <=> \E m \in Nat : Leveled(fs, m) /\ FrameLevel(fr, n, m)
    BY <1>2, <1>3, Zenon
  <1> QED BY <1>4 DEF gs
-----------------------------------------------------------------------------
(* The inductive invariant, in parts: each part is about the frames and one of *)
(* the engine's stacks.                                                        *)

\* An entry that has not called its function yet has one to call.
GoodFrames == {fr \in Frames : fr.kind = "enter" => fr.fn \in Functions}
ContextOwners == ScriptFunctions \cup {NoFunction}

CallPart(fs, cs, st) ==
  /\ cs \in Seq(Functions) /\ st \in [Functions -> Nat \cup {-1}]
  /\ Lists(cs, fs, Pushing(fs))
  /\ TracksRecursion => \A f \in Functions : st[f] = Occurrences(cs, f) - 1

ContextPart(fs, cx) ==
  /\ cx \in Seq(ContextOwners)
  /\ Lists(cx, fs, Running(fs)) /\ Len(cx) = Cardinality(Running(fs))

LevelPart(fs, n) == n \in Nat /\ Leveled(fs, n)

IInv ==
  /\ frames \in Seq(GoodFrames)
  /\ CallPart(frames, callStack, statistics)
  /\ ContextPart(frames, contexts)
  /\ LevelPart(frames, strictCount)
  /\ thrown \in {"none", "js", "clr"}
  /\ active \in BOOLEAN /\ statements \in Nat /\ ops \in 0 .. MaxOps

LEMMA GoodIsFrame ==
  ASSUME NEW fs \in Seq(GoodFrames)
  PROVE  fs \in Seq(Frames)
  <1>1. GoodFrames \subseteq Frames
    BY DEF GoodFrames
  <1> HIDE DEF GoodFrames
  <1> QED BY <1>1

LEMMA CallUnmarked ==
  ASSUME NEW fs \in Seq(Frames), NEW fr \in Frames, fr.kind \notin {"call", "construct"},
         NEW cs, NEW st
  PROVE  CallPart(<<fr>> \o fs, cs, st) <=> CallPart(fs, cs, st)
  <1>1. /\ Pushing(fs) \in SUBSET (1 .. Len(fs))
        /\ Pushing(<<fr>> \o fs) = Shift(Pushing(fs))
    BY Marks
  <1>2. cs \in Seq(Functions)
          => (Lists(cs, <<fr>> \o fs, Shift(Pushing(fs))) <=> Lists(cs, fs, Pushing(fs)))
    BY <1>1, ListsBelow, Zenon
  <1> QED BY <1>1, <1>2, Zenon DEF CallPart

LEMMA CallPushed ==
  ASSUME NEW fs \in Seq(Frames), NEW fr \in Frames, fr.kind \in {"call", "construct"},
         fr.fn \in Functions, NEW cs, NEW st, CallPart(fs, cs, st)
  PROVE  CallPart(<<fr>> \o fs, <<fr.fn>> \o cs,
                  IF TracksRecursion THEN [st EXCEPT ![fr.fn] = @ + 1] ELSE st)
  <1> DEFINE f == fr.fn
             more == <<f>> \o cs
             st2 == IF TracksRecursion THEN [st EXCEPT ![f] = @ + 1] ELSE st
  <1>1. /\ Pushing(fs) \in SUBSET (1 .. Len(fs))
        /\ Pushing(<<fr>> \o fs) = {1} \cup Shift(Pushing(fs))
    BY Marks
  <1>2. /\ cs \in Seq(Functions) /\ st \in [Functions -> Nat \cup {-1}]
        /\ Lists(cs, fs, Pushing(fs))
        /\ TracksRecursion => \A g \in Functions : st[g] = Occurrences(cs, g) - 1
    BY Zenon DEF CallPart
  <1>3. Lists(more, <<fr>> \o fs, Pushing(<<fr>> \o fs))
    <2>1. Lists(<<f>> \o cs, <<fr>> \o fs, {1} \cup Shift(Pushing(fs)))
      BY <1>1, <1>2, ListsWith, Zenon
    <2> QED BY <1>1, <2>1
  <1>4. more \in Seq(Functions)
    BY <1>2, Cons
  <1>5. \A g \in Functions : /\ Occurrences(cs, g) \in Nat
                             /\ Occurrences(more, g) = Occurrences(cs, g) + (IF f = g THEN 1 ELSE 0)
    BY <1>2, OccurrencesOfCons, Zenon
  <1> HIDE DEF more
  <1>6. st2 \in [Functions -> Nat \cup {-1}]
    BY <1>2
  <1>7. TracksRecursion => \A g \in Functions : st2[g] = Occurrences(more, g) - 1
    <2> SUFFICES ASSUME TracksRecursion, NEW g \in Functions
                 PROVE  st2[g] = Occurrences(more, g) - 1
      BY Zenon
    <2>1. st2[g] = IF g = f THEN st[g] + 1 ELSE st[g]
      BY <1>2
    <2> HIDE DEF st2, f
    <2> QED BY <1>2, <1>5, <2>1
  <1> QED BY <1>3, <1>4, <1>6, <1>7, Zenon DEF CallPart, more

LEMMA CallPopped ==
  ASSUME NEW fs \in Seq(Frames), NEW fr \in Frames, fr.kind \in {"call", "construct"},
         NEW cs, NEW st, CallPart(<<fr>> \o fs, cs, st), cs # <<>>
  PROVE  CallPart(fs, Tail(cs), IF TracksRecursion THEN [st EXCEPT ![Head(cs)] = @ - 1] ELSE st)
  <1> DEFINE f == Head(cs)
             rest == Tail(cs)
             st2 == IF TracksRecursion THEN [st EXCEPT ![f] = @ - 1] ELSE st
  <1>1. /\ Pushing(fs) \in SUBSET (1 .. Len(fs))
        /\ Pushing(<<fr>> \o fs) = {1} \cup Shift(Pushing(fs))
    BY Marks
  <1>2. /\ cs \in Seq(Functions) /\ st \in [Functions -> Nat \cup {-1}]
        /\ Lists(cs, <<fr>> \o fs, Pushing(<<fr>> \o fs))
        /\ TracksRecursion => \A g \in Functions : st[g] = Occurrences(cs, g) - 1
    BY Zenon DEF CallPart
  <1>3. f \in Functions /\ rest \in Seq(Functions) /\ cs = <<f>> \o rest
    BY <1>2, Parts, Zenon
  <1>4. \A g \in Functions : /\ Occurrences(rest, g) \in Nat
                             /\ Occurrences(cs, g) = Occurrences(rest, g) + (IF f = g THEN 1 ELSE 0)
    <2> HIDE DEF f, rest
    <2>1. \A g \in Functions :
            /\ Occurrences(rest, g) \in Nat
            /\ Occurrences(<<f>> \o rest, g) = Occurrences(rest, g) + (IF f = g THEN 1 ELSE 0)
      BY <1>3, OccurrencesOfCons, Zenon
    <2> QED BY <1>3, <2>1
  <1> HIDE DEF f, rest
  <1>5. Lists(rest, fs, Pushing(fs))
    <2>1. Lists(<<f>> \o rest, <<fr>> \o fs, {1} \cup Shift(Pushing(fs)))
      BY <1>1, <1>2, <1>3
    <2> QED BY <1>1, <1>3, <2>1, ListsWith, Zenon
  <1>6. TracksRecursion => \A g \in Functions : st2[g] = Occurrences(rest, g) - 1
    <2> SUFFICES ASSUME TracksRecursion, NEW g \in Functions
                 PROVE  st2[g] = Occurrences(rest, g) - 1
      BY Zenon
    <2>1. st2[g] = IF g = f THEN st[g] - 1 ELSE st[g]
      BY <1>2
    <2>2. st[g] = Occurrences(cs, g) - 1
      BY <1>2, Zenon
    <2>3. /\ Occurrences(rest, g) \in Nat
          /\ Occurrences(cs, g) = Occurrences(rest, g) + (IF f = g THEN 1 ELSE 0)
      BY <1>4, Zenon
    <2> HIDE DEF st2
    <2>4. CASE f = g
      <3>1. st2[g] = st[g] - 1 /\ Occurrences(cs, g) = Occurrences(rest, g) + 1
        BY <2>1, <2>3, <2>4
      <3> QED BY <2>2, <2>3, <3>1
    <2>5. CASE f # g
      <3>1. st2[g] = st[g] /\ Occurrences(cs, g) = Occurrences(rest, g) + 0
        BY <2>1, <2>3, <2>5
      <3> QED BY <2>2, <2>3, <3>1
    <2> QED BY <2>4, <2>5
  <1>7. st2 \in [Functions -> Nat \cup {-1}]
    <2>1. CASE ~TracksRecursion
      BY <1>2, <2>1
    <2>2. CASE TracksRecursion
      <3>1. st[f] - 1 \in Nat \cup {-1}
        <4>1. st[f] = Occurrences(cs, f) - 1
          BY <1>2, <1>3, <2>2, Zenon
        <4>2. Occurrences(rest, f) \in Nat /\ Occurrences(cs, f) = Occurrences(rest, f) + 1
          BY <1>3, <1>4
        <4> QED BY <4>1, <4>2
      <3> QED BY <1>2, <1>3, <2>2, <3>1
    <2> QED BY <2>1, <2>2
  <1> QED BY <1>3, <1>5, <1>6, <1>7, Zenon DEF CallPart, f, rest

LEMMA CallCleared ==
  ASSUME NEW fs \in Seq(Frames), NEW st \in [Functions -> Nat \cup {-1}],
         TracksRecursion => \A f \in Functions : st[f] = -1
  PROVE  CallPart(fs, <<>>, st)
  <1>1. <<>> \in Seq(Functions)
    OBVIOUS
  <1>2. TracksRecursion => \A f \in Functions : st[f] = Occurrences(<<>>, f) - 1
    BY OccurrencesOfNothing
  <1>3. Pushing(fs) \in SUBSET (1 .. Len(fs)) /\ Len(fs) \in Nat
    BY DEF Pushing
  <1>4. /\ Cardinality(Pushing(fs)) \in Nat
        /\ \A i \in Pushing(fs) : Rank(Pushing(fs), i) \in 1 .. Cardinality(Pushing(fs))
    BY <1>3, ShiftRanks, Zenon
  <1>5. Lists(<<>>, fs, Pushing(fs))
    BY <1>4 DEF Lists
  <1> QED BY <1>1, <1>2, <1>5 DEF CallPart

LEMMA ContextUnmarked ==
  ASSUME NEW fs \in Seq(Frames), NEW fr \in Frames, ~RunsScript(fr), NEW cx
  PROVE  ContextPart(<<fr>> \o fs, cx) <=> ContextPart(fs, cx)
  <1>1. /\ Running(fs) \in SUBSET (1 .. Len(fs))
        /\ Running(<<fr>> \o fs) = Shift(Running(fs))
    BY Marks, Zenon
  <1>2. cx \in Seq(ContextOwners)
          => (Lists(cx, <<fr>> \o fs, Shift(Running(fs))) <=> Lists(cx, fs, Running(fs)))
    BY <1>1, ListsBelow, Zenon
  <1>3. Len(fs) \in Nat
    OBVIOUS
  <1>4. Cardinality(Shift(Running(fs))) = Cardinality(Running(fs))
    BY <1>1, <1>3, ShiftRanks, Zenon
  <1> QED BY <1>1, <1>2, <1>4, Zenon DEF ContextPart

LEMMA ContextMarked ==
  ASSUME NEW fs \in Seq(Frames), NEW fr \in Frames, RunsScript(fr), NEW cx
  PROVE  /\ ContextPart(fs, cx) /\ fr.fn \in ContextOwners
              => ContextPart(<<fr>> \o fs, <<fr.fn>> \o cx)
         /\ ContextPart(<<fr>> \o fs, cx)
              => /\ cx # <<>> /\ ContextPart(fs, Tail(cx))
                 /\ fr.fn \in ContextOwners /\ cx = <<fr.fn>> \o Tail(cx)
  <1> DEFINE S == Running(fs)
             M == {1} \cup Shift(S)
  <1>1. S \in SUBSET (1 .. Len(fs)) /\ Running(<<fr>> \o fs) = M
    BY Marks, Zenon
  <1>2. Len(fs) \in Nat
    OBVIOUS
  <1>3. Cardinality(M) = Cardinality(S) + 1 /\ Cardinality(S) \in Nat
    BY <1>1, <1>2, ShiftRanks, Zenon
  <1>4. ASSUME ContextPart(fs, cx), fr.fn \in ContextOwners
        PROVE  ContextPart(<<fr>> \o fs, <<fr.fn>> \o cx)
    <2>1. cx \in Seq(ContextOwners) /\ Lists(cx, fs, S) /\ Len(cx) = Cardinality(S)
      BY <1>4, Zenon DEF ContextPart
    <2>2. <<fr.fn>> \o cx \in Seq(ContextOwners) /\ Len(<<fr.fn>> \o cx) = Len(cx) + 1
      BY <1>4, <2>1, Cons
    <2>3. Lists(<<fr.fn>> \o cx, <<fr>> \o fs, M)
      BY <1>1, <1>4, <2>1, ListsWith, Zenon
    <2> HIDE DEF M, S
    <2>4. Len(<<fr.fn>> \o cx) = Cardinality(M)
      BY <1>3, <2>1, <2>2, Zenon
    <2> QED BY <1>1, <2>2, <2>3, <2>4, Zenon DEF ContextPart
  <1>5. ASSUME ContextPart(<<fr>> \o fs, cx)
        PROVE  /\ cx # <<>> /\ ContextPart(fs, Tail(cx))
               /\ fr.fn \in ContextOwners /\ cx = <<fr.fn>> \o Tail(cx)
    <2>1. cx \in Seq(ContextOwners) /\ Lists(cx, <<fr>> \o fs, M) /\ Len(cx) = Cardinality(M)
      BY <1>1, <1>5, Zenon DEF ContextPart
    <2> HIDE DEF M, S
    <2>2. cx # <<>>
      BY <1>3, <2>1
    <2> DEFINE x == Head(cx)
               rest == Tail(cx)
    <2>3. /\ x \in ContextOwners /\ rest \in Seq(ContextOwners) /\ cx = <<x>> \o rest
          /\ Len(rest) = Len(cx) - 1
      BY <2>1, <2>2, Parts, Zenon
    <2> HIDE DEF x, rest
    <2>4. x = fr.fn /\ Lists(rest, fs, S)
      BY <1>1, <2>1, <2>3, ListsWith, Zenon DEF M
    <2>5. Len(rest) = Cardinality(S)
      BY <1>3, <2>1, <2>3
    <2>6. ContextPart(fs, rest)
      BY <2>3, <2>4, <2>5 DEF ContextPart, S
    <2>7. cx = <<fr.fn>> \o rest /\ fr.fn \in ContextOwners
      BY <2>3, <2>4, Zenon
    <2> QED BY <2>2, <2>6, <2>7, Zenon DEF rest
  <1> QED BY <1>4, <1>5, Zenon
\* FrameLevel without the CASE.
LEMMA FrameLevels ==
  ASSUME NEW fr \in Frames, NEW n, NEW m
  PROVE  /\ fr.kind \in Entries => (FrameLevel(fr, n, m) <=> n = m + Count(fr.strict))
         /\ fr.kind \notin Entries /\ fr.fn \in ScriptFunctions
              => (FrameLevel(fr, n, m) <=> n = Count(fr.strict) /\ fr.saved = m)
         /\ fr.kind \notin Entries /\ fr.fn \notin ScriptFunctions
              => (FrameLevel(fr, n, m) <=> n = m)
  <1>1. /\ fr.kind \in Entries => fr.kind \notin Calls
        /\ fr.kind \notin Entries => fr.kind \in Calls
    BY DEF Frames, Entries, Calls
  <1> DEFINE A == n = m + Count(fr.strict)
             B == n = Count(fr.strict) /\ fr.saved = m
             C == n = m
             E == fr.kind \in Entries
             S == fr.fn \in ScriptFunctions
             K == fr.kind \in Calls
  <1>2. FrameLevel(fr, n, m) = CASE E -> A [] K /\ S -> B [] OTHER -> C
    BY Zenon DEF FrameLevel
  <1>3. (E => ~K) /\ (~E => K)
    BY <1>1
  <1> HIDE DEF A, B, C, E, S, K
  <1>4. E => (FrameLevel(fr, n, m) <=> A)
    BY <1>2, <1>3
  <1>5. ~E /\ S => (FrameLevel(fr, n, m) <=> B)
    BY <1>2, <1>3
  <1>6. ~E /\ ~S => (FrameLevel(fr, n, m) <=> C)
    BY <1>2, <1>3
  <1> QED BY <1>4, <1>5, <1>6, Zenon DEF A, B, C, E, S, K

LEMMA LevelCons ==
  ASSUME NEW fs \in Seq(Frames), NEW fr \in Frames, NEW n
  PROVE  LevelPart(<<fr>> \o fs, n)
           <=> n \in Nat /\ \E m : LevelPart(fs, m) /\ FrameLevel(fr, n, m)
  BY LeveledCons, Zenon DEF LevelPart

-----------------------------------------------------------------------------
(* The steps of the invariant *)

Matching(fs, cs, st, cx, n) ==
  /\ fs \in Seq(GoodFrames)
  /\ CallPart(fs, cs, st) /\ ContextPart(fs, cx) /\ LevelPart(fs, n)

\* The frame on top goes on to another part of what it is.
LEMMA TopChanges ==
  ASSUME NEW fs \in Seq(GoodFrames), NEW fr \in GoodFrames, NEW gr \in GoodFrames,
         fr.kind \in Entries, gr.kind \in Entries,
         RunsScript(fr) <=> RunsScript(gr), fr.fn = gr.fn, fr.strict = gr.strict,
         NEW cs, NEW st, NEW cx, NEW n, Matching(<<fr>> \o fs, cs, st, cx, n)
  PROVE  Matching(<<gr>> \o fs, cs, st, cx, n)
  <1>1. /\ fs \in Seq(Frames) /\ fr \in Frames /\ gr \in Frames
        /\ <<gr>> \o fs \in Seq(GoodFrames)
    BY GoodIsFrame, Cons DEF GoodFrames
  <1>2. CallPart(<<gr>> \o fs, cs, st)
    <2>1. fr.kind \notin {"call", "construct"} /\ gr.kind \notin {"call", "construct"}
      BY DEF Entries
    <2> QED BY <1>1, <2>1, CallUnmarked, Zenon DEF Matching
  <1>3. ContextPart(<<gr>> \o fs, cx)
    <2>1. CASE RunsScript(fr)
      <3>1. /\ cx # <<>> /\ ContextPart(fs, Tail(cx))
            /\ fr.fn \in ContextOwners /\ cx = <<fr.fn>> \o Tail(cx)
        <4>1. ContextPart(<<fr>> \o fs, cx)
          BY Zenon DEF Matching
        <4> HIDE DEF RunsScript
        <4> QED BY <1>1, <2>1, <4>1, ContextMarked
      <3>2. ContextPart(<<gr>> \o fs, <<gr.fn>> \o Tail(cx))
        <4>1. gr.fn \in ContextOwners
          BY <3>1
        <4> QED BY <1>1, <2>1, <3>1, <4>1, ContextMarked, Zenon
      <3>3. <<gr.fn>> \o Tail(cx) = cx
        BY <3>1
      <3> HIDE DEF RunsScript
      <3> QED BY <3>2, <3>3
    <2>2. CASE ~RunsScript(fr)
      BY <1>1, <2>2, ContextUnmarked, Zenon DEF Matching
    <2> QED BY <2>1, <2>2, Zenon
  <1>4. LevelPart(<<gr>> \o fs, n)
    <2>1. PICK m : n \in Nat /\ LevelPart(fs, m) /\ FrameLevel(fr, n, m)
      BY <1>1, LevelCons, Zenon DEF Matching
    <2>2. FrameLevel(gr, n, m)
      BY <1>1, <2>1, FrameLevels
    <2> QED BY <1>1, <2>1, <2>2, LevelCons, Zenon
  <1> QED BY <1>1, <1>2, <1>3, <1>4, Zenon DEF Matching

\* A function is called: the only new frame that pushes on the call stack.
LEMMA Called ==
  ASSUME NEW fs \in Seq(GoodFrames), NEW f \in Functions, NEW how \in Calls,
         NEW cs, NEW st, NEW cx, NEW n, Matching(fs, cs, st, cx, n)
  PROVE  LET fr == [kind |-> how, fn |-> f, how |-> how, strict |-> f \in StrictFunctions,
                    saved |-> n, owns |-> FALSE]
         IN Matching(<<fr>> \o fs,
                     IF how = "direct" THEN cs ELSE <<f>> \o cs,
                     IF how # "direct" /\ TracksRecursion THEN [st EXCEPT ![f] = @ + 1] ELSE st,
                     IF f \in ScriptFunctions THEN <<f>> \o cx ELSE cx,
                     IF f \in ScriptFunctions THEN Count(f \in StrictFunctions) ELSE n)
  <1> DEFINE fr == [kind |-> how, fn |-> f, how |-> how, strict |-> f \in StrictFunctions,
                    saved |-> n, owns |-> FALSE]
             m == IF f \in ScriptFunctions THEN Count(f \in StrictFunctions) ELSE n
  <1>1. n \in Nat
    BY DEF Matching, LevelPart
  <1>2. /\ fr \in Frames /\ fr \in GoodFrames /\ fr.kind = how /\ fr.fn = f /\ fr.saved = n
        /\ fr.strict = (f \in StrictFunctions)
    BY <1>1 DEF Frames, GoodFrames, Calls, Entries
  <1>3. /\ fs \in Seq(Frames) /\ <<fr>> \o fs \in Seq(GoodFrames)
    BY <1>2, GoodIsFrame, Cons
  <1> HIDE DEF fr
  <1>4. CallPart(<<fr>> \o fs, IF how = "direct" THEN cs ELSE <<f>> \o cs,
                 IF how # "direct" /\ TracksRecursion THEN [st EXCEPT ![f] = @ + 1] ELSE st)
    <2>1. CASE how = "direct"
      <3>1. CallPart(<<fr>> \o fs, cs, st)
        <4>1. fr.kind \notin {"call", "construct"}
          BY <1>2, <2>1
        <4> QED BY <1>2, <1>3, <4>1, CallUnmarked, Zenon DEF Matching
      <3> QED BY <2>1, <3>1
    <2>2. CASE how # "direct"
      <3>1. fr.kind \in {"call", "construct"}
        BY <1>2, <2>2 DEF Calls
      <3>2. CallPart(<<fr>> \o fs, <<fr.fn>> \o cs,
                     IF TracksRecursion THEN [st EXCEPT ![fr.fn] = @ + 1] ELSE st)
        <4>1. CallPart(fs, cs, st) /\ fr.fn \in Functions
          BY <1>2, Zenon DEF Matching
        <4> QED BY <1>2, <1>3, <3>1, <4>1, CallPushed, Zenon
      <3> HIDE DEF TracksRecursion, CallPart
      <3> QED BY <1>2, <2>2, <3>2
    <2> QED BY <2>1, <2>2, Zenon
  <1>5. ContextPart(<<fr>> \o fs, IF f \in ScriptFunctions THEN <<f>> \o cx ELSE cx)
    <2>1. RunsScript(fr) <=> f \in ScriptFunctions
      BY <1>2 DEF RunsScript, Calls
    <2>2. CASE f \in ScriptFunctions
      <3>1. fr.fn \in ContextOwners
        BY <1>2, <2>2 DEF ContextOwners
      <3>2. ContextPart(<<fr>> \o fs, <<fr.fn>> \o cx)
        BY <1>2, <1>3, <2>1, <2>2, <3>1, ContextMarked, Zenon DEF Matching
      <3> QED BY <1>2, <2>2, <3>2
    <2>3. CASE f \notin ScriptFunctions
      <3>1. ContextPart(<<fr>> \o fs, cx)
        BY <1>2, <1>3, <2>1, <2>3, ContextUnmarked, Zenon DEF Matching
      <3> QED BY <2>3, <3>1
    <2> QED BY <2>2, <2>3, Zenon
  <1>6. LevelPart(<<fr>> \o fs, m)
    <2>1. m \in Nat
      BY <1>1 DEF Count
    <2>2. FrameLevel(fr, m, n)
      BY <1>2 DEF FrameLevel, Entries, Calls, Count
    <2> HIDE DEF m
    <2> QED BY <1>2, <1>3, <2>1, <2>2, LevelCons, Zenon DEF Matching
  <1> QED BY <1>3, <1>4, <1>5, <1>6 DEF Matching, fr, m

\* A frame that runs script code itself is entered from the host.
LEMMA Entered ==
  ASSUME NEW fs \in Seq(GoodFrames), NEW fr \in GoodFrames, fr.kind \in {"declare", "enter"},
         fr.kind = "declare" => fr.fn = NoFunction,
         NEW cs, NEW st, NEW cx, NEW n, Matching(fs, cs, st, cx, n)
  PROVE  Matching(<<fr>> \o fs, cs, st,
                  IF fr.kind = "declare" THEN <<NoFunction>> \o cx ELSE cx,
                  n + Count(fr.strict))
  <1>1. /\ fs \in Seq(Frames) /\ fr \in Frames /\ <<fr>> \o fs \in Seq(GoodFrames)
    BY GoodIsFrame, Cons DEF GoodFrames
  <1>2. CallPart(<<fr>> \o fs, cs, st)
    BY <1>1, CallUnmarked DEF Matching
  <1>3. ContextPart(<<fr>> \o fs, IF fr.kind = "declare" THEN <<NoFunction>> \o cx ELSE cx)
    <2>1. CASE fr.kind = "declare"
      <3>1. RunsScript(fr) /\ fr.fn = NoFunction /\ fr.fn \in ContextOwners
        BY <2>1 DEF RunsScript, ContextOwners
      <3>2. ContextPart(<<fr>> \o fs, <<fr.fn>> \o cx)
        BY <1>1, <3>1, ContextMarked, Zenon DEF Matching
      <3> QED BY <2>1, <3>1, <3>2
    <2>2. CASE fr.kind = "enter"
      <3>1. ~RunsScript(fr)
        BY <2>2 DEF RunsScript, Calls
      <3>2. ContextPart(<<fr>> \o fs, cx)
        BY <1>1, <3>1, ContextUnmarked, Zenon DEF Matching
      <3> QED BY <2>2, <3>2
    <2> QED BY <2>1, <2>2
  <1>4. LevelPart(<<fr>> \o fs, n + Count(fr.strict))
    <2>1. n \in Nat /\ n + Count(fr.strict) \in Nat
      BY DEF Matching, LevelPart, Count
    <2>2. FrameLevel(fr, n + Count(fr.strict), n)
      BY <1>1, FrameLevels DEF Entries
    <2> QED BY <1>1, <2>1, <2>2, LevelCons, Zenon DEF Matching
  <1> QED BY <1>1, <1>2, <1>3, <1>4, Zenon DEF Matching
-----------------------------------------------------------------------------
(* Actions *)

\* What the invariant says of the frame on top.
LEMMA OnTop ==
  ASSUME IInv, ~Idle
  PROVE  /\ Top \in GoodFrames /\ Top \in Frames /\ Tail(frames) \in Seq(GoodFrames)
         /\ frames = <<Top>> \o Tail(frames)
         /\ Matching(<<Top>> \o Tail(frames), callStack, statistics, contexts, strictCount)
  <1>1. frames # <<>> /\ frames \in Seq(GoodFrames)
    BY DEF Idle, IInv
  <1>2. /\ Top \in GoodFrames /\ Tail(frames) \in Seq(GoodFrames)
        /\ frames = <<Top>> \o Tail(frames)
    BY <1>1, Parts, Zenon DEF Top
  <1>3. Matching(frames, callStack, statistics, contexts, strictCount)
    BY Zenon DEF IInv, Matching
  <1> HIDE DEF Matching
  <1>4. Top \in Frames
    BY <1>2 DEF GoodFrames
  <1>5. Matching(<<Top>> \o Tail(frames), callStack, statistics, contexts, strictCount)
    BY <1>2, <1>3, Zenon
  <1> QED BY <1>2, <1>4, <1>5, Zenon

\* A frame is left: its finally blocks put everything back as it was below it,
\* and an element is popped only by a frame that pushed one.
LEMMA Left ==
  ASSUME IInv, ~Idle, NEW failed \in BOOLEAN, LeaveFrame(failed)
  PROVE  /\ Matching(frames', callStack', statistics', contexts', strictCount')
         /\ active' \in BOOLEAN /\ statements' \in Nat
  <1> DEFINE fs == Tail(frames)
  <1>1. /\ Top \in GoodFrames /\ Top \in Frames /\ fs \in Seq(GoodFrames) /\ fs \in Seq(Frames)
        /\ CallPart(<<Top>> \o fs, callStack, statistics)
        /\ ContextPart(<<Top>> \o fs, contexts)
        /\ LevelPart(<<Top>> \o fs, strictCount)
    BY OnTop, GoodIsFrame, Zenon DEF Matching
  <1>2. /\ frames' = fs
        /\ contexts' = IF RunsScript(Top) THEN Tail(contexts) ELSE contexts
        /\ strictCount' = Strictness
        /\ LeaveCallStack(failed)
        /\ active' = ActiveAfter
        /\ statements' = IF Top.kind \in Entries THEN 0 ELSE statements
    BY Zenon DEF LeaveFrame, LeaveContext
  <1>3. active' \in BOOLEAN /\ statements' \in Nat
    BY <1>2 DEF IInv, ActiveAfter
  <1> HIDE DEF fs
  <1>4. ContextPart(fs, contexts')
    <2>1. CASE RunsScript(Top)
      BY <1>1, <1>2, <2>1, ContextMarked
    <2>2. CASE ~RunsScript(Top)
      BY <1>1, <1>2, <2>2, ContextUnmarked
    <2> QED BY <2>1, <2>2, Zenon
  <1>5. LevelPart(fs, strictCount')
    <2>1. PICK m : strictCount \in Nat /\ LevelPart(fs, m) /\ FrameLevel(Top, strictCount, m)
      BY <1>1, LevelCons, Zenon
    <2>2. m \in Nat
      BY <2>1 DEF LevelPart
    <2>3. Strictness = m
      <3>1. CASE Top.kind \in Entries
        <4>1. strictCount = m + Count(Top.strict) /\ Strictness = strictCount - Count(Top.strict)
          BY <1>1, <2>1, <3>1, FrameLevels DEF Strictness
        <4>2. Count(Top.strict) \in Nat
          BY DEF Count
        <4> QED BY <2>2, <4>1, <4>2
      <3>2. CASE Top.kind \notin Entries /\ Top.fn \in ScriptFunctions
        BY <1>1, <2>1, <3>2, FrameLevels DEF Strictness
      <3>3. CASE Top.kind \notin Entries /\ Top.fn \notin ScriptFunctions
        BY <1>1, <2>1, <3>3, FrameLevels DEF Strictness
      <3> QED BY <3>1, <3>2, <3>3, Zenon
    <2> QED BY <1>2, <2>1, <2>3, Zenon
  <1>6. CallPart(fs, callStack', statistics')
    <2> DEFINE A == Top.kind \in {"call", "construct"} /\ callStack # <<>>
               B == Top.kind = "script" /\ failed
    <2>1. statistics \in [Functions -> Nat \cup {-1}]
      BY <1>1, Zenon DEF CallPart
    <2>2. ~(A /\ B)
      OBVIOUS
    <2>3. CASE A
      <3>1. Pop
        <4>1. LeaveCallStack(failed) <=> CASE A -> Pop [] B -> Clear [] OTHER -> UNCHANGED <<callStack, statistics>>
          BY Zenon DEF LeaveCallStack
        <4> HIDE DEF A, B
        <4> QED BY <1>2, <2>2, <2>3, <4>1
      <3>2. /\ callStack' = Tail(callStack)
            /\ statistics' = IF TracksRecursion THEN [statistics EXCEPT ![Head(callStack)] = @ - 1]
                             ELSE statistics
        BY <3>1, Zenon DEF Pop, Uncount
      <3>3. CallPart(fs, Tail(callStack),
                     IF TracksRecursion THEN [statistics EXCEPT ![Head(callStack)] = @ - 1]
                     ELSE statistics)
        BY <1>1, <2>3, CallPopped, Zenon
      <3> HIDE DEF CallPart
      <3> QED BY <3>2, <3>3, Zenon
    <2>4. CASE ~A /\ B
      <3>1. Clear
        <4>1. LeaveCallStack(failed) <=> CASE A -> Pop [] B -> Clear [] OTHER -> UNCHANGED <<callStack, statistics>>
          BY Zenon DEF LeaveCallStack
        <4> HIDE DEF A, B
        <4> QED BY <1>2, <2>4, <4>1
      <3>2. callStack' = <<>> /\ statistics' \in [Functions -> Nat \cup {-1}]
            /\ \A f \in Functions : statistics'[f] = -1
        BY <3>1 DEF Clear
      <3>3. CallPart(fs, <<>>, statistics')
        BY <1>1, <3>2, CallCleared
      <3> QED BY <3>2, <3>3
    <2>5. CASE ~A /\ ~B
      <3>1. UNCHANGED <<callStack, statistics>>
        <4>1. LeaveCallStack(failed) <=> CASE A -> Pop [] B -> Clear [] OTHER -> UNCHANGED <<callStack, statistics>>
          BY Zenon DEF LeaveCallStack
        <4> HIDE DEF A, B
        <4> QED BY <1>2, <2>5, <4>1
      <3>2. CASE Top.kind \notin {"call", "construct"}
        BY <1>1, <3>1, <3>2, CallUnmarked
      <3>3. CASE Top.kind \in {"call", "construct"}
        <4>1. callStack = <<>>
          BY <2>5, <3>3
        <4>2. TracksRecursion => \A f \in Functions : statistics[f] = -1
          BY <1>1, <4>1, OccurrencesOfNothing DEF CallPart
        <4>3. CallPart(fs, <<>>, statistics)
          BY <1>1, <2>1, <4>2, CallCleared
        <4> QED BY <3>1, <4>1, <4>3
      <3> QED BY <3>2, <3>3, Zenon
    <2> QED BY <2>3, <2>4, <2>5, Zenon
  <1> QED BY <1>1, <1>2, <1>3, <1>4, <1>5, <1>6, Zenon DEF Matching
\* CallFunction on top of frames that match.
LEMMA CallsKeep ==
  ASSUME NEW f \in Functions, NEW how \in Calls, NEW below,
         Matching(below, callStack, statistics, contexts, strictCount),
         thrown \in {"none", "js", "clr"}, CallFunction(f, how, below)
  PROVE  /\ Matching(frames', callStack', statistics', contexts', strictCount')
         /\ thrown' \in {"none", "js", "clr"}
  <1>1. CASE how # "direct" /\ Depth(f) > MaxRecursionDepth
    <2>1. /\ UNCHANGED <<callStack, statistics, contexts, strictCount>>
          /\ frames' = below /\ thrown' = "clr"
      BY <1>1 DEF CallFunction, Overflow
    <2> HIDE DEF Matching
    <2> QED BY <2>1
  <1>2. CASE ~(how # "direct" /\ Depth(f) > MaxRecursionDepth)
    <2> DEFINE fr == [kind |-> how, fn |-> f, how |-> how, strict |-> f \in StrictFunctions,
                      saved |-> strictCount, owns |-> FALSE]
    <2>1. /\ frames' = <<fr>> \o below
          /\ IF how = "direct" THEN UNCHANGED <<callStack, statistics>> ELSE Push(f)
          /\ IF f \in ScriptFunctions
             THEN contexts' = <<f>> \o contexts /\ strictCount' = Count(f \in StrictFunctions)
             ELSE UNCHANGED <<contexts, strictCount>>
          /\ UNCHANGED thrown
      BY <1>2, Zenon DEF CallFunction
    <2>2. /\ callStack' = IF how = "direct" THEN callStack ELSE <<f>> \o callStack
          /\ statistics' = IF how # "direct" /\ TracksRecursion
                           THEN [statistics EXCEPT ![f] = @ + 1] ELSE statistics
          /\ contexts' = IF f \in ScriptFunctions THEN <<f>> \o contexts ELSE contexts
          /\ strictCount' = IF f \in ScriptFunctions THEN Count(f \in StrictFunctions)
                            ELSE strictCount
      <3> HIDE DEF fr, Count, TracksRecursion
      <3> QED BY <2>1 DEF Push
    <2>3. below \in Seq(GoodFrames)
      BY Zenon DEF Matching
    <2> HIDE DEF Matching, Count, TracksRecursion
    <2>4. Matching(<<fr>> \o below, callStack', statistics', contexts', strictCount')
      BY <2>2, <2>3, Called
    <2> QED BY <2>1, <2>4
  <1> QED BY <1>1, <1>2, Zenon

LEMMA HostKeeps ==
  ASSUME IInv, Host
  PROVE  IInv'
  <1>0. frames \in Seq(GoodFrames) /\ Matching(frames, callStack, statistics, contexts, strictCount)
    BY Zenon DEF IInv, Matching
  <1>1. ASSUME NEW strict \in BOOLEAN, Execute(strict) PROVE IInv'
    <2> DEFINE fr == [kind |-> "declare", fn |-> NoFunction, how |-> "direct", strict |-> strict,
                      saved |-> 0, owns |-> ~active]
    <2>1. /\ frames' = <<fr>> \o frames /\ contexts' = <<NoFunction>> \o contexts
          /\ strictCount' = strictCount + Count(strict)
          /\ statements' = 0 /\ active' = TRUE /\ ops' = ops + 1 /\ ops < MaxOps
          /\ UNCHANGED <<thrown, callStack, statistics>>
      BY <1>1 DEF Execute, BeginExecution, Op
    <2>2. /\ fr \in GoodFrames /\ fr.kind = "declare" /\ fr.fn = NoFunction /\ fr.strict = strict
      BY DEF IInv, GoodFrames, Frames, Entries, Calls
    <2> HIDE DEF fr, Matching, Count
    <2>3. Matching(<<fr>> \o frames, callStack, statistics, <<NoFunction>> \o contexts,
                   strictCount + Count(strict))
      <3>1. Matching(<<fr>> \o frames, callStack, statistics,
                     IF fr.kind = "declare" THEN <<NoFunction>> \o contexts ELSE contexts,
                     strictCount + Count(fr.strict))
        BY <1>0, <2>2, Entered
      <3> QED BY <2>2, <3>1
    <2>4. Matching(frames', callStack', statistics', contexts', strictCount')
      BY <2>1, <2>3
    <2>5. ops' \in 0 .. MaxOps
      BY <2>1, LimitsAssumption DEF IInv
    <2> QED BY <2>1, <2>4, <2>5 DEF IInv, Matching
  <1>2. ASSUME NEW f \in Functions, NEW how \in Calls, NEW strict \in BOOLEAN,
               Enter(f, how, strict)
        PROVE  IInv'
    <2> DEFINE fr == [kind |-> "enter", fn |-> f, how |-> how, strict |-> strict,
                      saved |-> 0, owns |-> ~active]
    <2>1. /\ frames' = <<fr>> \o frames
          /\ statements' = 0 /\ active' = TRUE /\ ops' = ops + 1 /\ ops < MaxOps
          /\ strictCount' = strictCount + Count(strict)
          /\ UNCHANGED <<thrown, callStack, statistics, contexts>>
      BY <1>2 DEF Enter, BeginExecution, Op
    <2>2. /\ fr \in GoodFrames /\ fr.kind = "enter" /\ fr.fn = f /\ fr.strict = strict
      BY DEF IInv, GoodFrames, Frames, Entries, Calls
    <2> HIDE DEF fr, Matching, Count
    <2>3. Matching(<<fr>> \o frames, callStack, statistics, contexts,
                   strictCount + Count(strict))
      <3>1. Matching(<<fr>> \o frames, callStack, statistics,
                     IF fr.kind = "declare" THEN <<NoFunction>> \o contexts ELSE contexts,
                     strictCount + Count(fr.strict))
        BY <1>0, <2>2, Entered
      <3> QED BY <2>2, <3>1
    <2>4. Matching(frames', callStack', statistics', contexts', strictCount')
      BY <2>1, <2>3
    <2>5. ops' \in 0 .. MaxOps
      BY <2>1, LimitsAssumption DEF IInv
    <2> QED BY <2>1, <2>4, <2>5 DEF IInv, Matching
  <1> QED BY <1>1, <1>2, Zenon DEF Host

\* A frame that goes on to its next part.
LEMMA TopGoesOn ==
  ASSUME IInv, ~Idle, Top.kind \in Entries, NEW kind \in Entries,
         Top.kind \in {"enter", "entered"} <=> kind \in {"enter", "entered"},
         kind # "enter"
  PROVE  Matching(<<[Top EXCEPT !.kind = kind]>> \o Tail(frames),
                  callStack, statistics, contexts, strictCount)
  <1> DEFINE gr == [Top EXCEPT !.kind = kind]
  <1>1. /\ Top \in GoodFrames /\ Top \in Frames /\ Tail(frames) \in Seq(GoodFrames)
        /\ Matching(<<Top>> \o Tail(frames), callStack, statistics, contexts, strictCount)
    BY OnTop, Zenon
  <1>2. gr \in GoodFrames /\ gr.kind = kind /\ gr.fn = Top.fn /\ gr.strict = Top.strict
    BY <1>1 DEF GoodFrames, Frames
  <1>3. RunsScript(Top) <=> RunsScript(gr)
    BY <1>2 DEF RunsScript, Entries, Calls
  <1> HIDE DEF gr, Matching, Top, RunsScript
  <1>4. Matching(<<gr>> \o Tail(frames), callStack, statistics, contexts, strictCount)
    BY <1>1, <1>2, <1>3, TopChanges
  <1> QED BY <1>4 DEF gr

LEMMA StepKeeps ==
  ASSUME IInv, Step
  PROVE  IInv'
  <1>0. /\ Matching(frames, callStack, statistics, contexts, strictCount)
        /\ thrown \in {"none", "js", "clr"}
        /\ active \in BOOLEAN /\ statements \in Nat /\ ops \in 0 .. MaxOps
    BY Zenon DEF IInv, Matching
  <1>a. ASSUME Op PROVE ops' \in 0 .. MaxOps
    BY <1>a, <1>0, LimitsAssumption DEF Op
  <1>b. ASSUME Matching(frames', callStack', statistics', contexts', strictCount'),
               thrown' \in {"none", "js", "clr"},
               active' \in BOOLEAN, statements' \in Nat, ops' \in 0 .. MaxOps
        PROVE  IInv'
    BY <1>b, Zenon DEF IInv, Matching
  <1> HIDE DEF Matching
  <1>1. ASSUME NEW f \in Functions, NEW how \in Calls, ScriptCalls(f, how) PROVE IInv'
    <2>1. CallFunction(f, how, frames) /\ Op /\ UNCHANGED <<active, statements>>
      BY <1>1, Zenon DEF ScriptCalls
    <2>2. /\ Matching(frames', callStack', statistics', contexts', strictCount')
          /\ thrown' \in {"none", "js", "clr"}
      BY <1>0, <2>1, CallsKeep, Zenon
    <2> QED BY <1>0, <1>a, <1>b, <2>1, <2>2
  <1>2. ASSUME NEW f \in Functions, JobCalls(f) PROVE IInv'
    <2>1. CallFunction(f, "direct", frames) /\ Op /\ UNCHANGED <<active, statements>>
      BY <1>2, Zenon DEF JobCalls
    <2>2. "direct" \in Calls
      BY DEF Calls
    <2>3. /\ Matching(frames', callStack', statistics', contexts', strictCount')
          /\ thrown' \in {"none", "js", "clr"}
      BY <1>0, <2>1, <2>2, CallsKeep, Zenon
    <2> QED BY <1>0, <1>a, <1>b, <2>1, <2>3
  <1>3. ASSUME EntryCalls PROVE IInv'
    <2> DEFINE below == <<[Top EXCEPT !.kind = "entered"]>> \o Tail(frames)
    <2>1. /\ ~Idle /\ Top.kind = "enter" /\ CallFunction(Top.fn, Top.how, below)
          /\ UNCHANGED <<active, statements, ops>>
      BY <1>3, Zenon DEF EntryCalls
    <2>2. Top.fn \in Functions /\ Top.how \in Calls
      BY <2>1, OnTop DEF GoodFrames, Frames
    <2>3. Matching(below, callStack, statistics, contexts, strictCount)
      BY <2>1, TopGoesOn DEF Entries
    <2> HIDE DEF below
    <2>4. /\ Matching(frames', callStack', statistics', contexts', strictCount')
          /\ thrown' \in {"none", "js", "clr"}
      BY <1>0, <2>1, <2>2, <2>3, CallsKeep, Zenon
    <2> QED BY <1>0, <1>b, <2>1, <2>4
  <1>4. ASSUME Statement PROVE IInv'
    BY <1>0, <1>b, <1>4 DEF Statement
  <1>5. ASSUME NextPart PROVE IInv'
    <2> DEFINE kind == IF Top.kind = "declare" THEN "script" ELSE "jobs"
    <2>1. /\ ~Idle /\ Top.kind \in {"declare", "script"}
          /\ frames' = <<[Top EXCEPT !.kind = kind]>> \o Tail(frames)
          /\ UNCHANGED <<thrown, callStack, statistics, contexts, strictCount, active,
                         statements, ops>>
      BY <1>5 DEF NextPart
    <2>2. /\ Top.kind \in Entries /\ kind \in Entries /\ kind # "enter"
          /\ Top.kind \in {"enter", "entered"} <=> kind \in {"enter", "entered"}
      BY <2>1 DEF Entries
    <2> HIDE DEF kind
    <2>3. Matching(<<[Top EXCEPT !.kind = kind]>> \o Tail(frames),
                   callStack, statistics, contexts, strictCount)
      BY <2>1, <2>2, TopGoesOn, Zenon
    <2> QED BY <1>0, <1>b, <2>1, <2>3
  <1>6. ASSUME NEW kind \in {"js", "clr"}, Throw(kind) PROVE IInv'
    BY <1>0, <1>a, <1>b, <1>6 DEF Throw
  <1>7. ASSUME Catch PROVE IInv'
    BY <1>0, <1>b, <1>7 DEF Catch
  <1>8. ASSUME Return PROVE IInv'
    <2>1. /\ ~Idle /\ LeaveFrame(FALSE) /\ UNCHANGED ops
          /\ thrown' \in {"none", "js", "clr"}
      BY <1>8 DEF Return
    <2>2. /\ Matching(frames', callStack', statistics', contexts', strictCount')
          /\ active' \in BOOLEAN /\ statements' \in Nat
      BY <2>1, Left, Zenon
    <2> QED BY <1>0, <1>b, <2>1, <2>2
  <1>9. ASSUME Unwind PROVE IInv'
    <2>1. /\ ~Idle /\ LeaveFrame(TRUE) /\ UNCHANGED ops
          /\ thrown' \in {"none", "js", "clr"}
      BY <1>0, <1>9 DEF Unwind
    <2>2. /\ Matching(frames', callStack', statistics', contexts', strictCount')
          /\ active' \in BOOLEAN /\ statements' \in Nat
      BY <2>1, Left, Zenon
    <2> QED BY <1>0, <1>b, <2>1, <2>2
  <1> QED BY <1>1, <1>2, <1>3, <1>4, <1>5, <1>6, <1>7, <1>8, <1>9, Zenon DEF Step

LEMMA InitHolds == Init => IInv
  <1> SUFFICES ASSUME Init PROVE IInv
    OBVIOUS
  <1>1. /\ <<>> \in Seq(GoodFrames) /\ <<>> \in Seq(Frames) /\ <<>> \in Seq(ContextOwners)
        /\ Len(<<>>) = 0 /\ DOMAIN <<>> = {}
    OBVIOUS
  <1>2. CallPart(<<>>, <<>>, statistics)
    <2>1. /\ statistics \in [Functions -> Nat \cup {-1}]
          /\ \A f \in Functions : statistics[f] = -1
      BY DEF Init
    <2> QED BY <1>1, <2>1, CallCleared
  <1>3. ContextPart(<<>>, <<>>)
    <2>1. Running(<<>>) = {} /\ Cardinality({}) = 0
      BY <1>1, FS_EmptySet DEF Running
    <2> QED BY <1>1, <2>1 DEF ContextPart, Lists
  <1>4. LevelPart(<<>>, 0)
    BY LeveledEmpty DEF LevelPart
  <1>5. ops \in 0 .. MaxOps
    BY LimitsAssumption DEF Init
  <1> QED BY <1>1, <1>2, <1>3, <1>4, <1>5 DEF Init, IInv

LEMMA Inductive == Spec => []IInv
  <1>1. Init => IInv
    BY InitHolds
  <1>2. IInv /\ [Next]_vars => IInv'
    <2> SUFFICES ASSUME IInv, [Next]_vars PROVE IInv'
      OBVIOUS
    <2>1. CASE Next
      BY <2>1, HostKeeps, StepKeeps DEF Next
    <2>2. CASE UNCHANGED vars
      BY <2>2 DEF vars, IInv
    <2> QED BY <2>1, <2>2
  <1> QED BY <1>1, <1>2, PTL DEF Spec

-----------------------------------------------------------------------------
(* The theorems *)

\* Every variable keeps its type: in particular the strict-mode count never gets
\* below zero and the statistics never below the -1 of an absent key.
THEOREM StackTypes == Spec => []TypeOK
  <1>1. IInv => TypeOK
    BY GoodIsFrame, Zenon DEF IInv, TypeOK, CallPart, ContextPart, ContextOwners, LevelPart
  <1> QED BY <1>1, Inductive, PTL

\* The call stack lists the innermost calls, the recursion statistics count it, and
\* there is one execution context per body in progress, whatever returned, threw,
\* overflowed, was refused or was reset (Engine.Call, Construct, ScriptEvaluation).
THEOREM StacksTell == Spec => []StacksMatch
  <1>1. IInv => StacksMatch
    BY Zenon DEF IInv, StacksMatch, CallStackMatches, StatisticsMatch, ContextPerFrame,
                 CallPart, ContextPart
  <1> QED BY <1>1, Inductive, PTL

\* Functions and the outermost script run in their own strictness (StrictModeScope).
THEOREM StrictnessOwn == Spec => []StrictMode
  <1>1. ASSUME IInv PROVE StrictMode
    <2>1. ASSUME Idle PROVE strictCount = 0
      BY <1>1, <2>1, LeveledEmpty DEF IInv, LevelPart, Idle
    <2>2. ASSUME InScript, Top.kind \in Calls \/ Len(frames) = 1
          PROVE  strictCount > 0 <=> Top.strict
      <3> DEFINE fs == Tail(frames)
      <3>1. ~Idle /\ (Top.kind = "script" \/ (Top.kind \in Calls /\ Top.fn \in ScriptFunctions))
        BY <2>2, Zenon DEF InScript
      <3>2. /\ Top \in Frames /\ fs \in Seq(Frames) /\ frames = <<Top>> \o fs
            /\ LevelPart(<<Top>> \o fs, strictCount)
        BY <1>1, <3>1, OnTop, GoodIsFrame, Zenon DEF Matching
      <3>3. PICK m : strictCount \in Nat /\ LevelPart(fs, m) /\ FrameLevel(Top, strictCount, m)
        BY <3>2, LevelCons, Zenon
      <3>4. CASE Top.kind \in Calls
        <4>1. Top.kind \notin Entries /\ Top.fn \in ScriptFunctions
          BY <3>1, <3>4 DEF Calls, Entries
        <4>2. strictCount = Count(Top.strict)
          BY <3>2, <3>3, <4>1, FrameLevels, Zenon
        <4> QED BY <4>2 DEF Count
      <3>5. CASE Top.kind \notin Calls
        <4>1. Top.kind \in Entries
          BY <3>1, <3>5 DEF Entries
        <4>2. strictCount = m + Count(Top.strict)
          BY <3>2, <3>3, <4>1, FrameLevels, Zenon
        <4>3. fs = <<>>
          <5>1. Len(frames) = 1 /\ Len(frames) = Len(fs) + 1 /\ Len(fs) \in Nat
            BY <2>2, <3>2, <3>5, Cons
          <5> QED BY <3>2, <5>1
        <4>4. m = 0
          BY <3>3, <4>3, LeveledEmpty DEF LevelPart
        <4> QED BY <4>2, <4>4 DEF Count
      <3> QED BY <3>4, <3>5
    <2> QED BY <2>1, <2>2, Zenon DEF StrictMode
  <1> QED BY <1>1, Inductive, PTL
=============================================================================
