--------------------------- MODULE CompletionProofs ---------------------------
(***************************************************************************)
(* Proofs about StatementCompletions, for any labels and any depth of      *)
(* nesting: finalizers run, iterators are closed, a break or continue ends *)
(* the statement it means, and the environments of the others are restored.*)
(*                                                                         *)
(* Positions are counted from the outermost statement, so that a step at   *)
(* the top of the stack leaves those of the others alone.                  *)
(***************************************************************************)
EXTENDS CompletionProperties, WellFoundedInduction, TLAPS

Kinds == Loops \cup Lists \cup {"try", "labeled", "switch"}
Phases == {"run", "block", "catch", "finally", "select", "clause", "test", "body",
           "head", "next", "closing"}
Frames == [kind : Kinds, label : Labels \cup {None}, phase : Phases,
           held : Completions, scope : Seq(Environments), catch : BOOLEAN,
           finally : BOOLEAN, iterator : {"none", "open", "ended", "broken"}]

\* In these phases a statement runs by itself, in the others what it contains.
Active == {"head", "next", "test", "select", "closing"}

Shape(f) ==
  /\ f.kind \in Lists => f.phase = "run"
  /\ f.kind \in Lists \cup {"try"} => f.label = None
  /\ f.kind = "try" => f.phase \in {"block", "catch", "finally"}
  /\ f.kind = "labeled" => f.phase = "body" /\ f.label # None
  /\ f.kind = "switch" => f.phase \in {"select", "clause"}
  /\ f.kind \in {"while", "for"} => f.phase \in {"test", "body"}
  /\ f.kind = "forOf" => f.phase \in {"head", "next", "body", "closing"}
  /\ f.held # Normal => f.phase \in {"finally", "closing"}
  /\ f.iterator # "none" => f.kind = "forOf"
  /\ f.phase = "head" => f.iterator = "none"
  /\ f.phase = "next" => f.iterator \in {"none", "open"}
  /\ f.kind = "forOf" /\ f.phase = "body" => f.iterator = "open"

\* A try or a switch has room for the statement list it contains.
Fits(f, k) == k <= MaxDepth /\ (f.kind \in {"try", "switch"} => k < MaxDepth)

Outer(s, k) == s[Len(s) + 1 - k]

WellFormed(s) ==
  /\ s \in Seq(Frames)
  /\ \A k \in 1 .. Len(s) : Shape(Outer(s, k)) /\ Fits(Outer(s, k), k)
  /\ \A k \in 1 .. Len(s) - 1 : Outer(s, k).phase \notin Active

\* A statement that the jump c may mean, and that c means the innermost of the
\* first h.
Matches(f, c) ==
  IF c.label = None
  THEN f.kind \in Loops \cup (IF c.type = "Break" THEN {"switch"} ELSE {})
  ELSE f.label = c.label /\ (c.type = "Continue" => f.kind \in Loops)
Aimed(s, c, h) ==
  Jumps(c) /\ c.home \in 1 .. h =>
    /\ Matches(Outer(s, c.home), c)
    /\ \A k \in c.home + 1 .. h : ~Matches(Outer(s, k), c)
HeldAimed(s) == \A k \in 1 .. Len(s) : Aimed(s, Outer(s, k).held, k - 1)

\* The label of a jump that knows where it goes is the one of the engine.
Labelled(c, label) == Jumps(c) /\ c.home # 0 => c.label = label

Inv ==
  /\ WellFormed(stack) /\ HeldAimed(stack)
  /\ reg \in Completions /\ Aimed(stack, reg, Height) /\ Labelled(reg, target)
  /\ (stack # <<>> /\ Top.phase \in Active) => reg = Run
  /\ target \in Labels \cup {None}
  /\ scope \in Seq(Environments)

-----------------------------------------------------------------------------
(* Stacks. *)

(* Ending a statement.                                                          *)
LEMMA PopFacts ==
  ASSUME NEW s, WellFormed(s), HeldAimed(s), s # <<>>
  PROVE  /\ WellFormed(Tail(s)) /\ HeldAimed(Tail(s))
         /\ Len(Tail(s)) = Len(s) - 1
         /\ \A c : Aimed(s, c, Len(s)) => Aimed(Tail(s), c, Len(Tail(s)))
         /\ Aimed(Tail(s), s[1].held, Len(Tail(s)))
         /\ Tail(s) # <<>> => Tail(s)[1].phase \notin Active
  <1>1. /\ Tail(s) \in Seq(Frames) /\ Len(s) \in Nat \ {0}
        /\ Len(Tail(s)) = Len(s) - 1
        /\ \A i \in 1 .. Len(s) - 1 : Tail(s)[i] = s[i + 1]
    BY DEF WellFormed
  <1>2. \A k \in 1 .. Len(s) - 1 : Outer(Tail(s), k) = Outer(s, k)
    BY <1>1 DEF Outer
  <1>3. WellFormed(Tail(s))
    BY <1>1, <1>2 DEF WellFormed
  <1>4. ASSUME NEW c, NEW h \in 0 .. Len(s), NEW g \in 0 .. Len(s) - 1, g <= h,
               Aimed(s, c, h)
        PROVE  Aimed(Tail(s), c, g)
    <2>1. \A k \in 1 .. g : Outer(Tail(s), k) = Outer(s, k)
      BY <1>1, <1>2
    <2> QED BY <1>1, <1>4, <2>1 DEF Aimed
  <1>5. HeldAimed(Tail(s))
    BY <1>1, <1>2, <1>4 DEF HeldAimed
  <1>6. Outer(s, Len(s)) = s[1]
    BY <1>1 DEF Outer
  <1>7. Aimed(Tail(s), s[1].held, Len(Tail(s)))
    BY <1>1, <1>4, <1>6 DEF HeldAimed
  <1>8. Tail(s) # <<>> => Tail(s)[1].phase \notin Active
    <2> SUFFICES ASSUME Tail(s) # <<>> PROVE Tail(s)[1].phase \notin Active
      OBVIOUS
    <2>1. Len(s) - 1 \in 1 .. Len(s) - 1
      BY <1>1
    <2>2. Outer(s, Len(s) - 1) = s[2] /\ Tail(s)[1] = s[2]
      BY <1>1, <2>1 DEF Outer
    <2> QED BY <2>1, <2>2 DEF WellFormed
  <1> QED BY <1>1, <1>3, <1>4, <1>5, <1>7, <1>8

(* Beginning one.                                                               *)
LEMMA PushFacts ==
  ASSUME NEW s, WellFormed(s), HeldAimed(s), s # <<>> => s[1].phase \notin Active,
         NEW f \in Frames, Shape(f), Fits(f, Len(s) + 1), f.held = Normal
  PROVE  /\ WellFormed(<<f>> \o s) /\ HeldAimed(<<f>> \o s)
         /\ Len(<<f>> \o s) = Len(s) + 1
         /\ (<<f>> \o s)[1] = f
  <1> DEFINE t == <<f>> \o s
  <1>1. /\ t \in Seq(Frames) /\ Len(s) \in Nat /\ Len(t) = Len(s) + 1
        /\ t[1] = f
        /\ \A i \in 1 .. Len(s) : t[i + 1] = s[i]
    BY DEF WellFormed
  <1> HIDE DEF t
  <1>2. \A k \in 1 .. Len(s) : Outer(t, k) = Outer(s, k)
    <2> TAKE k \in 1 .. Len(s)
    <2>1. Len(s) + 1 - k \in 1 .. Len(s)
      BY <1>1
    <2>2. Len(t) + 1 - k = (Len(s) + 1 - k) + 1
      BY <1>1
    <2> QED BY <1>1, <2>1, <2>2 DEF Outer
  <1>3. Outer(t, Len(t)) = f
    BY <1>1 DEF Outer
  <1>4. \A k \in 1 .. Len(s) : Outer(t, k).phase \notin Active
    <2> TAKE k \in 1 .. Len(s)
    <2>1. CASE k = Len(s)
      <3>1. Outer(s, k) = s[1] /\ s # <<>>
        BY <1>1, <2>1 DEF Outer, WellFormed
      <3> QED BY <1>2, <3>1
    <2>2. CASE k # Len(s)
      BY <1>1, <1>2, <2>2 DEF WellFormed
    <2> QED BY <2>1, <2>2
  <1>5. WellFormed(t)
    BY <1>1, <1>2, <1>3, <1>4 DEF WellFormed
  <1>6. ASSUME NEW k \in 1 .. Len(t)
        PROVE  Aimed(t, Outer(t, k).held, k - 1)
    <2>1. CASE k = Len(t)
      BY <1>3, <2>1 DEF Aimed, Jumps, Normal, Plain, Completion
    <2>2. CASE k \in 1 .. Len(s)
      <3>1. Aimed(s, Outer(t, k).held, k - 1)
        BY <1>2, <2>2 DEF HeldAimed
      <3>2. \A j \in 1 .. k - 1 : Outer(t, j) = Outer(s, j)
        BY <1>1, <1>2, <2>2
      <3> QED BY <1>1, <2>2, <3>1, <3>2 DEF Aimed
    <2> QED BY <1>1, <2>1, <2>2
  <1> QED BY <1>1, <1>5, <1>6 DEF HeldAimed, t

(* Going on with one.                                                           *)
LEMMA PutFacts ==
  ASSUME NEW s, WellFormed(s), HeldAimed(s), s # <<>>,
         NEW f \in Frames, Shape(f), f.kind = s[1].kind, f.label = s[1].label,
         Aimed(s, f.held, Len(s) - 1)
  PROVE  LET t == <<f>> \o Tail(s)
         IN /\ WellFormed(t) /\ HeldAimed(t)
            /\ Len(t) = Len(s) /\ t[1] = f /\ t # <<>>
            /\ \A c : Aimed(s, c, Len(s)) => Aimed(t, c, Len(t))
  <1> DEFINE t == <<f>> \o Tail(s)
  <1>1. /\ t \in Seq(Frames) /\ Len(s) \in Nat \ {0} /\ Len(t) = Len(s)
        /\ t[1] = f
        /\ \A i \in 2 .. Len(s) : t[i] = s[i]
    BY DEF WellFormed
  <1>2. t # <<>>
    BY <1>1
  <1> HIDE DEF t
  <1>3. \A k \in 1 .. Len(s) - 1 : Outer(t, k) = Outer(s, k)
    BY <1>1 DEF Outer
  <1>4. Outer(t, Len(s)) = f /\ Outer(s, Len(s)) = s[1]
    BY <1>1 DEF Outer
  <1>5. Fits(f, Len(s))
    BY <1>1, <1>4 DEF WellFormed, Fits
  <1>6. WellFormed(t)
    <2>1. \A k \in 1 .. Len(t) : Shape(Outer(t, k)) /\ Fits(Outer(t, k), k)
      <3> TAKE k \in 1 .. Len(t)
      <3>1. CASE k = Len(s)
        BY <1>4, <1>5, <3>1
      <3>2. CASE k \in 1 .. Len(s) - 1
        BY <1>1, <1>3, <3>2 DEF WellFormed
      <3> QED BY <1>1, <3>1, <3>2
    <2> QED BY <1>1, <1>3, <2>1 DEF WellFormed
  <1>7. \A k \in 1 .. Len(s) : \A c : Matches(Outer(t, k), c) <=> Matches(Outer(s, k), c)
    <2> TAKE k \in 1 .. Len(s)
    <2> TAKE c
    <2>1. CASE k = Len(s)
      BY <1>4, <2>1 DEF Matches
    <2>2. CASE k \in 1 .. Len(s) - 1
      BY <1>3, <2>2
    <2> QED BY <1>1, <2>1, <2>2
  <1>8. ASSUME NEW c, NEW h \in 0 .. Len(s), Aimed(s, c, h)
        PROVE  Aimed(t, c, h)
    <2>1. \A k \in 1 .. h : Matches(Outer(t, k), c) <=> Matches(Outer(s, k), c)
      BY <1>1, <1>7
    <2> QED BY <1>8, <2>1 DEF Aimed
  <1>9. HeldAimed(t)
    <2> SUFFICES ASSUME NEW k \in 1 .. Len(t)
                 PROVE  Aimed(t, Outer(t, k).held, k - 1)
      BY DEF HeldAimed
    <2>1. Aimed(s, Outer(t, k).held, k - 1)
      <3>1. CASE k = Len(s)
        BY <1>4, <3>1
      <3>2. CASE k \in 1 .. Len(s) - 1
        BY <1>1, <1>3, <3>2 DEF HeldAimed
      <3> QED BY <1>1, <3>1, <3>2
    <2> QED BY <1>1, <1>8, <2>1
  <1> QED BY <1>1, <1>2, <1>6, <1>8, <1>9 DEF t

-----------------------------------------------------------------------------
(* Jumps. *)

LEMMA LeastOf ==
  ASSUME NEW S, S \subseteq Nat, S # {}
  PROVE  \E i \in S : \A j \in S : i <= j
  <1> DEFINE R == {ss \in Nat \X Nat : ss[1] < ss[2]}
  <1>1. IsWellFoundedOn(R, Nat)
    <2>1. R = OpToRel(<, Nat)
      BY Zenon DEF OpToRel
    <2> QED BY <2>1, NatLessThanWellFounded, Zenon
  <1> HIDE DEF R
  <1>2. \E i \in S : \A j \in S : ~(<<j, i>> \in R)
    BY <1>1, WFMin
  <1>3. \A i, j \in Nat : <<j, i>> \notin R => i <= j
    BY DEF R
  <1>4. PICK i \in S : \A j \in S : <<j, i>> \notin R
    BY <1>2
  <1> QED BY <1>3, <1>4

(* A break or continue that is made knows the statement it means.               *)
LEMMA HomeFacts ==
  ASSUME Inv, NEW type \in {"Break", "Continue"}, NEW label \in Labels \cup {None},
         Meant(type, label) # {}
  PROVE  LET c == Completion(type, label, Home(type, label))
         IN /\ c \in Completions
            /\ c.home # 0
            /\ Aimed(stack, c, Height)
  <1> DEFINE first == CHOOSE i \in Meant(type, label) :
                        \A j \in Meant(type, label) : i <= j
             c == Completion(type, label, Home(type, label))
  <1>1. stack \in Seq(Frames) /\ Height \in Nat /\ Height <= MaxDepth
    <2>1. stack \in Seq(Frames) /\ Height \in Nat
      BY DEF Inv, WellFormed, Height
    <2>2. CASE Height = 0
      BY <2>1, <2>2, DepthAssumption
    <2>3. CASE Height # 0
      BY <2>1, <2>3 DEF Inv, WellFormed, Fits, Height
    <2> QED BY <2>1, <2>2, <2>3
  <1>2. Meant(type, label) \subseteq 1 .. Height
    BY DEF Meant, Positions, Height
  <1>3. first \in 1 .. Height /\ \A j \in Meant(type, label) : first <= j
    <2>1. Meant(type, label) \subseteq Nat
      BY <1>1, <1>2
    <2>2. \E i \in Meant(type, label) : \A j \in Meant(type, label) : i <= j
      BY <2>1, LeastOf
    <2> QED BY <1>2, <2>2
  <1>4. first \in Meant(type, label)
    <2>1. Meant(type, label) \subseteq Nat
      BY <1>1, <1>2
    <2>2. \E i \in Meant(type, label) : \A j \in Meant(type, label) : i <= j
      BY <2>1, LeastOf
    <2> QED BY <2>2
  <1>5. c.type = type /\ c.label = label /\ c.home = Height + 1 - first
    BY DEF Completion, Home
  <1>6. \A i \in 1 .. Height : i \in Meant(type, label) <=> Matches(stack[i], c)
    BY <1>5 DEF Meant, Positions, Height, Matches
  <1> HIDE DEF first
  <1>7. c.home \in 1 .. Height /\ Outer(stack, c.home) = stack[first]
    BY <1>1, <1>3, <1>5 DEF Outer, Height
  <1>8. c \in Completions
    <2>1. c.home = Home(type, label)
      BY DEF Completion
    <2>2. Home(type, label) \in 0 .. MaxDepth
      BY <1>1, <1>7, <2>1, DepthAssumption
    <2> QED BY <2>2 DEF Completions, Completion, Abrupt
  <1>9. ASSUME NEW k \in c.home + 1 .. Height
        PROVE  ~Matches(Outer(stack, k), c)
    <2>1. Height + 1 - k \in 1 .. Height /\ Height + 1 - k < first
      BY <1>1, <1>3, <1>5, <1>7
    <2>2. Height + 1 - k \notin Meant(type, label)
      BY <1>1, <1>3, <2>1
    <2> QED BY <1>6, <2>1, <2>2 DEF Outer, Height
  <1>10. Matches(Outer(stack, c.home), c)
    BY <1>3, <1>4, <1>6, <1>7
  <1> HIDE DEF c
  <1>11. Aimed(stack, c, Height)
    BY <1>9, <1>10 DEF Aimed
  <1>12. c.home # 0
    BY <1>1, <1>7
  <1> QED BY <1>8, <1>11, <1>12 DEF c

(* Completions that are no jumps, and jumps that have lost their label, mean no  *)
(* statement.                                                                   *)
LEMMA PlainFacts ==
  ASSUME NEW type \in Abrupt \cup {"Run", "Normal", "Exception"}
  PROVE  /\ Plain(type) \in Completions /\ Plain(type).home = 0
         /\ Plain(type).type = type
         /\ \A s, h : Aimed(s, Plain(type), h)
         /\ \A l : Labelled(Plain(type), l)
  BY DepthAssumption DEF Plain, Completion, Completions, Aimed, Labelled

LEMMA NamedFacts ==
  /\ Run \in Completions /\ Normal \in Completions /\ Exception \in Completions
  /\ Run.type = "Run" /\ Normal.type = "Normal" /\ Exception.type = "Exception"
  /\ \A c \in {Run, Normal, Exception} :
       ~Jumps(c) /\ (\A s, h : Aimed(s, c, h)) /\ (\A l : Labelled(c, l))
  BY PlainFacts DEF Run, Normal, Exception, Jumps, Plain, Completion

LEMMA RecalledFacts ==
  ASSUME NEW c \in Completions, NEW label
  PROVE  /\ Recalled(c, label) \in Completions
         /\ Recalled(c, label).type = c.type
         /\ Recalled(c, label) = c \/ Recalled(c, label) = Plain(c.type)
         /\ Labelled(Recalled(c, label), label)
  <1>1. c.type \in Abrupt \cup {"Run", "Normal", "Exception"}
    BY DEF Completions
  <1>2. CASE Jumps(c) /\ c.label # label
    BY <1>1, <1>2, PlainFacts DEF Recalled
  <1>3. CASE ~(Jumps(c) /\ c.label # label)
    BY <1>3 DEF Recalled, Labelled
  <1> QED BY <1>2, <1>3

-----------------------------------------------------------------------------
(* Steps, by what they do to the stack. *)

LEMMA FrameFacts ==
  ASSUME scope \in Seq(Environments), NEW kind \in Kinds,
         NEW label \in Labels \cup {None}, NEW phase \in Phases
  PROVE  /\ Frame(kind, label, phase) \in Frames
         /\ Frame(kind, label, phase).kind = kind
         /\ Frame(kind, label, phase).phase = phase
         /\ Frame(kind, label, phase).label = label
         /\ Frame(kind, label, phase).held = Normal
         /\ Frame(kind, label, phase).iterator = "none"
  BY NamedFacts DEF Frame, Frames

LEMMA ListFacts ==
  ASSUME scope \in Seq(Environments)
  PROVE  /\ List \in Frames /\ List.kind = "list" /\ List.label = None
         /\ List.phase = "run" /\ List.held = Normal /\ List.iterator = "none" /\ Shape(List)
  <1>1. List = [kind |-> "list", label |-> None, phase |-> "run", held |-> Normal,
                scope |-> scope, catch |-> FALSE, finally |-> FALSE,
                iterator |-> "none"]
    BY DEF List, Frame
  <1>2. /\ List.kind = "list" /\ List.label = None /\ List.phase = "run"
        /\ List.held = Normal /\ List.iterator = "none"
    BY <1>1
  <1>3. "list" \in Kinds /\ "run" \in Phases /\ None \in Labels \cup {None}
    BY DEF Kinds, Lists, Phases
  <1>4. List \in Frames
    BY <1>1, <1>3, NamedFacts DEF Frames
  <1>5. Shape(List)
    BY <1>2 DEF Shape, Lists
  <1> QED BY <1>2, <1>4, <1>5

LEMMA TopFacts ==
  ASSUME Inv, stack # <<>>
  PROVE  /\ Top \in Frames /\ Shape(Top)
         /\ Height \in 1 .. MaxDepth
         /\ Top = Outer(stack, Height)
         /\ Fits(Top, Height)
         /\ Aimed(stack, Top.held, Height - 1)
  <1>1. stack \in Seq(Frames) /\ Height \in Nat \ {0}
    BY DEF Inv, WellFormed, Height
  <1>2. Top = Outer(stack, Height) /\ Top \in Frames
    BY <1>1 DEF Top, Outer, Height
  <1>3. Shape(Top) /\ Fits(Top, Height) /\ Aimed(stack, Top.held, Height - 1)
    BY <1>1, <1>2 DEF Inv, WellFormed, HeldAimed, Height
  <1> QED BY <1>1, <1>2, <1>3, DepthAssumption DEF Fits

(* The innermost statement is left.                                             *)
LEMMA Leaving ==
  ASSUME Inv, stack # <<>>, stack' = Tail(stack),
         reg' \in Completions, Labelled(reg', target'),
         \/ ~Jumps(reg') \/ reg'.home = 0
         \/ reg' = reg \/ reg' = Top.held,
         target' \in Labels \cup {None}, scope' \in Seq(Environments)
  PROVE  Inv' /\ Height' = Height - 1
  <1>1. WellFormed(stack) /\ HeldAimed(stack) /\ Aimed(stack, reg, Height)
    BY DEF Inv
  <1>2. /\ WellFormed(stack') /\ HeldAimed(stack') /\ Height' = Height - 1
        /\ \A c : Aimed(stack, c, Height) => Aimed(stack', c, Height')
        /\ Aimed(stack', Top.held, Height')
        /\ stack' # <<>> => Top'.phase \notin Active
    BY <1>1, PopFacts DEF Height, Top
  <1>3. Aimed(stack', reg', Height')
    <2>1. CASE ~Jumps(reg') \/ reg'.home = 0
      BY <2>1 DEF Aimed
    <2>2. CASE reg' = reg \/ reg' = Top.held
      BY <1>1, <1>2, <2>2
    <2> QED BY <2>1, <2>2
  <1> QED BY <1>2, <1>3 DEF Inv

(* A statement inside it begins.                                                *)
LEMMA Entering ==
  ASSUME Inv, stack # <<>> => Top.phase \notin Active,
         NEW f \in Frames, Shape(f), Fits(f, Height + 1), f.held = Normal,
         stack' = <<f>> \o stack, reg' = Run,
         target' \in Labels \cup {None}, scope' \in Seq(Environments)
  PROVE  Inv' /\ Height' = Height + 1
  <1>1. WellFormed(stack) /\ HeldAimed(stack)
    BY DEF Inv
  <1>2. WellFormed(stack') /\ HeldAimed(stack') /\ Height' = Height + 1
    BY <1>1, PushFacts DEF Height, Top
  <1> QED BY <1>2, NamedFacts DEF Inv

LEMMA OverFacts ==
  ASSUME Inv, stack # <<>>, NEW f \in Frames
  PROVE  Len(Over(f)) = Height /\ Over(f)[1] = f
  <1>1. stack \in Seq(Frames)
    BY DEF Inv, WellFormed
  <1> QED BY <1>1 DEF Over, Height

(* It goes on.                                                                  *)
LEMMA GoingOn ==
  ASSUME Inv, stack # <<>>,
         NEW f \in Frames, Shape(f), f.kind = Top.kind, f.label = Top.label,
         Aimed(stack, f.held, Height - 1),
         stack' = Over(f), reg' = Run,
         target' \in Labels \cup {None}, scope' \in Seq(Environments)
  PROVE  Inv' /\ Height' = Height /\ Top' = f
  <1>1. WellFormed(stack) /\ HeldAimed(stack)
    BY DEF Inv
  <1>2. /\ WellFormed(stack') /\ HeldAimed(stack') /\ Height' = Height /\ Top' = f
    BY <1>1, PutFacts DEF Height, Top, Over
  <1> QED BY <1>2, NamedFacts DEF Inv

LEMMA RoomInside ==
  ASSUME Inv, stack # <<>>, Top.kind \in {"try", "switch"}
  PROVE  /\ Height \in Nat \ {0}
         /\ \A g : g.kind \notin {"try", "switch"} => Fits(g, Height + 1)
  BY TopFacts, DepthAssumption DEF Fits

LEMMA SecondOn ==
  ASSUME NEW s \in Seq(Frames), Len(s) \in Nat \ {0}, NEW g \in Frames
  PROVE  /\ <<g>> \o s # <<>> /\ (<<g>> \o s)[1] = g
         /\ (<<g>> \o s)[2] = s[1]
  OBVIOUS

(* It goes on with the list of statements it contains.                          *)
LEMMA GoingInto ==
  ASSUME Inv, stack # <<>>,
         NEW f \in Frames, Shape(f), f.kind = Top.kind, f.label = Top.label,
         f.kind \in {"try", "switch"}, f.phase \notin Active,
         Aimed(stack, f.held, Height - 1),
         NEW g \in Frames, g.kind = "list", g.label = None, g.phase = "run", g.held = Normal,
         g.iterator = "none",
         stack' = <<g>> \o Over(f), reg' = Run,
         target' \in Labels \cup {None}, scope' \in Seq(Environments)
  PROVE  Inv' /\ Height' = Height + 1 /\ stack'[2] = f
  <1>1. WellFormed(stack) /\ HeldAimed(stack)
    BY DEF Inv
  <1>2. /\ WellFormed(Over(f)) /\ HeldAimed(Over(f)) /\ Len(Over(f)) = Height
        /\ Over(f)[1] = f /\ Over(f) # <<>>
    BY <1>1, PutFacts DEF Height, Top, Over
  <1>3. Fits(g, Height + 1) /\ Height \in Nat \ {0}
    <2>1. g.kind \notin {"try", "switch"}
      OBVIOUS
    <2> QED BY <2>1, RoomInside
  <1>4. Shape(g)
    BY DEF Shape, Lists
  <1> DEFINE o == Over(f)
  <1>5. /\ WellFormed(o) /\ HeldAimed(o) /\ Len(o) = Height /\ o[1] = f
        /\ stack' = <<g>> \o o
    BY <1>2
  <1>6. o \in Seq(Frames) /\ Height \in Nat \ {0}
    BY <1>3, <1>5 DEF WellFormed
  <1> HIDE DEF o
  <1>7. WellFormed(stack') /\ HeldAimed(stack') /\ Height' = Height + 1
    <2>1. o[1].phase \notin Active
      BY <1>5
    <2>2. /\ WellFormed(<<g>> \o o) /\ HeldAimed(<<g>> \o o)
          /\ Len(<<g>> \o o) = Len(o) + 1
      BY <1>3, <1>4, <1>5, <2>1, PushFacts
    <2> QED BY <1>5, <2>2 DEF Height
  <1>8. stack' # <<>> /\ stack'[1] = g /\ stack'[2] = f
    <2>1. Len(o) \in Nat \ {0} /\ o[1] = f
      BY <1>5, <1>6
    <2>2. <<g>> \o o # <<>> /\ (<<g>> \o o)[1] = g /\ (<<g>> \o o)[2] = o[1]
      BY <1>6, <2>1, SecondOn, Zenon
    <2> QED BY <1>5, <2>1, <2>2, Zenon
  <1>9. Top'.phase \notin Active
    BY <1>8 DEF Active, Top
  <1> QED BY <1>7, <1>8, <1>9, NamedFacts DEF Inv

(* It stays as it is: a statement without parts has been executed.              *)
LEMMA Executing ==
  ASSUME Inv, CanExecute, stack' = stack,
         reg' \in Completions, Labelled(reg', target'), Aimed(stack, reg', Height),
         target' \in Labels \cup {None}, scope' = scope
  PROVE  Inv'
  <1>1. stack # <<>> /\ Top.phase \notin Active
    <2>1. Shape(Top) /\ stack # <<>>
      BY TopFacts DEF CanExecute
    <2> QED BY <2>1 DEF CanExecute, Shape, Active, Lists, Loops
  <1>2. Height' = Height /\ Top' = Top
    BY DEF Height, Top
  <1> QED BY <1>1, <1>2 DEF Inv

-----------------------------------------------------------------------------
(* What several actions share. *)

LEMMA CanExecuteFacts ==
  ASSUME Inv, CanExecute
  PROVE  stack # <<>> /\ Top.phase \notin Active /\ reg = Run
  <1>1. Shape(Top) /\ stack # <<>>
    BY TopFacts DEF CanExecute
  <1> QED BY <1>1 DEF CanExecute, Shape, Active, Lists, Loops

LEMMA ScopeFacts ==
  ASSUME Inv
  PROVE  /\ scope \in Seq(Environments)
         /\ stack # <<>> => Top.scope \in Seq(Environments)
         /\ \A sc \in Seq(Environments), e \in Environments :
              Append(sc, e) \in Seq(Environments)
  <1>1. scope \in Seq(Environments)
    BY DEF Inv
  <1>2. stack # <<>> => Top.scope \in Seq(Environments)
    BY TopFacts DEF Frames
  <1>3. \A sc \in Seq(Environments), e \in Environments :
              Append(sc, e) \in Seq(Environments)
    OBVIOUS
  <1> QED BY <1>1, <1>2, <1>3

LEMMA Returning ==
  ASSUME Inv, stack # <<>>, NEW c \in Completions, Return(c), Labelled(c, target'),
         ~Jumps(c) \/ c.home = 0 \/ c = reg \/ c = Top.held,
         target' \in Labels \cup {None}
  PROVE  Inv' /\ Height' = Height - 1 /\ reg' = c
  <1>1. stack' = Tail(stack) /\ reg' = c
    BY DEF Return
  <1>2. scope' \in Seq(Environments)
    BY ScopeFacts DEF Return
  <1> QED BY <1>1, <1>2, Leaving

LEMMA Abandoning ==
  ASSUME Inv, stack # <<>>, Abandon, target' \in Labels \cup {None}
  PROVE  Inv' /\ Height' = Height - 1 /\ reg' = Exception
  <1>1. stack' = Tail(stack) /\ reg' = Exception
    BY DEF Abandon
  <1>2. scope' \in Seq(Environments)
    BY ScopeFacts DEF Abandon, Environments
  <1> QED BY <1>1, <1>2, Leaving, NamedFacts

(* The finalizer begins, holding what the block or the catch clause left.       *)
LEMMA Finalizing ==
  ASSUME Inv, stack # <<>>, Top.kind = "try", NEW sc \in Seq(Environments),
         FinalizeOrReturn(reg, sc)
  PROVE  /\ Inv'
         /\ Top.finally => Height' = Height + 1 /\ stack'[2].held = reg
         /\ ~Top.finally => Height' = Height - 1 /\ reg' = reg
  <1>1. reg \in Completions /\ Labelled(reg, target) /\ Aimed(stack, reg, Height)
        /\ target \in Labels \cup {None} /\ target' = target /\ scope' = sc
    BY DEF Inv, FinalizeOrReturn
  <1>2. CASE Top.finally
    <2> DEFINE f == [Top EXCEPT !.phase = "finally", !.held = reg]
               g == [List EXCEPT !.scope = sc]
    <2>1. Top \in Frames /\ Shape(Top) /\ Height \in Nat \ {0}
      BY TopFacts
    <2>2. f \in Frames /\ f.kind = "try" /\ f.label = Top.label /\ f.held = reg
          /\ f.phase = "finally" /\ f.iterator = Top.iterator
      BY <1>1, <2>1 DEF Frames, Phases
    <2>3. Shape(f)
      BY <2>1, <2>2 DEF Shape, Lists
    <2>4. List \in Frames /\ List.kind = "list" /\ List.label = None
          /\ List.phase = "run" /\ List.held = Normal /\ List.iterator = "none"
      BY ListFacts, ScopeFacts
    <2>5. g \in Frames /\ g.kind = "list" /\ g.label = None /\ g.phase = "run" /\ g.held = Normal
          /\ g.iterator = "none"
      BY <2>4 DEF Frames
    <2>6. stack' = <<g>> \o Over(f) /\ reg' = Run
      BY <1>2 DEF FinalizeOrReturn
    <2>7. Aimed(stack, f.held, Height - 1)
      BY <1>1, <2>1, <2>2 DEF Aimed
    <2> HIDE DEF f, g
    <2>8. f.phase \notin Active
      BY <2>2 DEF Active
    <2> QED BY <1>1, <1>2, <2>2, <2>3, <2>5, <2>6, <2>7, <2>8, GoingInto
  <1>3. CASE ~Top.finally
    BY <1>1, <1>3, Leaving DEF FinalizeOrReturn
  <1> QED BY <1>2, <1>3

-----------------------------------------------------------------------------
(* Every action keeps the invariant. *)

LEMMA InitInv == Init => Inv
  <1> SUFFICES ASSUME Init PROVE Inv
    OBVIOUS
  <1>1. scope = <<>> /\ stack = <<List>> /\ reg = Run /\ target \in Labels \cup {None}
    BY DEF Init
  <1>2. /\ List.kind = "list" /\ List.phase = "run" /\ List.held = Normal
        /\ List.iterator = "none" /\ List \in Frames /\ Shape(List)
    BY <1>1, ListFacts
  <1> HIDE DEF List
  <1>3. Len(stack) = 1 /\ stack[1] = List /\ Outer(stack, 1) = List
    BY <1>1 DEF Outer
  <1>4. stack \in Seq(Frames)
    BY <1>1, <1>2
  <1>5. Fits(List, 1)
    BY <1>2, DepthAssumption DEF Fits
  <1>6. WellFormed(stack)
    BY <1>2, <1>3, <1>4, <1>5 DEF WellFormed
  <1>7. HeldAimed(stack)
    <2>1. Aimed(stack, Normal, 0)
      BY NamedFacts
    <2> QED BY <1>2, <1>3, <2>1 DEF HeldAimed
  <1>8. Aimed(stack, reg, Height) /\ Labelled(reg, target) /\ reg \in Completions
    BY <1>1, NamedFacts
  <1>9. scope \in Seq(Environments)
    BY <1>1
  <1> QED BY <1>1, <1>2, <1>3, <1>6, <1>7, <1>8, <1>9 DEF Inv, Top, Active

LEMMA SimpleInv ==
  ASSUME Inv,
         \/ Expression
         \/ \E type \in {"Return", "Throw"} : Leave(type)
         \/ \E type \in {"Break", "Continue"}, l \in Labels \cup {None} : Jump(type, l)
  PROVE  Inv' /\ CanExecute /\ stack' = stack
  <1>1. CASE Expression
    <2>1. CanExecute /\ stack' = stack /\ scope' = scope /\ RunsCode
          /\ reg' \in {Normal, Exception}
      BY <1>1 DEF Expression
    <2> QED BY <2>1, Executing, NamedFacts DEF RunsCode
  <1>2. ASSUME NEW type \in {"Return", "Throw"}, Leave(type)
        PROVE  Inv' /\ CanExecute /\ stack' = stack
    <2>1. CanExecute /\ stack' = stack /\ scope' = scope /\ reg' = Plain(type)
      BY <1>2 DEF Leave
    <2>2. target' \in Labels \cup {None}
      BY <1>2 DEF Leave, RunsCode
    <2>3. type \in Abrupt \cup {"Run", "Normal", "Exception"}
      BY DEF Abrupt
    <2> QED BY <2>1, <2>2, <2>3, Executing, PlainFacts
  <1>3. ASSUME NEW type \in {"Break", "Continue"}, NEW l \in Labels \cup {None},
               Jump(type, l)
        PROVE  Inv' /\ CanExecute /\ stack' = stack
    <2> DEFINE c == Completion(type, l, Home(type, l))
    <2>1. CanExecute /\ stack' = stack /\ scope' = scope /\ target' = l /\ reg' = c
          /\ Meant(type, l) # {}
      BY <1>3 DEF Jump
    <2>2. c \in Completions /\ Aimed(stack, c, Height)
      BY <2>1, HomeFacts
    <2>3. c.label = l
      BY DEF Completion
    <2> HIDE DEF c
    <2> QED BY <2>1, <2>2, <2>3, Executing DEF Labelled
  <1> QED BY <1>1, <1>2, <1>3

(* A statement with a frame of its own begins.                                  *)
LEMMA Beginning ==
  ASSUME Inv, CanExecute, NEW kind \in Kinds, NEW label \in Labels \cup {None},
         NEW phase \in Phases, Shape(Frame(kind, label, phase)),
         Room(1), kind \in {"try", "switch"} => Room(2),
         Enter(Frame(kind, label, phase)),
         target' \in Labels \cup {None}, scope' \in Seq(Environments)
  PROVE  Inv' /\ Height' = Height + 1
  <1> DEFINE f == Frame(kind, label, phase)
  <1>1. f \in Frames /\ f.kind = kind /\ f.held = Normal
    BY FrameFacts, ScopeFacts
  <1>2. stack' = <<f>> \o stack /\ reg' = Run
    BY DEF Enter
  <1>3. stack # <<>> /\ Top.phase \notin Active /\ Height \in Nat
    BY CanExecuteFacts, TopFacts
  <1> HIDE DEF f
  <1>4. Fits(f, Height + 1)
    BY <1>1, <1>3, DepthAssumption DEF Fits, Room, Height
  <1> QED BY <1>1, <1>2, <1>3, <1>4, Entering DEF f

(* A statement of this kind may begin in this phase.                            *)
LEMMA BeginningShapes ==
  ASSUME Inv, NEW kind \in Kinds, NEW label \in Labels \cup {None}, NEW phase \in Phases,
         \/ kind \in Lists /\ phase = "run" /\ label = None
         \/ kind = "labeled" /\ phase = "body" /\ label # None
         \/ kind \in {"while", "for"} /\ phase \in {"test", "body"}
         \/ kind = "forOf" /\ phase = "head"
         \/ kind = "switch" /\ phase = "select"
  PROVE  Shape(Frame(kind, label, phase))
  <1> DEFINE f == Frame(kind, label, phase)
  <1>1. f.kind = kind /\ f.phase = phase /\ f.label = label /\ f.held = Normal
        /\ f.iterator = "none"
    BY DEF Frame
  <1> HIDE DEF f
  <1>2. Shape(f)
    BY <1>1 DEF Shape, Lists
  <1> QED BY <1>2 DEF f

LEMMA StartTryInv ==
  ASSUME Inv, NEW catch \in BOOLEAN, NEW finally \in BOOLEAN, StartTry(catch, finally)
  PROVE  Inv' /\ Height' = Height + 2
  <1> DEFINE b == Frame("try", None, "block")
             t == [b EXCEPT !.catch = catch, !.finally = finally]
  <1>1. b \in Frames /\ b.kind = "try" /\ b.label = None /\ b.phase = "block" /\ b.held = Normal
        /\ b.iterator = "none"
    BY FrameFacts, ScopeFacts DEF Kinds, Phases
  <1>2. t \in Frames /\ t.kind = "try" /\ t.label = None /\ t.phase = "block" /\ t.held = Normal
        /\ t.iterator = "none"
    BY <1>1 DEF Frames
  <1>3. Shape(t)
    BY <1>2 DEF Shape, Lists
  <1>4. List \in Frames /\ List.kind = "list" /\ List.held = Normal /\ Shape(List)
    BY ListFacts, ScopeFacts
  <1>5. CanExecute /\ Room(2) /\ stack' = <<List, t>> \o stack /\ reg' = Run
        /\ target' = None /\ scope' = scope
    BY DEF StartTry, PrepareFor
  <1>6. stack # <<>> /\ Top.phase \notin Active /\ Height \in Nat
    BY <1>5, CanExecuteFacts, TopFacts
  <1> HIDE DEF t, b
  <1>7. Fits(t, Height + 1) /\ Fits(List, Height + 2)
    BY <1>2, <1>4, <1>5, <1>6, DepthAssumption DEF Fits, Room, Height
  <1>8. WellFormed(stack) /\ HeldAimed(stack) /\ stack \in Seq(Frames)
    BY DEF Inv, WellFormed
  <1> DEFINE s == <<t>> \o stack
  <1>9. WellFormed(s) /\ HeldAimed(s) /\ Len(s) = Height + 1 /\ s[1] = t
    BY <1>2, <1>3, <1>6, <1>7, <1>8, PushFacts DEF Height, Top
  <1>10. stack' = <<List>> \o s
    BY <1>2, <1>4, <1>5, <1>8
  <1> HIDE DEF s
  <1>11. t.phase \notin Active /\ Len(s) + 1 = Height + 2
    BY <1>2, <1>6, <1>9 DEF Active
  <1>12. WellFormed(stack') /\ HeldAimed(stack') /\ Height' = Height + 2
         /\ stack'[1] = List
    BY <1>4, <1>7, <1>9, <1>10, <1>11, PushFacts DEF Height
  <1> QED BY <1>5, <1>12, NamedFacts, ScopeFacts DEF Inv

LEMMA StartInv ==
  ASSUME Inv,
         \/ StartBlock
         \/ \E l \in Labels : StartLabeled(l)
         \/ \E l \in Labels \cup {None} :
              \/ \E phase \in {"test", "body"} : StartWhile(l, phase)
              \/ StartFor(l) \/ StartForOf(l) \/ StartSwitch(l)
  PROVE  Inv' /\ Height' = Height + 1 /\ CanExecute
  <1>1. \A e \in {"block", "loop", "tdz"} : Append(scope, e) \in Seq(Environments)
    BY ScopeFacts DEF Environments
  <1>2. target \in Labels \cup {None} /\ scope \in Seq(Environments)
    BY DEF Inv
  <1>3. CASE StartBlock
    <2>1. "block" \in Kinds /\ "block" \in Lists /\ "run" \in Phases
      BY DEF Kinds, Lists, Phases
    <2>2. Shape(Frame("block", None, "run"))
      BY <2>1, BeginningShapes
    <2> QED BY <1>1, <1>2, <1>3, <2>1, <2>2, Beginning DEF StartBlock
  <1>4. ASSUME NEW l \in Labels, StartLabeled(l)
        PROVE  Inv' /\ Height' = Height + 1 /\ CanExecute
    <2>1. "labeled" \in Kinds /\ "body" \in Phases /\ l # None
      BY <1>4 DEF Kinds, Phases, StartLabeled
    <2>2. Shape(Frame("labeled", l, "body"))
      BY <2>1, BeginningShapes
    <2> QED BY <1>2, <1>4, <2>1, <2>2, Beginning DEF StartLabeled, PrepareFor
  <1>5. ASSUME NEW l \in Labels \cup {None}, NEW phase \in {"test", "body"},
               StartWhile(l, phase)
        PROVE  Inv' /\ Height' = Height + 1 /\ CanExecute
    <2>1. "while" \in Kinds /\ phase \in Phases
      BY DEF Kinds, Loops, Phases
    <2>2. Shape(Frame("while", l, phase))
      BY <2>1, BeginningShapes
    <2> QED BY <1>2, <1>5, <2>1, <2>2, Beginning DEF StartWhile, PrepareFor
  <1>6. ASSUME NEW l \in Labels \cup {None}, StartFor(l)
        PROVE  Inv' /\ Height' = Height + 1 /\ CanExecute
    <2>1. "for" \in Kinds /\ "test" \in Phases
      BY DEF Kinds, Loops, Phases
    <2>2. Shape(Frame("for", l, "test"))
      BY <2>1, BeginningShapes
    <2> QED BY <1>1, <1>6, <2>1, <2>2, Beginning DEF StartFor, RunsCode
  <1>7. ASSUME NEW l \in Labels \cup {None}, StartForOf(l)
        PROVE  Inv' /\ Height' = Height + 1 /\ CanExecute
    <2>1. "forOf" \in Kinds /\ "head" \in Phases
      BY DEF Kinds, Loops, Phases
    <2>2. Shape(Frame("forOf", l, "head"))
      BY <2>1, BeginningShapes
    <2> QED BY <1>1, <1>7, <2>1, <2>2, Beginning DEF StartForOf, PrepareFor
  <1>8. ASSUME NEW l \in Labels \cup {None}, StartSwitch(l)
        PROVE  Inv' /\ Height' = Height + 1 /\ CanExecute
    <2>1. "switch" \in Kinds /\ "select" \in Phases
      BY DEF Kinds, Phases
    <2>2. Shape(Frame("switch", l, "select"))
      BY <2>1, BeginningShapes
    <2>3. CanExecute /\ Room(2) /\ Room(1)
      BY <1>8, CanExecuteFacts, TopFacts, DepthAssumption DEF StartSwitch, Room, Height
    <2> QED BY <1>1, <1>8, <2>1, <2>2, <2>3, Beginning DEF StartSwitch, RunsCode
  <1> QED BY <1>3, <1>4, <1>5, <1>6, <1>7, <1>8

LEMMA ListInv ==
  ASSUME Inv, ListGoesOn \/ ListEnds
  PROVE  Inv'
  <1>1. CASE ListGoesOn
    <2>1. stack # <<>> /\ stack' = stack /\ reg' = Run /\ target' = target /\ scope' = scope
      BY <1>1 DEF ListGoesOn
    <2>2. Height' = Height /\ Top' = Top
      BY <2>1 DEF Height, Top
    <2> QED BY <2>1, <2>2, NamedFacts DEF Inv
  <1>2. CASE ListEnds
    <2> DEFINE c == CASE reg = Run -> Normal [] reg = Exception -> Plain("Throw") [] OTHER -> reg
    <2>1. Return(c) /\ stack # <<>> /\ target' = target
      BY <1>2 DEF ListEnds
    <2>2. c = Normal \/ c = Plain("Throw") \/ c = reg
      OBVIOUS
    <2>3. reg \in Completions /\ Labelled(reg, target) /\ target \in Labels \cup {None}
      BY DEF Inv
    <2>4. /\ Plain("Throw") \in Completions /\ Plain("Throw").home = 0
          /\ Labelled(Plain("Throw"), target)
      BY PlainFacts DEF Abrupt
    <2> HIDE DEF c
    <2>5. c \in Completions /\ Labelled(c, target')
          /\ (~Jumps(c) \/ c.home = 0 \/ c = reg)
      BY <2>1, <2>2, <2>3, <2>4, NamedFacts
    <2> QED BY <2>1, <2>3, <2>5, Returning
  <1> QED BY <1>1, <1>2

LEMMA RegFacts ==
  ASSUME Inv
  PROVE  reg \in Completions /\ Labelled(reg, target) /\ target \in Labels \cup {None}
  BY DEF Inv

LEMMA CatchInv ==
  ASSUME Inv, Catch
  PROVE  Inv' /\ Height' = Height + 1
  <1> DEFINE f == [Top EXCEPT !.phase = "catch", !.scope = scope]
             g == [List EXCEPT !.scope = scope']
  <1>1. stack # <<>> /\ Top.kind = "try" /\ Top.phase = "block"
        /\ target' \in Labels \cup {None}
        /\ reg' = Run
    BY DEF Catch, Is, RunsCode
  <1>2. scope' \in Seq(Environments) /\ scope \in Seq(Environments)
    BY ScopeFacts DEF Catch, Environments
  <1>3. Top \in Frames /\ Shape(Top) /\ Aimed(stack, Top.held, Height - 1)
    BY <1>1, TopFacts
  <1>4. f \in Frames /\ f.kind = "try" /\ f.label = Top.label /\ f.held = Top.held
        /\ f.phase = "catch" /\ f.iterator = Top.iterator
    BY <1>1, <1>2, <1>3 DEF Frames, Phases
  <1>5. Shape(f)
    BY <1>1, <1>3, <1>4 DEF Shape, Lists
  <1>6. List \in Frames /\ List.kind = "list" /\ List.label = None
        /\ List.phase = "run" /\ List.held = Normal /\ List.iterator = "none"
    BY ListFacts, ScopeFacts
  <1>7. g \in Frames /\ g.kind = "list" /\ g.label = None /\ g.phase = "run" /\ g.held = Normal
        /\ g.iterator = "none"
    BY <1>2, <1>6 DEF Frames
  <1>8. stack' = <<g>> \o Over(f)
    BY DEF Catch
  <1> HIDE DEF f, g
  <1>9. f.phase \notin Active
    BY <1>4 DEF Active
  <1> QED BY <1>1, <1>2, <1>3, <1>4, <1>5, <1>7, <1>8, <1>9, GoingInto

LEMMA TryInv ==
  ASSUME Inv, BlockEnds \/ Catch \/ CatchFails \/ CatchEnds \/ FinallyEnds
  PROVE  Inv'
  <1>1. CASE BlockEnds
    BY <1>1, Finalizing, ScopeFacts DEF BlockEnds, Is
  <1>2. CASE CatchEnds
    BY <1>2, Finalizing, ScopeFacts DEF CatchEnds, Is
  <1>3. CASE CatchFails
    BY <1>3, Abandoning DEF CatchFails, Is, RunsCode
  <1>4. CASE FinallyEnds
    <2>1. stack # <<>> /\ target' = target
      BY <1>4 DEF FinallyEnds, Is
    <2>2. Top.held \in Completions
      BY <2>1, TopFacts DEF Frames
    <2>3. CASE reg = Normal
      <3> DEFINE c == Recalled(Top.held, target)
      <3>1. c \in Completions /\ Labelled(c, target') /\ (c = Top.held \/ c = Plain(Top.held.type))
        BY <2>1, <2>2, RecalledFacts
      <3>2. Return(c)
        BY <1>4, <2>3 DEF FinallyEnds
      <3>3. Plain(Top.held.type).home = 0
        BY DEF Plain, Completion
      <3> HIDE DEF c
      <3> QED BY <2>1, <3>1, <3>2, <3>3, Returning, RegFacts
    <2>4. CASE reg # Normal
      BY <1>4, <2>1, <2>4, Returning, RegFacts DEF FinallyEnds
    <2> QED BY <2>3, <2>4
  <1>5. CASE Catch
    BY <1>5, CatchInv
  <1> QED BY <1>1, <1>2, <1>3, <1>4, <1>5

(* A statement takes what it is given, or hands it on.                          *)
LEMMA HandingOn ==
  ASSUME Inv, stack # <<>>, target' = target, Return(Normal) \/ Return(reg)
  PROVE  Inv' /\ Height' = Height - 1
  <1>1. CASE Return(Normal)
    BY <1>1, Returning, NamedFacts, RegFacts
  <1>2. CASE Return(reg)
    BY <1>2, Returning, RegFacts
  <1> QED BY <1>1, <1>2

(* A statement changes its phase, and nothing else about it.                    *)
LEMMA Phasing ==
  ASSUME Inv, stack # <<>>, NEW phase \in Phases,
         Top.held = Normal,
         Shape([Top EXCEPT !.phase = phase]),
         stack' = At(phase), reg' = Run, target' \in Labels \cup {None},
         scope' \in Seq(Environments)
  PROVE  Inv' /\ Height' = Height /\ Top' = [Top EXCEPT !.phase = phase]
  <1> DEFINE f == [Top EXCEPT !.phase = phase]
  <1>1. Top \in Frames /\ Aimed(stack, Top.held, Height - 1)
    BY TopFacts
  <1>2. f \in Frames /\ f.kind = Top.kind /\ f.label = Top.label /\ f.held = Top.held
    BY <1>1 DEF Frames
  <1>3. stack' = Over(f) /\ Shape(f)
    BY DEF At
  <1> HIDE DEF f
  <1>4. Inv' /\ Height' = Height /\ Top' = f
    BY <1>1, <1>2, <1>3, GoingOn
  <1> QED BY <1>4 DEF f

LEMMA LabeledAndSwitchInv ==
  ASSUME Inv, LabeledEnds \/ SelectClause \/ SelectThrows \/ SelectEnds \/ ClauseEnds
  PROVE  Inv'
  <1>1. CASE LabeledEnds
    BY <1>1, HandingOn DEF LabeledEnds, Is
  <1>2. CASE SelectClause
    <2> DEFINE f == [Top EXCEPT !.phase = "clause"]
    <2>1. stack # <<>> /\ Top.kind = "switch" /\ Top.phase = "select"
          /\ target' \in Labels \cup {None} /\ scope' = scope /\ reg' = Run
          /\ stack' = <<List>> \o Over(f)
      BY <1>2 DEF SelectClause, Is, RunsCode, At
    <2>2. Top \in Frames /\ Shape(Top) /\ Aimed(stack, Top.held, Height - 1)
      BY <2>1, TopFacts
    <2>3. f \in Frames /\ f.kind = "switch" /\ f.label = Top.label /\ f.held = Top.held
          /\ f.phase = "clause" /\ f.iterator = Top.iterator
      BY <2>1, <2>2 DEF Frames, Phases
    <2>4. Shape(f)
      BY <2>1, <2>2, <2>3 DEF Shape, Lists
    <2> HIDE DEF f
    <2>5. f.phase \notin Active
      BY <2>3 DEF Active
    <2> QED BY <2>1, <2>2, <2>3, <2>4, <2>5, GoingInto, ListFacts, ScopeFacts
  <1>3. CASE SelectThrows
    BY <1>3, Abandoning DEF SelectThrows, Is, RunsCode
  <1>4. CASE SelectEnds
    BY <1>4, Returning, NamedFacts DEF SelectEnds, Is, RunsCode
  <1>5. CASE ClauseEnds
    <2>1. stack # <<>> /\ Top.kind = "switch" /\ Top.phase = "clause" /\ target' = target
      BY <1>5 DEF ClauseEnds, Is
    <2>2. CASE reg = Normal
      <3>1. Top \in Frames /\ Shape(Top)
        BY <2>1, TopFacts
      <3>2. Top.held = Normal
        BY <2>1, <3>1 DEF Shape
      <3>3. Shape([Top EXCEPT !.phase = "select"])
        BY <2>1, <3>1 DEF Shape, Frames, Lists
      <3>4. "select" \in Phases
        BY DEF Phases
      <3> QED BY <1>5, <2>1, <2>2, <3>2, <3>3, <3>4, Phasing, RegFacts, ScopeFacts
          DEF ClauseEnds
    <2>3. CASE reg # Normal
      BY <1>5, <2>1, <2>3, HandingOn DEF ClauseEnds
    <2> QED BY <2>2, <2>3
  <1> QED BY <1>1, <1>2, <1>3, <1>4, <1>5

LEMMA LoopInv ==
  ASSUME Inv, TestHolds \/ TestEnds \/ BodyEnds
  PROVE  Inv'
  <1>1. stack # <<>> /\ Top.kind \in {"while", "for"} /\ Top \in Frames /\ Shape(Top)
        /\ Top.phase \in {"test", "body"}
    BY TopFacts DEF TestHolds, TestEnds, BodyEnds, Counting
  <1>2. Top.held = Normal /\ (\A phase \in {"test", "body"} :
           phase \in Phases /\ Shape([Top EXCEPT !.phase = phase]))
    BY <1>1 DEF Shape, Frames, Lists, Phases
  <1>3. CASE TestHolds
    BY <1>1, <1>2, <1>3, Phasing, ScopeFacts DEF TestHolds, RunsCode
  <1>4. CASE TestEnds
    BY <1>1, <1>4, Returning, NamedFacts DEF TestEnds, RunsCode
  <1>5. CASE BodyEnds
    <2>1. CASE reg = Normal \/ TakesContinue
      BY <1>1, <1>2, <1>5, <2>1, Phasing, ScopeFacts, RegFacts DEF BodyEnds
    <2>2. CASE ~(reg = Normal \/ TakesContinue)
      BY <1>1, <1>5, <2>2, HandingOn DEF BodyEnds
    <2> QED BY <2>1, <2>2
  <1> QED BY <1>3, <1>4, <1>5

(* The loop closes its iterator, holding what it ends with.                     *)
LEMMA Closing ==
  ASSUME Inv, stack # <<>>, Top.kind = "forOf", NEW c \in Completions,
         NEW it \in {"open", "ended", "broken"},
         Aimed(stack, c, Height - 1), ToClose(c, it), target' \in Labels \cup {None}
  PROVE  Inv' /\ Height' = Height /\ Top'.phase = "closing" /\ Top'.held = c
  <1> DEFINE f == [Top EXCEPT !.phase = "closing", !.held = c, !.iterator = it]
  <1>1. Top \in Frames /\ Shape(Top) /\ Top.scope \in Seq(Environments)
    BY TopFacts, ScopeFacts
  <1>2. f \in Frames /\ f.kind = "forOf" /\ f.label = Top.label /\ f.held = c
        /\ f.phase = "closing"
    BY <1>1 DEF Frames, Phases
  <1>3. Shape(f)
    BY <1>2 DEF Shape, Lists
  <1>4. stack' = Over(f) /\ reg' = Run /\ scope' \in Seq(Environments)
    BY <1>1 DEF ToClose
  <1> HIDE DEF f
  <1>5. Inv' /\ Height' = Height /\ Top' = f
    BY <1>2, <1>3, <1>4, GoingOn
  <1> QED BY <1>2, <1>5

LEMMA AimedLower ==
  ASSUME Inv, stack # <<>>, NEW c, Aimed(stack, c, Height)
  PROVE  Aimed(stack, c, Height - 1)
  <1>1. Height \in Nat \ {0}
    BY TopFacts
  <1> QED BY <1>1 DEF Aimed

LEMMA ForOfInv ==
  ASSUME Inv,
         \/ HeadThrows \/ HeadEnds
         \/ IteratorGives \/ IteratorEnds \/ IteratorThrows \/ BindingThrows
         \/ RoundEnds \/ Closed \/ CloseThrows
  PROVE  Inv'
  <1>1. stack # <<>> /\ Top.kind = "forOf" /\ Top \in Frames /\ Shape(Top)
        /\ Top.scope \in Seq(Environments)
    BY TopFacts, ScopeFacts DEF HeadThrows, HeadEnds, IteratorGives, IteratorEnds,
       IteratorThrows, BindingThrows, RoundEnds, Closed, CloseThrows, Is
  <1>2. \A c \in {Normal, Exception, reg} :
          c \in Completions /\ Aimed(stack, c, Height - 1)
    BY <1>1, RegFacts, NamedFacts, AimedLower DEF Inv
  <1>3. Top.held \in Completions
    BY <1>1 DEF Frames
  <1>4. CASE HeadThrows
    BY <1>1, <1>4, Abandoning DEF HeadThrows, RunsCode
  <1>5. CASE HeadEnds
    <2>1. Top.phase = "head" /\ stack' = At("next") /\ scope' = Top.scope
          /\ target' \in Labels \cup {None} /\ reg' = reg
      BY <1>5 DEF HeadEnds, Is, RunsCode
    <2>2. reg = Run
      BY <1>1, <2>1 DEF Inv, Active
    <2>3. Top.held = Normal /\ "next" \in Phases
      BY <1>1, <2>1 DEF Shape, Phases
    <2>4. Shape([Top EXCEPT !.phase = "next"])
      BY <1>1, <2>1 DEF Shape, Frames, Lists
    <2> QED BY <1>1, <2>1, <2>2, <2>3, <2>4, Phasing
  <1>6. CASE IteratorGives
    <2> DEFINE f == [Top EXCEPT !.phase = "body", !.iterator = "open"]
    <2>1. Top.phase = "next" /\ reg' = Run /\ target' \in Labels \cup {None} /\ stack' = Over(f)
      BY <1>6 DEF IteratorGives, Is, RunsCode
    <2>2. scope' \in Seq(Environments)
      BY <1>1, <1>6, ScopeFacts DEF IteratorGives, Environments
    <2>3. f \in Frames /\ f.kind = "forOf" /\ f.label = Top.label /\ f.held = Top.held
          /\ f.phase = "body" /\ Top.held = Normal
      BY <1>1, <2>1 DEF Frames, Phases, Shape
    <2>4. Shape(f)
      BY <2>3 DEF Shape, Lists
    <2> HIDE DEF f
    <2> QED BY <1>1, <1>2, <2>1, <2>2, <2>3, <2>4, GoingOn
  <1>7. CASE IteratorEnds
    BY <1>1, <1>2, <1>7, Closing DEF IteratorEnds, RunsCode
  <1>8. CASE IteratorThrows
    <2>1. target' \in Labels \cup {None}
      BY <1>8 DEF IteratorThrows, RunsCode
    <2>2. CASE Top.iterator = "open"
      BY <1>1, <1>2, <1>8, <2>1, <2>2, Closing DEF IteratorThrows
    <2>3. CASE Top.iterator # "open"
      BY <1>1, <1>8, <2>1, <2>3, Returning, NamedFacts DEF IteratorThrows
    <2> QED BY <2>2, <2>3
  <1>9. CASE BindingThrows
    BY <1>1, <1>2, <1>9, Closing DEF BindingThrows, RunsCode
  <1>10. CASE RoundEnds
    <2>1. Top.phase = "body" /\ target' = target
      BY <1>10 DEF RoundEnds, Is
    <2>2. CASE reg = Normal \/ TakesContinue
      <3>1. stack' = At("next") /\ reg' = Run /\ scope' = Top.scope
        BY <1>10, <2>2 DEF RoundEnds
      <3>2. Top.held = Normal /\ "next" \in Phases /\ Top.iterator = "open"
        BY <1>1, <2>1 DEF Shape, Phases
      <3>3. Shape([Top EXCEPT !.phase = "next"])
        BY <1>1, <2>1, <3>2 DEF Shape, Frames, Lists
      <3> QED BY <1>1, <2>1, <3>1, <3>2, <3>3, Phasing, RegFacts
    <2>3. CASE ~(reg = Normal \/ TakesContinue)
      <3>1. ToClose(Normal, "open") \/ ToClose(reg, "open")
        BY <1>10, <2>3 DEF RoundEnds
      <3> QED BY <1>1, <1>2, <2>1, <3>1, Closing, RegFacts
    <2> QED BY <2>2, <2>3
  <1>11. CASE Closed
    <2> DEFINE c == Recalled(Top.held, target')
    <2>1. target' \in Labels \cup {None} /\ Return(c)
      BY <1>11, RegFacts DEF Closed, RunsCode
    <2>2. c \in Completions /\ Labelled(c, target')
          /\ (c = Top.held \/ c = Plain(Top.held.type))
      BY <1>3, RecalledFacts
    <2>3. Plain(Top.held.type).home = 0
      BY DEF Plain, Completion
    <2> HIDE DEF c
    <2> QED BY <1>1, <2>1, <2>2, <2>3, Returning
  <1>12. CASE CloseThrows
    <2>1. target' \in Labels \cup {None}
      BY <1>12 DEF CloseThrows, RunsCode
    <2>2. CASE Top.held.type \in {"Throw", "Exception"}
      <3>1. ~Jumps(Top.held) /\ Labelled(Top.held, target')
        BY <2>2 DEF Jumps, Labelled
      <3> QED BY <1>1, <1>3, <1>12, <2>1, <2>2, <3>1, Returning DEF CloseThrows
    <2>3. CASE Top.held.type \notin {"Throw", "Exception"}
      BY <1>1, <1>12, <2>1, <2>3, Returning, NamedFacts DEF CloseThrows
    <2> QED BY <2>2, <2>3
  <1> QED
    BY <1>4, <1>5, <1>6, <1>7, <1>8, <1>9, <1>10, <1>11, <1>12

LEMMA NextInv == Inv /\ [Next]_vars => Inv'
  <1> SUFFICES ASSUME Inv, [Next]_vars PROVE Inv'
    OBVIOUS
  <1>1. CASE UNCHANGED vars
    BY <1>1 DEF vars, Inv, Height, Top
  <1>2. CASE Next
    BY <1>2, SimpleInv, StartInv, StartTryInv, ListInv, TryInv, LabeledAndSwitchInv,
       LoopInv, ForOfInv DEF Next
  <1> QED BY <1>1, <1>2

LEMMA InvHolds == Spec => []Inv
  BY InitInv, NextInv, PTL DEF Spec

-----------------------------------------------------------------------------
(* What the invariant says of the properties. *)

(* Every variable keeps its type, and the stack its bound, for any labels and   *)
(* any MaxDepth.                                                                *)
THEOREM CompletionTypes == Spec => []TypeOK
  <1>1. Inv => TypeOK
    <2> SUFFICES ASSUME Inv PROVE TypeOK
      OBVIOUS
    <2>1. stack \in Seq(Frames) /\ Height \in Nat
      BY DEF Inv, WellFormed, Height
    <2>2. Height <= MaxDepth
      <3>1. CASE Height = 0
        BY <3>1, DepthAssumption
      <3>2. CASE Height # 0
        BY <2>1, <3>2 DEF Inv, WellFormed, Fits, Height
      <3> QED BY <3>1, <3>2
    <2>3. ASSUME NEW i \in Positions
          PROVE  stack[i] \in Frames /\ Shape(stack[i])
      <3>1. i \in 1 .. Height /\ Height + 1 - i \in 1 .. Height
        BY <2>1 DEF Positions, Height
      <3>2. Outer(stack, Height + 1 - i) = stack[i]
        BY <2>1, <3>1 DEF Outer, Height
      <3> QED BY <2>1, <3>1, <3>2 DEF Inv, WellFormed, Height
    <2>4. ASSUME NEW i \in Positions
          PROVE  /\ stack[i].kind \in Loops \cup Lists \cup {"try", "labeled", "switch"}
                 /\ stack[i].label \in Labels \cup {None}
                 /\ stack[i].held \in Completions
                 /\ stack[i].held # Normal => stack[i].phase \in {"finally", "closing"}
                 /\ stack[i].scope \in Seq(Environments)
                 /\ stack[i].iterator # "none" => stack[i].kind = "forOf"
      BY <2>3 DEF Frames, Kinds, Shape
    <2> QED BY <2>2, <2>4 DEF TypeOK, Inv
  <1> QED BY <1>1, InvHolds, PTL

(* Only the actions of try statements concern one that is on top.               *)
LEMMA TryActions ==
  ASSUME stack # <<>>, Top.kind = "try", Next
  PROVE  BlockEnds \/ Catch \/ CatchFails \/ CatchEnds \/ FinallyEnds
  <1>1. ~CanExecute
    BY DEF CanExecute, Lists, Loops
  <1>2. ~ListGoesOn /\ ~ListEnds
    BY DEF ListGoesOn, ListEnds, Lists
  <1>3. ~LabeledEnds /\ ~SelectClause /\ ~SelectThrows /\ ~SelectEnds /\ ~ClauseEnds
    BY DEF LabeledEnds, SelectClause, SelectThrows, SelectEnds, ClauseEnds, Is
  <1>4. ~TestHolds /\ ~TestEnds /\ ~BodyEnds
    BY DEF TestHolds, TestEnds, BodyEnds, Counting
  <1>5. /\ ~HeadThrows /\ ~HeadEnds /\ ~IteratorGives /\ ~IteratorEnds
        /\ ~IteratorThrows /\ ~BindingThrows /\ ~RoundEnds /\ ~Closed /\ ~CloseThrows
    BY DEF HeadThrows, HeadEnds, IteratorGives, IteratorEnds, IteratorThrows,
       BindingThrows, RoundEnds, Closed, CloseThrows, Is
  <1> QED
    BY <1>1, <1>2, <1>3, <1>4, <1>5 DEF Next, Expression, Leave, Jump, StartBlock,
       StartLabeled, StartTry, StartWhile, StartFor, StartForOf, StartSwitch

(* Finalizers run, at any depth of nesting (JintTryStatement).                  *)
THEOREM FinalizersAlwaysRun == Spec => FinalizersRun
  <1> DEFINE Leaves == stack # <<>> /\ Top.kind = "try" /\ Top.finally /\ Len(stack') < Height
             Ran == \/ Top.phase = "finally"
                       /\ reg'.type = (IF reg = Normal THEN Top.held ELSE reg).type
                    \/ Top.phase = "block" /\ Top.catch /\ reg' = Exception
  <1>1. Inv /\ [Next]_vars => [Leaves => Ran]_vars
    <2> SUFFICES ASSUME Inv, Next, Leaves PROVE Ran
      BY DEF vars
    <2>1. Height \in Nat /\ Top \in Frames /\ ~(Height' = Height + 1)
      BY TopFacts DEF Height
    <2>2. CASE BlockEnds
      BY <2>1, <2>2, Finalizing, ScopeFacts DEF BlockEnds, Is
    <2>3. CASE CatchEnds
      BY <2>1, <2>3, Finalizing, ScopeFacts DEF CatchEnds, Is
    <2>4. CASE Catch
      BY <2>1, <2>4, CatchInv
    <2>5. CASE CatchFails
      BY <2>5 DEF CatchFails, Is, Abandon
    <2>6. CASE FinallyEnds
      <3>1. reg' = IF reg = Normal THEN Recalled(Top.held, target) ELSE reg
        BY <2>6 DEF FinallyEnds, Return
      <3>2. Recalled(Top.held, target).type = Top.held.type
        BY <2>1, RecalledFacts DEF Frames
      <3> QED BY <2>6, <3>1, <3>2 DEF FinallyEnds, Is
    <2> QED BY <2>2, <2>3, <2>4, <2>5, <2>6, TryActions
  <1> QED BY <1>1, InvHolds, PTL DEF Spec, FinalizersRun

(* An iterator is closed however the loop is left (JintForInForOfStatement).    *)
THEOREM IteratorsAlwaysClosed == Spec => IteratorsClosed
  <1> DEFINE Leaves == stack # <<>> /\ Top.kind = "forOf" /\ Len(stack') < Height
             Shut == /\ Top.phase = "closing" \/ Top.iterator = "none"
                     /\ Top.phase = "closing" =>
                          \/ reg'.type = Top.held.type
                          \/ reg' = Exception /\ Top.held.type # "Throw"
  <1>1. Inv /\ [Next]_vars => [Leaves => Shut]_vars
    <2> SUFFICES ASSUME Inv, Next, Leaves PROVE Shut
      BY DEF vars
    <2>1. /\ Top \in Frames /\ Shape(Top) /\ Height \in Nat
          /\ ~(Height' = Height) /\ ~(Height' = Height + 1) /\ ~(Height' = Height + 2)
      BY TopFacts DEF Height
    <2>2. Top.held \in Completions
      BY <2>1 DEF Frames
    <2>3. ~Expression /\ (\A type : ~Leave(type)) /\ (\A type, l : ~Jump(type, l))
      BY <2>1 DEF Expression, Leave, Jump, Height
    <2>4. /\ ~StartBlock
          /\ \A l \in Labels : ~StartLabeled(l)
          /\ \A l \in Labels \cup {None} :
               /\ \A phase \in {"test", "body"} : ~StartWhile(l, phase)
               /\ ~StartFor(l) /\ ~StartForOf(l) /\ ~StartSwitch(l)
          /\ \A catch, finally \in BOOLEAN : ~StartTry(catch, finally)
      BY <2>1, StartInv, StartTryInv
    <2>5. ~ListGoesOn /\ ~ListEnds
      BY DEF ListGoesOn, ListEnds, Lists
    <2>6. ~BlockEnds /\ ~Catch /\ ~CatchFails /\ ~CatchEnds /\ ~FinallyEnds
      BY DEF BlockEnds, Catch, CatchFails, CatchEnds, FinallyEnds, Is
    <2>7. /\ ~LabeledEnds /\ ~SelectClause /\ ~SelectThrows /\ ~SelectEnds /\ ~ClauseEnds
          /\ ~TestHolds /\ ~TestEnds /\ ~BodyEnds
      BY DEF LabeledEnds, SelectClause, SelectThrows, SelectEnds, ClauseEnds, Is,
         TestHolds, TestEnds, BodyEnds, Counting
    <2>8. \A f \in Frames : stack' # Over(f)
      BY <2>1, OverFacts DEF Height
    <2>9. \A phase \in Phases : stack' # At(phase)
      BY <2>1, <2>8 DEF At, Frames
    <2>10. \A c \in Completions, it \in {"open", "ended", "broken"} : ~ToClose(c, it)
      BY <2>1, <2>8 DEF ToClose, Frames, Phases
    <2>11. ~HeadEnds /\ ~IteratorEnds /\ ~BindingThrows /\ ~RoundEnds
      BY <2>9, <2>10, NamedFacts, RegFacts DEF HeadEnds, IteratorEnds, BindingThrows,
         RoundEnds, Phases
    <2>12. ~IteratorGives
      BY <2>1, <2>8 DEF IteratorGives, Frames, Phases
    <2>13. CASE HeadThrows
      BY <2>1, <2>13 DEF HeadThrows, Is, Shape
    <2>14. CASE IteratorThrows
      BY <2>1, <2>10, <2>14, NamedFacts DEF IteratorThrows, Is, Shape
    <2>15. CASE Closed
      <3>1. reg' = Recalled(Top.held, target')
        BY <2>15 DEF Closed, Return
      <3> QED BY <2>2, <2>15, <3>1, RecalledFacts DEF Closed, Is
    <2>16. CASE CloseThrows
      BY <2>16 DEF CloseThrows, Return, Is
    <2> QED
      BY <2>3, <2>4, <2>5, <2>6, <2>7, <2>11, <2>12, <2>13, <2>14, <2>15, <2>16 DEF Next
  <1> QED BY <1>1, InvHolds, PTL DEF Spec, IteratorsClosed

(* Only these actions are left for a jump that knows where it goes.             *)
LEMMA JumpActions ==
  ASSUME Inv, OnItsWay, Next
  PROVE  /\ stack # <<>> /\ Top.phase \notin Active
         /\ \/ ListEnds \/ BlockEnds \/ CatchEnds \/ FinallyEnds
            \/ LabeledEnds \/ ClauseEnds \/ BodyEnds \/ RoundEnds
  <1>1. reg # Run /\ reg # Normal /\ reg # Exception /\ reg.type # "Throw"
    BY NamedFacts DEF OnItsWay, Jumps
  <1>2. stack # <<>>
    BY DEF OnItsWay, Positions, Inv, WellFormed
  <1>3. Top.phase \notin Active
    BY <1>1, <1>2 DEF Inv
  <1>4. ~CanExecute /\ ~ListGoesOn /\ ~Catch /\ ~CatchFails
    BY <1>1 DEF CanExecute, ListGoesOn, Catch, CatchFails
  <1>5. /\ ~SelectClause /\ ~SelectThrows /\ ~SelectEnds
        /\ ~HeadThrows /\ ~HeadEnds /\ ~Closed /\ ~CloseThrows
    BY <1>3 DEF SelectClause, SelectThrows, SelectEnds, HeadThrows, HeadEnds, Closed,
       CloseThrows, Is, Active
  <1>6. /\ ~TestHolds /\ ~TestEnds
        /\ ~IteratorGives /\ ~IteratorEnds /\ ~IteratorThrows /\ ~BindingThrows
    BY <1>1 DEF TestHolds, TestEnds, IteratorGives, IteratorEnds, IteratorThrows,
       BindingThrows
  <1> QED
    BY <1>2, <1>3, <1>4, <1>5, <1>6 DEF Next, Expression, Leave, Jump, StartBlock,
       StartLabeled, StartTry, StartWhile, StartFor, StartForOf, StartSwitch

(* A jump means the statement on top exactly when it could mean it.             *)
LEMMA TopMeant ==
  ASSUME Inv, OnItsWay
  PROVE  /\ target = reg.label /\ reg.type \in {"Break", "Continue"}
         /\ reg.home = Height => Matches(Top, reg)
         /\ reg.home < Height => ~Matches(Top, reg)
  <1>1. stack \in Seq(Frames) /\ Height \in Nat /\ reg.home \in 1 .. Height /\ Jumps(reg)
    BY DEF Inv, WellFormed, OnItsWay, Positions, Height
  <1>2. stack # <<>>
    BY <1>1 DEF Height
  <1>3. Top = Outer(stack, Height)
    BY <1>2, TopFacts
  <1>4. Aimed(stack, reg, Height) /\ Labelled(reg, target)
    BY DEF Inv
  <1>5. target = reg.label
    BY <1>1, <1>4 DEF Labelled
  <1>6. ASSUME reg.home = Height
        PROVE  Matches(Top, reg)
    BY <1>1, <1>3, <1>4, <1>6 DEF Aimed
  <1>7. ASSUME reg.home < Height
        PROVE  ~Matches(Top, reg)
    <2>1. Height \in reg.home + 1 .. Height
      BY <1>1, <1>7
    <2> QED BY <1>1, <1>3, <1>4, <2>1 DEF Aimed
  <1> QED BY <1>1, <1>5, <1>6, <1>7 DEF Jumps

(* The statement on top does not take a jump it could not be meant by, or does   *)
(* not understand.                                                              *)
LEMMA NotTaken ==
  ASSUME Inv, OnItsWay, reg.home < Height \/ ~Understands(Top, reg), Top \in Frames,
         Shape(Top)
  PROVE  /\ Top.kind \in {"labeled", "switch"} =>
              ~(reg.type = "Break" /\ TargetIs(Top.label))
         /\ Top.kind \in Loops => ~TakesContinue /\ ~TakesBreak
  <1>1. target = reg.label /\ reg.type \in {"Break", "Continue"}
    BY TopMeant
  <1>2. CASE reg.home < Height
    <2>1. ~Matches(Top, reg)
      BY <1>2, TopMeant
    <2>2. Top.kind = "labeled" => Top.label # None
      BY DEF Shape
    <2> QED
      BY <1>1, <2>1, <2>2 DEF Matches, TargetIs, TakesContinue, TakesBreak, NoTargetOr
  <1>3. CASE ~Understands(Top, reg)
    <2>1. /\ reg.label = None /\ Top.label # None
          /\ Top.kind = "switch" \/ (Top.kind = "while" /\ reg.type = "Continue")
      BY <1>1, <1>3 DEF Understands
    <2> QED BY <1>1, <2>1 DEF TargetIs, TakesContinue, TakesBreak, Loops
  <1> QED BY <1>2, <1>3

(* Such a statement hands it on, or delays it.                                  *)
LEMMA PassedOn ==
  ASSUME Inv, Next, OnItsWay, reg.home < Height \/ ~Understands(Top, reg)
  PROVE  reg' = reg \/ Delayed
  <1>1. /\ stack # <<>> /\ Top \in Frames /\ Shape(Top) /\ Height \in Nat \ {0}
        /\ reg # Run /\ reg # Normal /\ reg # Exception
    BY JumpActions, TopFacts, NamedFacts DEF OnItsWay, Jumps
  <1>2. /\ Top.kind \in {"labeled", "switch"} =>
             ~(reg.type = "Break" /\ TargetIs(Top.label))
        /\ Top.kind \in Loops => ~TakesContinue /\ ~TakesBreak
    BY <1>1, NotTaken
  <1>3. CASE ListEnds
    BY <1>1, <1>3 DEF ListEnds, Return
  <1>4. ASSUME NEW sc \in Seq(Environments), FinalizeOrReturn(reg, sc), Top.kind = "try"
        PROVE  reg' = reg \/ Delayed
    <2>1. CASE Top.finally
      <3>1. Inv' /\ Height' = Height + 1 /\ stack'[2].held = reg
        BY <1>1, <1>4, <2>1, Finalizing
      <3>2. stack' \in Seq(Frames) /\ Len(stack') = Height + 1
        BY <3>1 DEF Inv, WellFormed, Height
      <3>3. 2 \in DOMAIN stack'
        BY <1>1, <3>2
      <3> QED BY <3>1, <3>3 DEF Delayed
    <2>2. CASE ~Top.finally
      BY <2>2, <1>4 DEF FinalizeOrReturn
    <2> QED BY <2>1, <2>2
  <1>5. CASE BlockEnds \/ CatchEnds
    BY <1>1, <1>4, <1>5, ScopeFacts DEF BlockEnds, CatchEnds, Is
  <1>6. CASE FinallyEnds
    BY <1>1, <1>6 DEF FinallyEnds, Return
  <1>7. CASE LabeledEnds
    BY <1>2, <1>7 DEF LabeledEnds, Is, Return
  <1>8. CASE ClauseEnds
    BY <1>1, <1>2, <1>8 DEF ClauseEnds, Is, Return
  <1>9. CASE BodyEnds
    BY <1>1, <1>2, <1>9 DEF BodyEnds, Counting, Loops, Return
  <1>10. CASE RoundEnds
    <2>1. Top.kind = "forOf" /\ ToClose(reg, "open") /\ target' = target
      BY <1>1, <1>2, <1>10 DEF RoundEnds, Is, Loops
    <2>2. Aimed(stack, reg, Height - 1)
      BY <1>1, AimedLower DEF Inv
    <2>3. Inv' /\ Height' = Height /\ Top'.held = reg
      BY <1>1, <2>1, <2>2, Closing, RegFacts
    <2>4. stack' \in Seq(Frames) /\ Len(stack') = Height
      BY <2>3 DEF Inv, WellFormed, Height
    <2>5. 1 \in DOMAIN stack'
      BY <1>1, <2>4
    <2> QED BY <2>3, <2>5 DEF Delayed, Top
  <1> QED
    BY <1>3, <1>5, <1>6, <1>7, <1>8, <1>9, <1>10, JumpActions

(* The statement it means takes it, if it understands it.                       *)
LEMMA TakenUp ==
  ASSUME Inv, Next, OnItsWay, reg.home = Height, Understands(Top, reg)
  PROVE  /\ reg' \in {Run, Normal}
         /\ (reg.type = "Continue") =
              (Len(stack') = Height /\ stack'[1].phase # "closing")
  <1>1. /\ stack # <<>> /\ Top \in Frames /\ Shape(Top) /\ Height \in Nat \ {0}
        /\ reg # Run /\ reg # Normal /\ reg # Exception
    BY JumpActions, TopFacts, NamedFacts DEF OnItsWay, Jumps
  <1>2. /\ target = reg.label /\ reg.type \in {"Break", "Continue"}
        /\ Matches(Top, reg) /\ Understands(Top, reg)
    BY TopMeant
  <1>3. Top.kind \in Loops \cup {"labeled", "switch"}
    BY <1>1, <1>2 DEF Matches, Shape, Frames, Kinds
  <1>4. ASSUME Return(Normal), reg.type = "Break"
        PROVE  /\ reg' \in {Run, Normal}
               /\ (reg.type = "Continue") =
                    (Len(stack') = Height /\ stack'[1].phase # "closing")
    <2>1. Len(stack') = Height - 1
      <3>1. stack \in Seq(Frames)
        BY DEF Inv, WellFormed
      <3> QED BY <1>1, <1>4, <3>1 DEF Return, Height
    <2> QED BY <1>1, <1>4, <2>1 DEF Return
  <1>5. ASSUME NEW phase \in {"test", "next"}, stack' = At(phase), reg' = Run,
               reg.type = "Continue"
        PROVE  /\ reg' \in {Run, Normal}
               /\ (reg.type = "Continue") =
                    (Len(stack') = Height /\ stack'[1].phase # "closing")
    <2> DEFINE f == [Top EXCEPT !.phase = phase]
    <2>1. f \in Frames /\ f.phase = phase
      BY <1>1 DEF Frames, Phases
    <2>2. stack' = Over(f)
      BY <1>5 DEF At
    <2> HIDE DEF f
    <2>3. Len(stack') = Height /\ stack'[1] = f
      BY <1>1, <2>1, <2>2, OverFacts
    <2> QED BY <1>5, <2>1, <2>3
  <1>6. ~ListEnds /\ ~BlockEnds /\ ~CatchEnds /\ ~FinallyEnds
    BY <1>3 DEF ListEnds, BlockEnds, CatchEnds, FinallyEnds, Is, Lists, Loops
  <1>7. CASE LabeledEnds
    <2>1. Top.kind = "labeled"
      BY <1>7 DEF LabeledEnds, Is
    <2>2. reg.type = "Break" /\ TargetIs(Top.label)
      BY <1>2, <2>1 DEF TargetIs, Matches, Loops
    <2> QED BY <1>4, <1>7, <2>2 DEF LabeledEnds
  <1>8. CASE ClauseEnds
    <2>1. Top.kind = "switch"
      BY <1>8 DEF ClauseEnds, Is
    <2>2. reg.type = "Break" /\ TargetIs(Top.label)
      BY <1>2, <2>1 DEF TargetIs, Matches, Understands, Loops
    <2> QED BY <1>1, <1>4, <1>8, <2>2 DEF ClauseEnds
  <1>9. ASSUME Top.kind \in Loops
        PROVE  /\ reg.type = "Continue" => TakesContinue
               /\ reg.type = "Break" => TakesBreak /\ ~TakesContinue
    <2>1. CASE reg.type = "Break"
      <3>1. target \in {None, Top.label}
        BY <1>2 DEF Matches
      <3> QED BY <2>1, <3>1 DEF TakesContinue, TakesBreak, NoTargetOr
    <2>2. CASE reg.type = "Continue"
      <3>1. target \in {None, Top.label}
        BY <1>2 DEF Matches
      <3>2. Top.kind = "while" => target = Top.label
        BY <1>2, <2>2, <3>1 DEF Matches, Understands
      <3> QED BY <2>2, <3>1, <3>2 DEF TakesContinue, TargetIs, NoTargetOr
    <2> QED BY <1>2, <2>1, <2>2
  <1>10. CASE BodyEnds
    BY <1>1, <1>2, <1>4, <1>5, <1>9, <1>10 DEF BodyEnds, Counting, Loops
  <1>11. CASE RoundEnds
    <2>1. Top.kind = "forOf" /\ target' = target
      BY <1>11 DEF RoundEnds, Is
    <2>2. CASE TakesContinue
      BY <1>5, <1>9, <1>11, <2>1, <2>2 DEF RoundEnds, Loops, TakesContinue
    <2>3. CASE ~TakesContinue
      <3>1. reg.type = "Break" /\ ToClose(Normal, "open")
        BY <1>1, <1>2, <1>9, <1>11, <2>1, <2>3 DEF RoundEnds, Loops
      <3>2. Aimed(stack, Normal, Height - 1)
        BY NamedFacts
      <3>3. Top'.phase = "closing"
        BY <1>1, <2>1, <3>1, <3>2, Closing, NamedFacts, RegFacts
      <3>4. reg' = Run
        BY <3>1 DEF ToClose
      <3> QED BY <3>1, <3>3, <3>4 DEF Top
    <2> QED BY <2>2, <2>3
  <1> QED BY <1>6, <1>7, <1>8, <1>10, <1>11, JumpActions

(* For any labels and any depth: comparing one label for the whole engine at    *)
(* every statement on the way finds the statement a break or continue means, as *)
(* long as no code that a finalizer or return() runs has left another label     *)
(* there, and unless that statement does not understand the jump.               *)
THEOREM JumpsAlwaysArrive == Spec => JumpsArrive
  <1> DEFINE Arrives ==
        IF reg.home < Height \/ ~Understands(Top, reg) THEN reg' = reg \/ Delayed
        ELSE /\ reg' \in {Run, Normal}
             /\ (reg.type = "Continue") =
                  (Len(stack') = Height /\ stack'[1].phase # "closing")
  <1>1. Inv /\ [Next]_vars => [OnItsWay => Arrives]_vars
    <2> SUFFICES ASSUME Inv, Next, OnItsWay PROVE Arrives
      BY DEF vars
    <2>1. reg.home < Height \/ reg.home = Height
      BY DEF OnItsWay, Positions, Height, Inv, WellFormed
    <2> QED BY <2>1, PassedOn, TakenUp
  <1> QED BY <1>1, InvHolds, PTL DEF Spec, JumpsArrive

-----------------------------------------------------------------------------
(* Environments. *)

Chained(s, sc) == \A i \in 0 .. Len(s) : Continues(Given(s, i), Found(s, sc, i))

LEMMA AddsFacts ==
  ASSUME NEW f \in Frames
  PROVE  /\ f.scope \in Seq(Environments) /\ Adds(f) \in Seq(Environments)
         /\ f.scope \o Adds(f) \in Seq(Environments)
         /\ \A e \in Environments : Append(f.scope, e) = f.scope \o <<e>>
  <1>1. f.scope \in Seq(Environments)
    BY DEF Frames
  <1>2. Adds(f) \in Seq(Environments)
    <2>1. \A e \in Environments : <<e>> \in Seq(Environments)
      OBVIOUS
    <2>2. <<>> \in Seq(Environments)
      OBVIOUS
    <2>3. {"block", "loop", "tdz", "iteration", "catch"} \subseteq Environments
      BY DEF Environments
    <2>4. \/ Adds(f) = <<>>
          \/ \E e \in {"block", "loop", "tdz", "iteration", "catch"} : Adds(f) = <<e>>
      BY DEF Adds
    <2> QED BY <2>1, <2>2, <2>3, <2>4, Zenon
  <1>3. ASSUME NEW e \in Environments PROVE Append(f.scope, e) = f.scope \o <<e>>
    BY <1>1
  <1> QED BY <1>1, <1>2, <1>3

(* What a chain continues is passed on along it.                                *)
LEMMA ContinuesFacts ==
  ASSUME NEW a \in Seq(Environments), NEW b \in Seq(Environments), Continues(a, b)
  PROVE  /\ Continues(a, Append(b, Mark))
         /\ \A c \in Seq(Environments) : Continues(b, c) => Continues(a, c)
  <1>1. Continues(a, Append(b, Mark))
    BY DEF Continues, Mark, Environments
  <1>2. ASSUME NEW c \in Seq(Environments), Continues(b, c)
        PROVE  Continues(a, c)
    <2>1. /\ Len(a) \in Nat /\ Len(b) \in Nat /\ Len(c) \in Nat
          /\ DOMAIN a = 1 .. Len(a) /\ DOMAIN b = 1 .. Len(b)
      OBVIOUS
    <2>2. Len(a) <= Len(b) /\ Len(b) <= Len(c)
      BY <1>2 DEF Continues
    <2>3. \A i \in 1 .. Len(a) : c[i] = a[i]
      <3> TAKE i \in 1 .. Len(a)
      <3>1. i \in 1 .. Len(b)
        BY <2>1, <2>2
      <3>2. b[i] = a[i] /\ c[i] = b[i]
        BY <1>2, <2>1, <3>1 DEF Continues
      <3> QED BY <3>2
    <2>4. \A i \in Len(a) + 1 .. Len(c) : c[i] = Mark
      <3> TAKE i \in Len(a) + 1 .. Len(c)
      <3>1. CASE i \in 1 .. Len(b)
        <4>1. i \in Len(a) + 1 .. Len(b)
          BY <2>1, <3>1
        <4> QED BY <1>2, <2>1, <3>1, <4>1 DEF Continues
      <3>2. CASE i \in Len(b) + 1 .. Len(c)
        BY <1>2, <3>2 DEF Continues
      <3> QED BY <2>1, <2>2, <3>1, <3>2
    <2> QED BY <2>1, <2>2, <2>3, <2>4 DEF Continues
  <1> QED BY <1>1, <1>2

LEMMA ContinuesSame ==
  ASSUME NEW a \in Seq(Environments)
  PROVE  Continues(a, a)
  BY DEF Continues

(* A statement that begins continues the chain, one that ends leaves it.        *)
LEMMA ChainPush ==
  ASSUME NEW s \in Seq(Frames), NEW f \in Frames, NEW sc \in Seq(Environments),
         Chained(s, f.scope), Continues(f.scope \o Adds(f), sc)
  PROVE  Chained(<<f>> \o s, sc)
  <1> DEFINE t == <<f>> \o s
  <1>1. /\ Len(s) \in Nat /\ Len(t) = Len(s) + 1 /\ t[1] = f
        /\ \A i \in 1 .. Len(s) : t[i + 1] = s[i]
    OBVIOUS
  <1> HIDE DEF t
  <1>2. Given(t, 0) = f.scope \o Adds(f) /\ Found(t, sc, 0) = sc
    <2>1. 0 # Len(t) /\ 0 + 1 = 1
      BY <1>1
    <2> QED BY <1>1, <2>1, Zenon DEF Given, Found
  <1>3. ASSUME NEW i \in 0 .. Len(s)
        PROVE  Given(t, i + 1) = Given(s, i) /\ Found(t, sc, i + 1) = Found(s, f.scope, i)
    <2>1. Given(t, i + 1) = Given(s, i)
      <3>1. CASE i = Len(s)
        BY <1>1, <3>1 DEF Given
      <3>2. CASE i # Len(s)
        <4>1. i + 1 \in 1 .. Len(s) /\ i + 1 # Len(t)
          BY <1>1, <3>2
        <4>2. t[(i + 1) + 1] = s[i + 1]
          BY <1>1, <4>1
        <4> QED BY <3>2, <4>1, <4>2 DEF Given
      <3> QED BY <3>1, <3>2
    <2>2. Found(t, sc, i + 1) = Found(s, f.scope, i)
      <3>1. CASE i = 0
        BY <1>1, <3>1 DEF Found
      <3>2. CASE i # 0
        <4>1. t[i + 1] = s[i] /\ i + 1 # 0
          BY <1>1, <3>2
        <4> QED BY <3>2, <4>1 DEF Found
      <3> QED BY <3>1, <3>2
    <2> QED BY <2>1, <2>2
  <1>4. ASSUME NEW j \in 0 .. Len(t)
        PROVE  Continues(Given(t, j), Found(t, sc, j))
    <2>1. CASE j = 0
      BY <1>2, <2>1
    <2>2. CASE j # 0
      <3>1. PICK i \in 0 .. Len(s) : j = i + 1
        <4>1. j - 1 \in 0 .. Len(s) /\ j = (j - 1) + 1
          BY <1>1, <2>2
        <4> QED BY <4>1
      <3>2. Continues(Given(s, i), Found(s, f.scope, i))
        BY DEF Chained
      <3> QED BY <1>3, <3>1, <3>2
    <2> QED BY <2>1, <2>2
  <1> QED BY <1>4 DEF Chained, t

LEMMA ChainPop ==
  ASSUME NEW s \in Seq(Frames), s # <<>>, NEW sc \in Seq(Environments), Chained(s, sc)
  PROVE  /\ Tail(s) \in Seq(Frames) /\ s[1] \in Frames
         /\ Chained(Tail(s), s[1].scope)
         /\ Continues(s[1].scope \o Adds(s[1]), sc)
  <1> DEFINE t == Tail(s)
  <1>1. /\ Len(s) \in Nat \ {0} /\ Len(t) = Len(s) - 1 /\ t \in Seq(Frames) /\ s[1] \in Frames
        /\ \A i \in 1 .. Len(t) : t[i] = s[i + 1]
    OBVIOUS
  <1> HIDE DEF t
  <1>2. Continues(s[1].scope \o Adds(s[1]), sc)
    <2>1. Continues(Given(s, 0), Found(s, sc, 0))
      BY <1>1 DEF Chained
    <2> QED BY <1>1, <2>1 DEF Given, Found
  <1>3. ASSUME NEW i \in 0 .. Len(t)
        PROVE  Continues(Given(t, i), Found(t, s[1].scope, i))
    <2>1. i + 1 \in 0 .. Len(s) /\ i + 1 # 0
      BY <1>1
    <2>2. Continues(Given(s, i + 1), Found(s, sc, i + 1))
      BY <2>1 DEF Chained
    <2>3. Given(s, i + 1) = Given(t, i)
      <3>1. CASE i = Len(t)
        BY <1>1, <3>1 DEF Given
      <3>2. CASE i # Len(t)
        <4>1. i + 1 \in 1 .. Len(t) /\ i + 1 # Len(s)
          BY <1>1, <3>2
        <4>2. t[i + 1] = s[(i + 1) + 1]
          BY <1>1, <4>1
        <4> QED BY <3>2, <4>1, <4>2 DEF Given
      <3> QED BY <3>1, <3>2
    <2>4. Found(s, sc, i + 1) = Found(t, s[1].scope, i)
      <3>1. CASE i = 0
        BY <1>1, <3>1 DEF Found
      <3>2. CASE i # 0
        <4>1. t[i] = s[i + 1] /\ i + 1 # 0
          BY <1>1, <3>2
        <4> QED BY <3>2, <4>1 DEF Found
      <3> QED BY <3>1, <3>2
    <2> QED BY <2>2, <2>3, <2>4
  <1> QED BY <1>1, <1>2, <1>3 DEF Chained, t

LEMMA ChainExtended ==
  ASSUME NEW s \in Seq(Frames), NEW sc \in Seq(Environments), NEW sd \in Seq(Environments),
         Chained(s, sc), Continues(sc, sd)
  PROVE  Chained(s, sd)
  <1>1. Len(s) \in Nat
    OBVIOUS
  <1>2. Given(s, 0) \in Seq(Environments)
    <2>1. CASE s = <<>>
      BY <2>1 DEF Given
    <2>2. CASE s # <<>>
      <3>1. s[1] \in Frames /\ Len(s) # 0
        BY <2>2
      <3> QED BY <3>1, AddsFacts DEF Given
    <2> QED BY <2>1, <2>2
  <1>3. Continues(Given(s, 0), sc)
    BY <1>1 DEF Chained, Found
  <1>4. Continues(Given(s, 0), sd)
    BY <1>2, <1>3, ContinuesFacts
  <1>5. ASSUME NEW i \in 0 .. Len(s)
        PROVE  Continues(Given(s, i), Found(s, sd, i))
    <2>1. CASE i = 0
      BY <1>4, <2>1 DEF Found
    <2>2. CASE i # 0
      <3>1. Continues(Given(s, i), Found(s, sc, i))
        BY DEF Chained
      <3> QED BY <2>2, <3>1 DEF Found
    <2> QED BY <2>1, <2>2
  <1> QED BY <1>5 DEF Chained

LEMMA ChainedHere == ScopeRestored <=> Chained(stack, scope)
  BY DEF ScopeRestored, Chained, Height

LEMMA NothingAdded ==
  ASSUME NEW a \in Seq(Environments)
  PROVE  a \o <<>> = a
  OBVIOUS

(* Steps, by what they do to the environments.                                  *)
LEMMA ChainLeft ==
  ASSUME Inv, ScopeRestored, stack # <<>>, stack' = Tail(stack),
         scope' \in Seq(Environments), Continues(Top.scope, scope')
  PROVE  ScopeRestored'
  <1>1. stack \in Seq(Frames) /\ scope \in Seq(Environments) /\ Chained(stack, scope)
    BY ChainedHere DEF Inv, WellFormed
  <1>2. Tail(stack) \in Seq(Frames) /\ Top \in Frames /\ Chained(Tail(stack), Top.scope)
    BY <1>1, ChainPop DEF Top
  <1>3. Top.scope \in Seq(Environments)
    BY <1>2, AddsFacts
  <1>4. Chained(Tail(stack), scope')
    BY <1>2, <1>3, ChainExtended
  <1> QED BY <1>4 DEF ScopeRestored, Chained, Height

LEMMA ChainEntered ==
  ASSUME Inv, ScopeRestored, NEW f \in Frames, f.scope = scope, stack' = <<f>> \o stack,
         scope' \in Seq(Environments), Continues(f.scope \o Adds(f), scope')
  PROVE  ScopeRestored'
  <1>1. stack \in Seq(Frames) /\ Chained(stack, f.scope)
    BY ChainedHere DEF Inv, WellFormed
  <1>2. Chained(<<f>> \o stack, scope')
    BY <1>1, ChainPush
  <1> QED BY <1>2 DEF ScopeRestored, Chained, Height

LEMMA ChainPut ==
  ASSUME Inv, ScopeRestored, stack # <<>>, NEW f \in Frames, Continues(Top.scope, f.scope),
         NEW sc \in Seq(Environments), Continues(f.scope \o Adds(f), sc)
  PROVE  Chained(Over(f), sc) /\ Over(f) \in Seq(Frames)
  <1>1. stack \in Seq(Frames) /\ scope \in Seq(Environments) /\ Chained(stack, scope)
    BY ChainedHere DEF Inv, WellFormed
  <1>2. Tail(stack) \in Seq(Frames) /\ Top \in Frames /\ Chained(Tail(stack), Top.scope)
    BY <1>1, ChainPop DEF Top
  <1>3. Top.scope \in Seq(Environments) /\ f.scope \in Seq(Environments)
    BY <1>2, AddsFacts
  <1>4. Chained(Tail(stack), f.scope)
    BY <1>2, <1>3, ChainExtended
  <1>5. Chained(<<f>> \o Tail(stack), sc)
    BY <1>2, <1>4, ChainPush
  <1>6. <<f>> \o Tail(stack) \in Seq(Frames)
    BY <1>2
  <1> QED BY <1>5, <1>6 DEF Over

LEMMA ChainGoingOn ==
  ASSUME Inv, ScopeRestored, stack # <<>>, NEW f \in Frames, f.scope = Top.scope,
         stack' = Over(f), scope' \in Seq(Environments), Continues(f.scope \o Adds(f), scope')
  PROVE  ScopeRestored'
  <1>1. Continues(Top.scope, f.scope)
    BY ContinuesSame, AddsFacts
  <1>2. Chained(Over(f), scope')
    BY <1>1, ChainPut
  <1> QED BY <1>2 DEF ScopeRestored, Chained, Height

LEMMA ChainGoingInto ==
  ASSUME Inv, ScopeRestored, stack # <<>>, NEW f \in Frames, Continues(Top.scope, f.scope),
         NEW g \in Frames, Adds(g) = <<>>, Continues(f.scope \o Adds(f), g.scope),
         stack' = <<g>> \o Over(f), scope' = g.scope
  PROVE  ScopeRestored'
  <1>1. g.scope \in Seq(Environments) /\ g.scope \o Adds(g) = g.scope
    BY AddsFacts, NothingAdded
  <1>2. Chained(Over(f), g.scope) /\ Over(f) \in Seq(Frames)
    BY <1>1, ChainPut
  <1>3. Continues(g.scope \o Adds(g), scope') /\ scope' \in Seq(Environments)
    BY <1>1, ContinuesSame
  <1>4. Chained(<<g>> \o Over(f), scope')
    BY <1>2, <1>3, ChainPush
  <1> QED BY <1>4 DEF ScopeRestored, Chained, Height

(* What the innermost statement has found, and what it adds.                    *)
LEMMA TopChain ==
  ASSUME Inv, ScopeRestored, stack # <<>>
  PROVE  /\ Top \in Frames /\ Top.scope \in Seq(Environments)
         /\ scope \in Seq(Environments)
         /\ Continues(Top.scope \o Adds(Top), scope)
         /\ Continues(Top.scope, Top.scope) /\ Continues(scope, scope)
         /\ Adds(Top) = <<>> => Continues(Top.scope, scope)
         /\ Top.scope \o <<>> = Top.scope
  <1>1. stack \in Seq(Frames) /\ scope \in Seq(Environments) /\ Chained(stack, scope)
    BY ChainedHere DEF Inv, WellFormed
  <1>2. Top \in Frames /\ Continues(Top.scope \o Adds(Top), scope)
    BY <1>1, ChainPop DEF Top
  <1>3. Top.scope \in Seq(Environments)
    BY <1>2, AddsFacts
  <1>4. Top.scope \o <<>> = Top.scope
    BY <1>3, NothingAdded
  <1>5. Adds(Top) = <<>> => Continues(Top.scope, scope)
    BY <1>2, <1>4, Zenon
  <1> QED BY <1>1, <1>2, <1>3, <1>4, <1>5, ContinuesSame

(* A statement that returns has restored the chain, but for a catch clause,     *)
(* which does so in its finally block.                                          *)
LEMMA ReturnChain ==
  ASSUME Inv, ScopeRestored, stack # <<>>, NEW c, Return(c),
         Top.kind = "try" => Top.phase # "catch"
  PROVE  ScopeRestored'
  <1>1. stack' = Tail(stack)
    BY DEF Return
  <1>2. CASE Top.kind \in Scoping
    <2>1. scope' = Top.scope
      BY <1>2 DEF Return
    <2> QED BY <1>1, <2>1, TopChain, ChainLeft
  <1>3. CASE Top.kind \notin Scoping
    <2>1. scope' = scope
      BY <1>3 DEF Return
    <2>2. Adds(Top) = <<>>
      BY <1>3 DEF Adds, Scoping
    <2> QED BY <1>1, <2>1, <2>2, TopChain, ChainLeft
  <1> QED BY <1>2, <1>3

LEMMA AbandonChain ==
  ASSUME Inv, ScopeRestored, stack # <<>>, Abandon
  PROVE  ScopeRestored'
  <1>1. stack' = Tail(stack) /\ scope' = Append(Top.scope, Mark)
    BY DEF Abandon
  <1>2. Continues(Top.scope, Append(Top.scope, Mark))
    BY TopChain, ContinuesFacts
  <1>3. Append(Top.scope, Mark) \in Seq(Environments)
    BY TopChain, ScopeFacts DEF Environments
  <1> QED BY <1>1, <1>2, <1>3, ChainLeft

(* A statement of one of these kinds begins.                                    *)
LEMMA EnterChain ==
  ASSUME Inv, ScopeRestored, NEW kind \in Kinds, NEW label \in Labels \cup {None},
         NEW phase \in Phases, Enter(Frame(kind, label, phase)),
         scope' = scope \o Adds(Frame(kind, label, phase))
  PROVE  ScopeRestored'
  <1> DEFINE f == Frame(kind, label, phase)
  <1>1. f \in Frames /\ f.scope = scope
    BY ScopeFacts, FrameFacts DEF Frame
  <1>2. stack' = <<f>> \o stack
    BY DEF Enter
  <1> HIDE DEF f
  <1>3. scope' = f.scope \o Adds(f)
    BY <1>1 DEF f
  <1>4. f.scope \o Adds(f) \in Seq(Environments)
    BY <1>1, AddsFacts
  <1>5. Continues(f.scope \o Adds(f), scope')
    BY <1>3, <1>4, ContinuesSame
  <1> QED BY <1>1, <1>2, <1>3, <1>4, <1>5, ChainEntered

LEMMA AddsByKind ==
  ASSUME NEW f
  PROVE  /\ f.kind \in {"list", "while", "labeled"} => Adds(f) = <<>>
         /\ f.kind \in {"block", "switch"} => Adds(f) = <<"block">>
         /\ f.kind = "for" => Adds(f) = <<"loop">>
         /\ f.kind = "forOf" /\ f.phase = "head" => Adds(f) = <<"tdz">>
         /\ f.kind = "forOf" /\ f.phase = "body" => Adds(f) = <<"iteration">>
         /\ f.kind = "forOf" /\ f.phase \notin {"head", "body"} => Adds(f) = <<>>
         /\ f.kind = "try" /\ f.phase = "catch" => Adds(f) = <<"catch">>
         /\ f.kind = "try" /\ f.phase # "catch" => Adds(f) = <<>>
  BY DEF Adds

LEMMA ListAt ==
  ASSUME Inv, NEW sc \in Seq(Environments)
  PROVE  LET g == [List EXCEPT !.scope = sc]
         IN g \in Frames /\ g.kind = "list" /\ g.scope = sc
  <1>1. List \in Frames /\ List.kind = "list"
    BY ScopeFacts, ListFacts
  <1> QED BY <1>1 DEF Frames

-----------------------------------------------------------------------------
(* Every action keeps the chain. *)

LEMMA SimpleChain ==
  ASSUME Inv, ScopeRestored,
         \/ Expression
         \/ \E type \in {"Return", "Throw"} : Leave(type)
         \/ \E type \in {"Break", "Continue"}, l \in Labels \cup {None} : Jump(type, l)
         \/ ListGoesOn
  PROVE  ScopeRestored'
  <1>1. stack' = stack /\ scope' = scope
    BY DEF Expression, Leave, Jump, ListGoesOn
  <1> QED BY <1>1 DEF ScopeRestored, Height

LEMMA StartChain ==
  ASSUME Inv, ScopeRestored,
         \/ StartBlock
         \/ \E l \in Labels : StartLabeled(l)
         \/ \E l \in Labels \cup {None} :
              \/ \E phase \in {"test", "body"} : StartWhile(l, phase)
              \/ StartFor(l) \/ StartForOf(l) \/ StartSwitch(l)
  PROVE  ScopeRestored'
  <1>1. /\ scope \in Seq(Environments) /\ scope \o <<>> = scope
        /\ {"block", "loop", "tdz"} \subseteq Environments
        /\ \A e \in Environments : Append(scope, e) = scope \o <<e>>
    <2>1. scope \in Seq(Environments)
      BY ScopeFacts
    <2>2. {"block", "loop", "tdz"} \subseteq Environments
      BY DEF Environments
    <2> QED BY <2>1, <2>2
  <1>2. ASSUME NEW kind, NEW label, NEW phase
        PROVE  Frame(kind, label, phase).kind = kind /\ Frame(kind, label, phase).phase = phase
    BY DEF Frame
  <1>3. /\ {"block", "labeled", "while", "for", "forOf", "switch"} \subseteq Kinds
        /\ {"run", "body", "test", "head", "select"} \subseteq Phases
    BY DEF Kinds, Loops, Lists, Phases
  <1>4. CASE StartBlock
    <2>1. Enter(Frame("block", None, "run")) /\ scope' = Append(scope, "block")
      BY <1>4 DEF StartBlock
    <2>2. Adds(Frame("block", None, "run")) = <<"block">>
      BY <1>2, AddsByKind
    <2> QED BY <1>1, <1>3, <2>1, <2>2, EnterChain
  <1>5. ASSUME NEW l \in Labels, StartLabeled(l) PROVE ScopeRestored'
    <2>1. Enter(Frame("labeled", l, "body")) /\ scope' = scope
      BY <1>5 DEF StartLabeled
    <2>2. Adds(Frame("labeled", l, "body")) = <<>>
      BY <1>2, AddsByKind
    <2> QED BY <1>1, <1>3, <2>1, <2>2, EnterChain
  <1>6. ASSUME NEW l \in Labels \cup {None}, NEW phase \in {"test", "body"}, StartWhile(l, phase)
        PROVE  ScopeRestored'
    <2>1. Enter(Frame("while", l, phase)) /\ scope' = scope
      BY <1>6 DEF StartWhile
    <2>2. Adds(Frame("while", l, phase)) = <<>>
      BY <1>2, AddsByKind
    <2>3. phase \in Phases
      BY <1>3
    <2> QED BY <1>1, <1>3, <2>1, <2>2, <2>3, EnterChain
  <1>7. ASSUME NEW l \in Labels \cup {None}, StartFor(l) PROVE ScopeRestored'
    <2>1. Enter(Frame("for", l, "test")) /\ scope' = Append(scope, "loop")
      BY <1>7 DEF StartFor
    <2>2. Adds(Frame("for", l, "test")) = <<"loop">>
      BY <1>2, AddsByKind
    <2> QED BY <1>1, <1>3, <2>1, <2>2, EnterChain
  <1>8. ASSUME NEW l \in Labels \cup {None}, StartForOf(l) PROVE ScopeRestored'
    <2>1. Enter(Frame("forOf", l, "head")) /\ scope' = Append(scope, "tdz")
      BY <1>8 DEF StartForOf
    <2>2. Adds(Frame("forOf", l, "head")) = <<"tdz">>
      BY <1>2, AddsByKind
    <2> QED BY <1>1, <1>3, <2>1, <2>2, EnterChain
  <1>9. ASSUME NEW l \in Labels \cup {None}, StartSwitch(l) PROVE ScopeRestored'
    <2>1. Enter(Frame("switch", l, "select")) /\ scope' = Append(scope, "block")
      BY <1>9 DEF StartSwitch
    <2>2. Adds(Frame("switch", l, "select")) = <<"block">>
      BY <1>2, AddsByKind
    <2> QED BY <1>1, <1>3, <2>1, <2>2, EnterChain
  <1> QED BY <1>4, <1>5, <1>6, <1>7, <1>8, <1>9

LEMMA StartTryChain ==
  ASSUME Inv, ScopeRestored, NEW catch \in BOOLEAN, NEW finally \in BOOLEAN,
         StartTry(catch, finally)
  PROVE  ScopeRestored'
  <1> DEFINE t == [Frame("try", None, "block") EXCEPT !.catch = catch, !.finally = finally]
  <1>1. stack' = <<List, t>> \o stack /\ scope' = scope
    BY DEF StartTry
  <1>2. t \in Frames /\ t.kind = "try" /\ t.phase = "block" /\ t.scope = scope
    <2>1. "try" \in Kinds /\ "block" \in Phases
      BY DEF Kinds, Phases
    <2>2. Frame("try", None, "block") \in Frames
      BY <2>1, ScopeFacts, FrameFacts
    <2>3. /\ Frame("try", None, "block").kind = "try" /\ Frame("try", None, "block").phase = "block"
          /\ Frame("try", None, "block").scope = scope
      BY DEF Frame
    <2> QED BY <2>2, <2>3 DEF Frames
  <1>3. List \in Frames /\ List.kind = "list" /\ List.scope = scope
    BY ScopeFacts, ListFacts DEF List, Frame
  <1> HIDE DEF t, List
  <1>4. Adds(t) = <<>> /\ Adds(List) = <<>>
    BY <1>2, <1>3, AddsByKind
  <1>5. scope \in Seq(Environments) /\ scope \o <<>> = scope
    BY ScopeFacts, NothingAdded
  <1>6. Continues(scope, scope)
    BY <1>5, ContinuesSame
  <1>7. stack \in Seq(Frames) /\ Chained(stack, scope)
    BY ChainedHere DEF Inv, WellFormed
  <1>8. Chained(<<t>> \o stack, scope)
    BY <1>2, <1>4, <1>5, <1>6, <1>7, ChainPush
  <1>9. <<t>> \o stack \in Seq(Frames)
    BY <1>2, <1>7
  <1>10. Chained(<<List>> \o (<<t>> \o stack), scope)
    BY <1>3, <1>4, <1>5, <1>6, <1>8, <1>9, ChainPush
  <1>11. stack' = <<List>> \o (<<t>> \o stack)
    BY <1>1, <1>2, <1>3, <1>7
  <1> QED BY <1>1, <1>10, <1>11 DEF ScopeRestored, Chained, Height

LEMMA FinalizeChain ==
  ASSUME Inv, ScopeRestored, stack # <<>>, Top.kind = "try", NEW sc \in Seq(Environments),
         Continues(Top.scope, sc), FinalizeOrReturn(reg, sc)
  PROVE  ScopeRestored'
  <1>1. CASE Top.finally
    <2> DEFINE f == [Top EXCEPT !.phase = "finally", !.held = reg]
               g == [List EXCEPT !.scope = sc]
    <2>1. stack' = <<g>> \o Over(f) /\ scope' = sc
      BY <1>1 DEF FinalizeOrReturn
    <2>2. "finally" \in Phases /\ reg \in Completions /\ Top \in Frames
      BY TopFacts DEF Phases, Inv
    <2>3. /\ f \in Frames /\ f.kind = "try" /\ f.phase = "finally" /\ f.scope = Top.scope
          /\ g \in Frames /\ g.kind = "list" /\ g.scope = sc
      <3>1. f \in Frames /\ f.kind = "try" /\ f.phase = "finally" /\ f.scope = Top.scope
        BY <2>2 DEF Frames
      <3> QED BY <3>1, ListAt
    <2> HIDE DEF f, g
    <2>4. Adds(f) = <<>> /\ Adds(g) = <<>>
      BY <2>3, AddsByKind
    <2>5. f.scope \o Adds(f) = Top.scope
      BY <2>3, <2>4, TopChain
    <2>6. Continues(Top.scope, f.scope) /\ Continues(f.scope \o Adds(f), g.scope)
      BY <2>3, <2>5, TopChain
    <2> QED BY <2>1, <2>3, <2>4, <2>6, ChainGoingInto
  <1>2. CASE ~Top.finally
    BY <1>2, ChainLeft DEF FinalizeOrReturn
  <1> QED BY <1>1, <1>2

LEMMA TryChain ==
  ASSUME Inv, ScopeRestored,
         BlockEnds \/ Catch \/ CatchFails \/ CatchEnds \/ FinallyEnds
  PROVE  ScopeRestored'
  <1>1. CASE BlockEnds
    <2>1. stack # <<>> /\ Top.kind = "try" /\ Top.phase = "block" /\ FinalizeOrReturn(reg, scope)
      BY <1>1 DEF BlockEnds, Is
    <2>2. Adds(Top) = <<>>
      BY <2>1, AddsByKind
    <2> QED BY <2>1, <2>2, TopChain, FinalizeChain
  <1>2. CASE CatchEnds
    <2>1. stack # <<>> /\ Top.kind = "try" /\ FinalizeOrReturn(reg, Top.scope)
      BY <1>2 DEF CatchEnds, Is
    <2> QED BY <2>1, TopChain, FinalizeChain
  <1>3. CASE CatchFails
    BY <1>3, AbandonChain DEF CatchFails, Is
  <1>4. CASE FinallyEnds
    <2>1. stack # <<>> /\ Top.phase # "catch"
          /\ Return(IF reg = Normal THEN Recalled(Top.held, target) ELSE reg)
      BY <1>4 DEF FinallyEnds, Is
    <2> QED BY <2>1, ReturnChain
  <1>5. CASE Catch
    <2> DEFINE f == [Top EXCEPT !.phase = "catch", !.scope = scope]
               sc == Append(scope, "catch")
               g == [List EXCEPT !.scope = sc]
    <2>1. stack # <<>> /\ Top.kind = "try" /\ Top.phase = "block" /\ scope' = sc
          /\ stack' = <<g>> \o Over(f)
      BY <1>5 DEF Catch, Is
    <2>2. "catch" \in Phases /\ "catch" \in Environments /\ scope \in Seq(Environments)
          /\ Top \in Frames
      BY <2>1, TopChain DEF Phases, Environments
    <2>3. sc \in Seq(Environments) /\ sc = scope \o <<"catch">>
      BY <2>2
    <2>4. /\ f \in Frames /\ f.kind = "try" /\ f.phase = "catch" /\ f.scope = scope
          /\ g \in Frames /\ g.kind = "list" /\ g.scope = sc
      <3>1. f \in Frames /\ f.kind = "try" /\ f.phase = "catch" /\ f.scope = scope
        BY <2>1, <2>2 DEF Frames
      <3> QED BY <2>3, <3>1, ListAt
    <2> HIDE DEF f, g, sc
    <2>5. Adds(f) = <<"catch">> /\ Adds(g) = <<>> /\ Adds(Top) = <<>>
      BY <2>1, <2>4, AddsByKind
    <2>6. Continues(Top.scope, f.scope)
      BY <2>1, <2>4, <2>5, TopChain
    <2>7. Continues(f.scope \o Adds(f), g.scope)
      BY <2>3, <2>4, <2>5, ContinuesSame
    <2> QED BY <2>1, <2>4, <2>5, <2>6, <2>7, ChainGoingInto
  <1> QED BY <1>1, <1>2, <1>3, <1>4, <1>5

(* A statement goes on in a phase that adds what the last one did.              *)
LEMMA PhaseChain ==
  ASSUME Inv, ScopeRestored, stack # <<>>, NEW phase \in Phases, stack' = At(phase),
         Adds([Top EXCEPT !.phase = phase]) = Adds(Top), scope' = scope
  PROVE  ScopeRestored'
  <1> DEFINE f == [Top EXCEPT !.phase = phase]
  <1>1. f \in Frames /\ f.scope = Top.scope /\ stack' = Over(f) /\ Adds(f) = Adds(Top)
    <2>1. Top \in Frames
      BY TopChain
    <2> QED BY <2>1 DEF Frames, At
  <1> HIDE DEF f
  <1> QED BY <1>1, TopChain, ChainGoingOn

(* A for-of goes back to the chain it found.                                    *)
LEMMA OutsideChain ==
  ASSUME Inv, ScopeRestored, stack # <<>>, NEW f \in Frames, f.scope = Top.scope,
         Adds(f) = <<>>, stack' = Over(f), scope' = Top.scope
  PROVE  ScopeRestored'
  <1>1. f.scope \o Adds(f) = Top.scope
    BY TopChain
  <1> QED BY <1>1, TopChain, ChainGoingOn

LEMMA LabeledAndSwitchChain ==
  ASSUME Inv, ScopeRestored,
         LabeledEnds \/ SelectClause \/ SelectThrows \/ SelectEnds \/ ClauseEnds
  PROVE  ScopeRestored'
  <1>1. CASE LabeledEnds
    <2>1. stack # <<>> /\ Top.kind = "labeled" /\
          Return(IF reg.type = "Break" /\ TargetIs(Top.label) THEN Normal ELSE reg)
      BY <1>1 DEF LabeledEnds, Is
    <2> QED BY <2>1, ReturnChain
  <1>2. CASE SelectThrows
    BY <1>2, AbandonChain DEF SelectThrows, Is
  <1>3. CASE SelectEnds
    <2>1. stack # <<>> /\ Top.kind = "switch" /\ Return(Normal)
      BY <1>3 DEF SelectEnds, Is
    <2> QED BY <2>1, ReturnChain
  <1>4. ASSUME NEW phase \in {"select", "clause"}, stack # <<>>, Top.kind = "switch"
        PROVE  LET f == [Top EXCEPT !.phase = phase]
               IN f \in Frames /\ f.scope = Top.scope /\ Adds(f) = <<"block">> /\ At(phase) = Over(f)
    <2> DEFINE f == [Top EXCEPT !.phase = phase]
    <2>1. Top \in Frames /\ phase \in Phases
      BY <1>4, TopChain DEF Phases
    <2>2. f \in Frames /\ f.scope = Top.scope /\ f.kind = "switch" /\ At(phase) = Over(f)
      BY <1>4, <2>1 DEF Frames, At
    <2> HIDE DEF f
    <2>3. Adds(f) = <<"block">>
      BY <2>2, AddsByKind
    <2> QED BY <2>2, <2>3 DEF f
  <1>5. CASE SelectClause
    <2> DEFINE f == [Top EXCEPT !.phase = "clause"]
    <2>1. stack # <<>> /\ Top.kind = "switch" /\ scope' = scope /\ stack' = <<List>> \o At("clause")
      BY <1>5 DEF SelectClause, Is
    <2>2. List \in Frames /\ List.kind = "list" /\ List.scope = scope
      BY ScopeFacts, ListFacts DEF List, Frame
    <2>3. f \in Frames /\ f.scope = Top.scope /\ Adds(f) = <<"block">> /\ At("clause") = Over(f)
      BY <1>4, <2>1
    <2> HIDE DEF List, f
    <2>4. Adds(List) = <<>> /\ Adds(Top) = <<"block">>
      BY <2>1, <2>2, AddsByKind
    <2>5. Continues(Top.scope, f.scope) /\ Continues(f.scope \o Adds(f), List.scope)
      BY <2>1, <2>2, <2>3, <2>4, TopChain
    <2>6. stack' = <<List>> \o Over(f) /\ scope' = List.scope
      BY <2>1, <2>2, <2>3
    <2> QED BY <2>1, <2>2, <2>3, <2>4, <2>5, <2>6, ChainGoingInto
  <1>6. CASE ClauseEnds
    <2>1. stack # <<>> /\ Top.kind = "switch"
      BY <1>6 DEF ClauseEnds, Is
    <2>2. CASE reg = Normal
      <3>1. stack' = At("select") /\ scope' = scope
        BY <1>6, <2>2 DEF ClauseEnds
      <3>2. Adds(Top) = <<"block">> /\ "select" \in Phases
        BY <2>1, AddsByKind DEF Phases
      <3>3. Adds([Top EXCEPT !.phase = "select"]) = <<"block">>
        BY <1>4, <2>1
      <3> QED BY <2>1, <3>1, <3>2, <3>3, PhaseChain
    <2>3. CASE reg # Normal
      <3>1. Return(IF reg.type = "Break" /\ TargetIs(Top.label) THEN Normal ELSE reg)
        BY <1>6, <2>3 DEF ClauseEnds
      <3> QED BY <2>1, <3>1, ReturnChain
    <2> QED BY <2>2, <2>3
  <1> QED BY <1>1, <1>2, <1>3, <1>5, <1>6

LEMMA ListEndsChain ==
  ASSUME Inv, ScopeRestored, ListEnds
  PROVE  ScopeRestored'
  <1>1. /\ stack # <<>> /\ Top.kind # "try"
        /\ Return(CASE reg = Run -> Normal [] reg = Exception -> Plain("Throw") [] OTHER -> reg)
    BY DEF ListEnds, Lists
  <1> QED BY <1>1, ReturnChain

LEMMA LoopChain ==
  ASSUME Inv, ScopeRestored, TestHolds \/ TestEnds \/ BodyEnds
  PROVE  ScopeRestored'
  <1>1. stack # <<>> /\ Top.kind \in {"while", "for"} /\ Top \in Frames
    BY TopChain DEF TestHolds, TestEnds, BodyEnds, Counting
  <1>2. ASSUME NEW phase \in {"test", "body"}
        PROVE  phase \in Phases /\ Adds([Top EXCEPT !.phase = phase]) = Adds(Top)
    <2> DEFINE f == [Top EXCEPT !.phase = phase]
    <2>1. f.kind = Top.kind
      BY <1>1 DEF Frames
    <2> HIDE DEF f
    <2>2. Adds(f) = Adds(Top)
      BY <1>1, <2>1, AddsByKind
    <2> QED BY <2>2 DEF f, Phases
  <1>3. CASE TestHolds
    BY <1>1, <1>2, <1>3, PhaseChain DEF TestHolds
  <1>4. CASE TestEnds
    BY <1>1, <1>4, ReturnChain DEF TestEnds
  <1>5. CASE BodyEnds
    <2>1. \/ stack' = At("test") /\ scope' = scope
          \/ Return(IF TakesBreak THEN Normal ELSE reg)
      BY <1>5 DEF BodyEnds
    <2>2. CASE stack' = At("test") /\ scope' = scope
      BY <1>1, <1>2, <2>2, PhaseChain
    <2>3. CASE Return(IF TakesBreak THEN Normal ELSE reg)
      BY <1>1, <2>3, ReturnChain
    <2> QED BY <2>1, <2>2, <2>3
  <1> QED BY <1>3, <1>4, <1>5

LEMMA ClosingChain ==
  ASSUME Inv, ScopeRestored, stack # <<>>, Top.kind = "forOf", NEW c \in Completions,
         NEW it \in {"ended", "broken", "open"}, ToClose(c, it)
  PROVE  ScopeRestored'
  <1> DEFINE f == [Top EXCEPT !.phase = "closing", !.held = c, !.iterator = it]
  <1>1. Top \in Frames /\ "closing" \in Phases
    BY TopChain DEF Phases
  <1>2. f \in Frames /\ f.kind = "forOf" /\ f.phase = "closing" /\ f.scope = Top.scope
    BY <1>1 DEF Frames
  <1>3. stack' = Over(f) /\ scope' = Top.scope
    BY DEF ToClose
  <1> HIDE DEF f
  <1>4. Adds(f) = <<>>
    BY <1>2, AddsByKind
  <1> QED BY <1>2, <1>3, <1>4, OutsideChain

LEMMA ForOfChain ==
  ASSUME Inv, ScopeRestored,
         \/ HeadThrows \/ HeadEnds
         \/ IteratorGives \/ IteratorEnds \/ IteratorThrows \/ BindingThrows
         \/ RoundEnds \/ Closed \/ CloseThrows
  PROVE  ScopeRestored'
  <1>1. stack # <<>> /\ Top.kind = "forOf" /\ Top \in Frames
    <2>1. stack # <<>> /\ Top.kind = "forOf"
      BY DEF HeadThrows, HeadEnds, IteratorGives, IteratorEnds, IteratorThrows, BindingThrows,
             RoundEnds, Closed, CloseThrows, Is
    <2> QED BY <2>1, TopChain
  <1>2. ASSUME stack' = At("next"), scope' = Top.scope
        PROVE  ScopeRestored'
    <2> DEFINE f == [Top EXCEPT !.phase = "next"]
    <2>1. f \in Frames /\ f.kind = "forOf" /\ f.phase = "next" /\ f.scope = Top.scope
          /\ stack' = Over(f)
      BY <1>1, <1>2 DEF Frames, Phases, At
    <2> HIDE DEF f
    <2>2. Adds(f) = <<>>
      BY <2>1, AddsByKind
    <2> QED BY <1>1, <1>2, <2>1, <2>2, OutsideChain
  <1>3. CASE HeadThrows
    BY <1>1, <1>3, AbandonChain DEF HeadThrows
  <1>4. CASE HeadEnds
    BY <1>2, <1>4 DEF HeadEnds
  <1>5. CASE IteratorGives
    <2> DEFINE f == [Top EXCEPT !.phase = "body", !.iterator = "open"]
    <2>1. stack' = Over(f) /\ scope' = Append(Top.scope, "iteration")
      BY <1>5 DEF IteratorGives
    <2>2. f \in Frames /\ f.kind = "forOf" /\ f.phase = "body" /\ f.scope = Top.scope
      BY <1>1 DEF Frames, Phases
    <2> HIDE DEF f
    <2>3. Adds(f) = <<"iteration">>
      BY <2>2, AddsByKind
    <2>4. "iteration" \in Environments
      BY DEF Environments
    <2>5. scope' = f.scope \o Adds(f)
      BY <2>1, <2>2, <2>3, <2>4, AddsFacts
    <2>6. scope' \in Seq(Environments)
      BY <2>2, <2>5, AddsFacts
    <2>7. Continues(f.scope \o Adds(f), scope')
      BY <2>5, <2>6, ContinuesSame
    <2> QED BY <1>1, <2>1, <2>2, <2>6, <2>7, ChainGoingOn
  <1>6. CASE IteratorEnds
    BY <1>1, <1>6, ClosingChain, NamedFacts DEF IteratorEnds
  <1>7. CASE IteratorThrows
    <2>1. ToClose(Exception, "broken") \/ Return(Exception)
      BY <1>7 DEF IteratorThrows
    <2> QED BY <1>1, <2>1, ClosingChain, ReturnChain, NamedFacts
  <1>8. CASE BindingThrows
    BY <1>1, <1>8, ClosingChain, NamedFacts DEF BindingThrows
  <1>9. CASE RoundEnds
    <2>1. \/ stack' = At("next") /\ scope' = Top.scope
          \/ ToClose(IF TakesBreak THEN Normal ELSE reg, "open")
      BY <1>9 DEF RoundEnds
    <2>2. (IF TakesBreak THEN Normal ELSE reg) \in Completions
      BY NamedFacts DEF Inv
    <2> QED BY <1>1, <1>2, <2>1, <2>2, ClosingChain
  <1>10. CASE Closed
    <2>1. Return(Recalled(Top.held, target'))
      BY <1>10 DEF Closed
    <2> QED BY <1>1, <2>1, ReturnChain
  <1>11. CASE CloseThrows
    <2>1. Return(Top.held) \/ Return(Exception)
      BY <1>11 DEF CloseThrows
    <2> QED BY <1>1, <2>1, ReturnChain
  <1> QED BY <1>3, <1>4, <1>5, <1>6, <1>7, <1>8, <1>9, <1>10, <1>11

LEMMA ChainInit == Init => ScopeRestored
  <1> SUFFICES ASSUME Init PROVE ScopeRestored
    OBVIOUS
  <1>1. scope = <<>> /\ stack = <<List>>
    BY DEF Init
  <1>2. List \in Frames /\ List.kind = "list" /\ List.scope = <<>>
    BY <1>1, ListFacts DEF List, Frame
  <1> HIDE DEF List
  <1>3. Adds(List) = <<>>
    BY <1>2, AddsByKind
  <1>4. <<>> \in Seq(Environments) /\ List.scope \o Adds(List) = <<>>
    BY <1>2, <1>3
  <1>5. Continues(<<>>, <<>>)
    BY <1>4, ContinuesSame
  <1>6. Chained(<<>>, <<>>)
    BY <1>5 DEF Chained, Given, Found
  <1>7. Chained(<<List>> \o <<>>, <<>>)
    <2>1. Chained(<<>>, List.scope) /\ Continues(List.scope \o Adds(List), <<>>)
      BY <1>2, <1>4, <1>5, <1>6, Zenon
    <2>2. <<>> \in Seq(Frames)
      OBVIOUS
    <2> QED BY <1>2, <1>4, <2>1, <2>2, ChainPush, Zenon
  <1>8. <<List>> \o <<>> = stack
    BY <1>1
  <1> QED BY <1>1, <1>7, <1>8, ChainedHere

(* For any labels and any depth: each statement finds the environments of those *)
(* around it, whatever has ended in them and however.                           *)
THEOREM ScopeAlwaysRestored == Spec => []ScopeRestored
  <1>1. Inv /\ ScopeRestored /\ [Next]_vars => ScopeRestored'
    <2> SUFFICES ASSUME Inv, ScopeRestored, [Next]_vars PROVE ScopeRestored'
      OBVIOUS
    <2>1. CASE Next
      BY <2>1, SimpleChain, StartChain, StartTryChain, TryChain, LabeledAndSwitchChain,
         ListEndsChain, LoopChain, ForOfChain DEF Next
    <2>2. CASE UNCHANGED vars
      BY <2>2 DEF vars, ScopeRestored, Height
    <2> QED BY <2>1, <2>2
  <1> QED BY <1>1, ChainInit, InvHolds, PTL DEF Spec
=============================================================================
