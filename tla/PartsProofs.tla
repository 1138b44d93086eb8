---------------------------- MODULE PartsProofs ----------------------------
(***************************************************************************)
(* Proofs about the parts of the SDK that share no state with one another: *)
(* the dependency injection container, the calls of the rest client and    *)
(* the metrics of the messaging module.                                    *)
(***************************************************************************)
EXTENDS RestClient, Container, Telemetry, SequenceTheorems, WellFoundedInduction, TLAPS

(* The container, for any application and any depth. *)

Kinds == {"absent", "function", "object"}
Beans == [name : Constructors, is : Kinds]
Frames == [fn : Funcs, params : Seq(Types), found : Seq(Beans), args : Seq(Constructors)]

\* What a parameter of that type gets in a function f that is not variadic.
Chosen(f, c, type) ==
    \E p \in Matching(type) : order[p] = c /\ (c \in tags[f] \/ \A q \in Matching(type) : q = p)

\* The arguments, the bean found and the parameters left follow the parameter list.
Fits(frame) ==
    /\ Len(frame.args) + Len(frame.found) + Len(frame.params) = Len(needs[frame.fn])
    /\ Len(frame.found) \in 0..1
    /\ \A k \in 1..Len(frame.params) :
          frame.params[k] = needs[frame.fn][Len(frame.args) + Len(frame.found) + k]
    /\ \A k \in 1..Len(frame.args) : needs[frame.fn][k] \in provides[frame.args[k]]
    /\ Len(frame.found) = 1 => Chosen(frame.fn, frame.found[1].name, needs[frame.fn][Len(frame.args) + 1])

\* A frame waits for the one above it, and the bean found for the top one is no stale copy.
Linked ==
    /\ \A i \in 1..Len(stack) : stack[i].fn = StartFunc <=> i = 1
    /\ \A i \in 1..(Len(stack) - 1) :
          Len(stack[i].found) = 1 /\ stack[i].found[1].name = stack[i + 1].fn
    /\ stack # <<>> /\ Len(Top.found) = 1 => Top.found[1].is = dependencies[Top.found[1].name]

World == provides \in [Constructors -> SUBSET Types \ {{}}] /\ needs \in [Funcs -> Seq(Types)]

Registry ==
    /\ dependencies \in [Constructors -> Kinds] /\ order \in Seq(Constructors)
    /\ built \in [Constructors -> Nat]
    /\ app = "registering" =>
          stack = <<>> /\ \A c \in Constructors : built[c] = 0 /\ dependencies[c] # "object"

Shape ==
    /\ World /\ Registry
    /\ stack \in Seq(Frames)
    /\ app = "resolving" => stack # <<>>
    /\ (\A i \in 1..Len(stack) : Fits(stack[i])) /\ Linked

\* In the arguments of a constructor that needs itself, the inner call stays behind.
Behind ==
    \A i, j \in 1..Len(stack) :
        i < j /\ stack[i].fn = stack[j].fn => Len(stack[j].args) <= Len(stack[i].args)

Once ==
    /\ Behind
    /\ \A i \in 2..Len(stack) : dependencies[stack[i].fn] = "function"
    /\ global => \A c \in Constructors : built[c] <= 1 /\ (built[c] = 1 => dependencies[c] = "object")

ContainerInv == variadic = {} => Shape /\ (SingleTags => Once)

-----------------------------------------------------------------------------

LEMMA NonEmpty ==
    ASSUME NEW S, NEW s \in Seq(S), s # <<>>
    PROVE  /\ Len(s) \in Nat \ {0} /\ Head(s) = s[1] /\ s[1] \in S
           /\ Tail(s) \in Seq(S) /\ Len(Tail(s)) = Len(s) - 1
           /\ \A k \in 1..(Len(s) - 1) : Tail(s)[k] = s[k + 1]
           /\ Len(s) = 1 => Tail(s) = <<>>
<1>1. Len(s) \in Nat \ {0}
  BY EmptySeq
<1>2. Tail(s) \in Seq(S) /\ Len(Tail(s)) = Len(s) - 1
  BY <1>1
<1>3. \A k \in 1..(Len(s) - 1) : Tail(s)[k] = s[k + 1]
  BY <1>1
<1>4. Tail(s) # <<>> => Len(Tail(s)) \in Nat \ {0}
  BY <1>2, EmptySeq
<1>5. Head(s) = s[1] /\ s[1] \in S
  BY <1>1
<1> QED
  BY <1>1, <1>2, <1>3, <1>4, <1>5

LEMMA ContainerInvInit == ContainerInit => ContainerInv
<1> SUFFICES ASSUME ContainerInit, variadic = {} PROVE Shape /\ Once
  BY DEF ContainerInv
<1> USE ContainerAssumption DEF ContainerInit, Absent
<1>1. World
  BY DEF World
<1>2. Registry
  BY DEF Registry, Kinds
<1>3. Len(stack) = 0 /\ stack \in Seq(Frames)
  OBVIOUS
<1> QED
  BY <1>1, <1>2, <1>3 DEF Shape, Once, Behind, Linked

\* One bean is chosen for a type when the tags name one bean of each type.
LEMMA ChosenOnce ==
    ASSUME SingleTags, NEW f \in Funcs, NEW type, NEW c, NEW d, Chosen(f, c, type), Chosen(f, d, type)
    PROVE  c = d
  BY DEF Chosen, SingleTags, Matching

LEMMA WorldKept ==
    ASSUME [ContainerNext]_containerVars
    PROVE  UNCHANGED <<provides, needs, variadic, tags>>
  BY DEF ContainerNext, Register, StartApp, Search, InjectObject, ResolveConstructor,
     CallConstructor, containerVars, worldVars

\* What is injected in a function that is not variadic is chosen.
LEMMA InjectableChosen ==
    ASSUME variadic = {}, NEW f, NEW type, NEW names \in Injectable(f, type)
    PROVE  \E c : names = <<c>> /\ Chosen(f, c, type)
<1>1. CASE \A i, j \in Matching(type) : i = j
  BY <1>1 DEF Injectable, Chosen
<1>2. CASE ~\A i, j \in Matching(type) : i = j
  BY <1>2 DEF Injectable, Disambiguated, Chosen
<1> QED
  BY <1>1, <1>2

\* A frame that fits does so after a step, at the place it is then.
LEMMA FitsKept ==
    ASSUME UNCHANGED <<provides, needs, tags, order>>,
           NEW i, NEW frame, Fits(frame), stack'[i] = frame
    PROVE  Fits(stack[i])'
<1>1. \A type : Matching(type)' = Matching(type)
  BY DEF Matching
<1>2. ASSUME NEW f, NEW c, NEW type, Chosen(f, c, type) PROVE Chosen(f, c, type)'
  BY <1>1, <1>2 DEF Chosen
<1> QED
  BY <1>2 DEF Fits

LEMMA TopFits ==
    ASSUME Shape, stack # <<>>
    PROVE  /\ Len(stack) \in Nat \ {0} /\ Len(stack) \in DOMAIN stack
           /\ Top \in Frames /\ Fits(Top) /\ Top.fn \in Funcs
<1>1. Len(stack) \in Nat \ {0} /\ Len(stack) \in 1..Len(stack) /\ Len(stack) \in DOMAIN stack
  BY DEF Shape
<1>2. Top = stack[Len(stack)] /\ Top \in Frames
  BY <1>1 DEF Shape, Top
<1>3. Fits(Top)
  BY <1>1, <1>2 DEF Shape
<1> QED
  BY <1>1, <1>2, <1>3 DEF Frames

\* The bean found for the top frame is chosen for its next parameter.
LEMMA TopFound ==
    ASSUME Shape, stack # <<>>, Top.found # <<>>
    PROVE  /\ Len(Top.found) = 1 /\ Head(Top.found) = Top.found[1] /\ Tail(Top.found) = <<>>
           /\ Top.found[1].name \in Constructors
           /\ Top.found[1].is = dependencies[Top.found[1].name]
           /\ Chosen(Top.fn, Top.found[1].name, needs[Top.fn][Len(Top.args) + 1])
<1>1. Top \in Frames /\ Fits(Top)
  BY TopFits
<1> DEFINE found == Top.found
<1>2. found \in Seq(Beans) /\ Len(found) \in 0..1
  BY <1>1 DEF Frames, Fits
<1>3. Len(found) = 1 /\ Head(found) = found[1] /\ Tail(found) = <<>> /\ found[1] \in Beans
  <2>1. Len(found) \in Nat \ {0} /\ Head(found) = found[1] /\ found[1] \in Beans
    BY <1>2, NonEmpty
  <2>2. Len(found) = 1
    BY <1>2, <2>1
  <2> QED
    BY <1>2, <2>1, <2>2, NonEmpty
<1>4. found[1].name \in Constructors
  BY <1>3 DEF Beans
<1>5. found[1].is = dependencies[found[1].name]
  BY <1>3 DEF Shape, Linked
<1>6. Chosen(Top.fn, found[1].name, needs[Top.fn][Len(Top.args) + 1])
  BY <1>1, <1>3 DEF Fits
<1> QED
  BY <1>3, <1>4, <1>5, <1>6

\* A step that changes the top frame.
LEMMA TopChanges ==
    ASSUME Shape, stack # <<>>, UNCHANGED <<provides, needs, tags, order, dependencies, built>>,
           app' # "registering", NEW frame \in Frames, Fits(frame), frame.fn = Top.fn,
           Len(frame.found) = 1 => frame.found[1].is = dependencies[frame.found[1].name],
           stack' = SetTop(frame)
    PROVE  /\ Shape' /\ Len(stack') = Len(stack) /\ stack'[Len(stack)] = frame
           /\ \A i \in 1..Len(stack) : /\ stack'[i].fn = stack[i].fn
                                       /\ i # Len(stack) => stack'[i] = stack[i]
<1> DEFINE n == Len(stack)
<1> USE DEF Shape, SetTop
<1>1. n \in Nat \ {0} /\ n \in DOMAIN stack
  OBVIOUS
<1>2. stack' \in Seq(Frames) /\ Len(stack') = n /\ stack' # <<>>
  BY <1>1
<1>3. stack'[n] = frame /\ \A i \in 1..n : i # n => stack'[i] = stack[i]
  BY <1>1
<1>4. World' /\ Registry'
  BY DEF World, Registry
<1>5. ASSUME NEW i \in 1..n PROVE Fits(stack[i])'
  BY <1>3, FitsKept
<1>6. \A i \in 1..n : stack'[i].fn = stack[i].fn
  BY <1>1, <1>3 DEF Top
<1>7. Linked'
  <2>1. \A i \in 1..n : stack'[i].fn = StartFunc <=> i = 1
    BY <1>6 DEF Linked
  <2>2. ASSUME NEW i \in 1..(n - 1)
        PROVE  Len(stack'[i].found) = 1 /\ stack'[i].found[1].name = stack'[i + 1].fn
    <3>1. i \in 1..n /\ i # n /\ i + 1 \in 1..n
      BY <1>1
    <3>2. Len(stack[i].found) = 1 /\ stack[i].found[1].name = stack[i + 1].fn
      BY DEF Linked
    <3> QED
      BY <3>1, <3>2, <1>6, <1>3
  <2>3. stack'[Len(stack')] = frame
    BY <1>2, <1>3
  <2> QED
    BY <1>2, <2>1, <2>2, <2>3 DEF Linked, Top
<1> QED
  BY <1>2, <1>3, <1>4, <1>5, <1>6, <1>7

\* A step that leaves the frames and the beans alone.
LEMMA FramesKept ==
    ASSUME Shape, app' # "registering", app' = "resolving" => stack # <<>>,
           UNCHANGED <<provides, needs, tags, order, dependencies, built, stack>>
    PROVE  Shape' /\ (UNCHANGED global /\ Once => Once')
<1>1. World' /\ Registry'
  BY DEF Shape, World, Registry
<1>2. \A i \in 1..Len(stack) : Fits(stack[i])'
  BY FitsKept DEF Shape
<1>3. Linked'
  BY DEF Shape, Linked, Top
<1> QED
  BY <1>1, <1>2, <1>3 DEF Shape, Once, Behind

LEMMA RegisterStep ==
    ASSUME Shape, NEW list \in Lists, NEW isGlobal, Register(list, isGlobal)
    PROVE  Shape' /\ Once'
<1> USE ContainerAssumption DEF Shape, Register
<1>1. World' /\ Registry'
  BY DEF World, Registry, Kinds, worldVars
<1>2. stack' = <<>> /\ Len(stack') = 0
  BY DEF Registry
<1>3. Linked'
  BY <1>2 DEF Linked
<1>4. app' # "resolving" /\ \A c \in Constructors : built'[c] = 0
  BY DEF Registry
<1> QED
  BY <1>1, <1>2, <1>3, <1>4 DEF Once, Behind

\* A frame begins with all its parameters.
LEMMA FrameFits ==
    ASSUME World, NEW f \in Funcs
    PROVE  Frame(f) \in Frames /\ Fits(Frame(f)) /\ Len(Frame(f).args) = 0
  BY DEF World, Frame, Frames, Fits

LEMMA StartAppStep ==
    ASSUME Shape, StartApp
    PROVE  Shape' /\ Once'
<1> USE DEF Shape, StartApp
<1>1. World' /\ Registry' /\ UNCHANGED <<provides, needs, tags, order>>
  BY DEF World, Registry, worldVars
<1>2. Frame(StartFunc) \in Frames /\ Fits(Frame(StartFunc))
  BY FrameFits DEF Funcs
<1>3. Len(stack') = 1 /\ stack'[1] = Frame(StartFunc) /\ stack' \in Seq(Frames)
  BY <1>2
<1>4. \A i \in 1..Len(stack') : Fits(stack[i])'
  BY <1>1, <1>2, <1>3, FitsKept
<1>5. Linked'
  BY <1>3 DEF Linked, Frame, Top
<1>6. \A c \in Constructors : built'[c] = 0
  BY DEF Registry
<1> QED
  BY <1>1, <1>3, <1>4, <1>5, <1>6 DEF Once, Behind

LEMMA SearchStep ==
    ASSUME Shape, variadic = {}, Search
    PROVE  Shape' /\ (Once => Once')
<1>1. stack # <<>> /\ UNCHANGED <<provides, needs, tags, order, dependencies, built, global>>
  BY DEF Search, Shape, worldVars
<1>2. CASE app' = "panicked" /\ UNCHANGED stack
  BY <1>1, <1>2, FramesKept
<1>3. CASE ~(app' = "panicked" /\ UNCHANGED stack)
  <2>1. PICK c : /\ Chosen(Top.fn, c, Head(Top.params)) /\ UNCHANGED app
                 /\ stack' = SetTop([Top EXCEPT !.found = Copies(<<c>>), !.params = Tail(@)])
    <3>1. PICK names \in Injectable(Top.fn, Head(Top.params)) :
             /\ stack' = SetTop([Top EXCEPT !.found = Copies(names), !.params = Tail(@)])
             /\ UNCHANGED app
      BY <1>3 DEF Search
    <3>2. PICK c : names = <<c>> /\ Chosen(Top.fn, c, Head(Top.params))
      BY InjectableChosen
    <3> QED
      BY <3>1, <3>2
  <2> DEFINE copies == <<[name |-> c, is |-> dependencies[c]]>>
             params == Top.params
             frame == [Top EXCEPT !.found = copies, !.params = Tail(@)]
             a == Len(Top.args)
             p == Len(params)
  <2>2. Top \in Frames /\ Fits(Top) /\ Top.found = <<>> /\ params # <<>>
    BY <1>1, TopFits DEF Search
  <2>3. params \in Seq(Types) /\ Head(params) = params[1]
        /\ Tail(params) \in Seq(Types) /\ Len(Tail(params)) = p - 1
        /\ \A k \in 1..(p - 1) : Tail(params)[k] = params[k + 1]
    <3>1. params \in Seq(Types)
      BY <2>2 DEF Frames
    <3> QED
      BY <3>1, <2>2, NonEmpty
  <2>4. copies \in Seq(Beans) /\ Len(copies) = 1 /\ copies[1].name = c
        /\ copies[1].is = dependencies[c] /\ Copies(<<c>>) = copies
    <3>1. c \in Constructors /\ dependencies[c] \in Kinds
      BY <2>1 DEF Chosen, Matching, Shape, Registry
    <3> QED
      BY <3>1 DEF Copies, Beans
  <2>5. frame \in Frames /\ frame.fn = Top.fn /\ frame.found = copies
        /\ frame.params = Tail(params) /\ frame.args = Top.args
    <3> DEFINE rest == Tail(params)
    <3>1. rest \in Seq(Types) /\ frame = [Top EXCEPT !.found = copies, !.params = rest]
      BY <2>3
    <3> HIDE DEF copies, params, frame, rest
    <3>2. /\ frame \in Frames /\ frame.fn = Top.fn /\ frame.found = copies
          /\ frame.params = rest /\ frame.args = Top.args
      BY <2>2, <2>4, <3>1 DEF Frames, frame
    <3> QED
      BY <3>2 DEF rest
  <2>6. stack' = SetTop(frame) /\ app' # "registering"
    BY <2>1, <2>4 DEF Search
  <2>7. /\ a \in Nat /\ p \in Nat /\ p >= 1 /\ a + p = Len(needs[Top.fn])
        /\ \A k \in 1..p : params[k] = needs[Top.fn][a + k]
        /\ \A k \in 1..a : needs[Top.fn][k] \in provides[Top.args[k]]
    <3>1. a \in Nat /\ p \in Nat \ {0}
      BY <2>2, <2>3, NonEmpty DEF Frames
    <3>2. p >= 1 /\ Len(Top.found) = 0
      BY <3>1, <2>2
    <3>3. a + Len(Top.found) + p = Len(needs[Top.fn])
      BY <2>2 DEF Fits
    <3>4. \A k \in 1..p : params[k] = needs[Top.fn][a + Len(Top.found) + k]
      BY <2>2 DEF Fits
    <3>5. \A k \in 1..a : needs[Top.fn][k] \in provides[Top.args[k]]
      BY <2>2 DEF Fits
    <3> HIDE DEF a, p, params
    <3> QED
      BY <3>1, <3>2, <3>3, <3>4, <3>5
  <2> HIDE DEF frame, copies, params, a, p
  <2>8. Fits(frame)
    <3>1. Len(frame.args) = a /\ Len(frame.found) = 1 /\ Len(frame.params) = p - 1
      BY <2>3, <2>4, <2>5 DEF a
    <3>2. \A k \in 1..(p - 1) : Tail(params)[k] = needs[Top.fn][a + 1 + k]
      BY <2>3, <2>7
    <3>3. Chosen(Top.fn, c, needs[Top.fn][a + 1])
      BY <2>1, <2>3, <2>7 DEF params
    <3>4. a + 1 + (p - 1) = Len(needs[Top.fn])
      BY <2>7
    <3>5. Len(frame.args) + Len(frame.found) + Len(frame.params) = Len(needs[frame.fn])
      BY <2>5, <3>1, <3>4
    <3>6. \A k \in 1..Len(frame.params) :
             frame.params[k] = needs[frame.fn][Len(frame.args) + Len(frame.found) + k]
      BY <2>5, <3>1, <3>2
    <3>7. \A k \in 1..Len(frame.args) : needs[frame.fn][k] \in provides[frame.args[k]]
      BY <2>5, <2>7, <3>1
    <3>8. Chosen(frame.fn, frame.found[1].name, needs[frame.fn][Len(frame.args) + 1])
      BY <2>4, <2>5, <3>1, <3>3
    <3>9. Len(frame.found) \in 0..1
      BY <3>1
    <3> QED
      BY <3>5, <3>6, <3>7, <3>8, <3>9 DEF Fits
  <2>9. /\ Shape' /\ Len(stack') = Len(stack) /\ stack'[Len(stack)] = frame
        /\ \A i \in 1..Len(stack) : /\ stack'[i].fn = stack[i].fn
                                    /\ i # Len(stack) => stack'[i] = stack[i]
    BY <1>1, <2>4, <2>5, <2>6, <2>8, TopChanges
  <2>10. \A i \in 1..Len(stack) : stack'[i].args = stack[i].args
    BY <2>5, <2>9 DEF Top
  <2> QED
    BY <1>1, <2>9, <2>10 DEF Once, Behind
<1> QED
  BY <1>2, <1>3

\* The bean found for a parameter becomes an argument.
LEMMA GivenFits ==
    ASSUME NEW f \in Frames, Fits(f), Len(f.found) = 1, NEW c \in Constructors,
           c = f.found[1].name, NEW g, g = [f EXCEPT !.found = Tail(@), !.args = Append(@, c)]
    PROVE  /\ g \in Frames /\ Fits(g) /\ g.fn = f.fn /\ g.found = <<>>
           /\ g.args = Append(f.args, c) /\ Len(g.args) = Len(f.args) + 1
<1> DEFINE args == f.args
           a == Len(args)
           p == Len(f.params)
           longer == Append(args, c)
           tail == Tail(f.found)
<1>1. f.found \in Seq(Beans) /\ args \in Seq(Constructors) /\ f.params \in Seq(Types)
  BY DEF Frames
<1>2. tail = <<>>
  <2>1. f.found # <<>>
    BY EmptySeq
  <2> QED
    BY <1>1, <2>1, NonEmpty
<1>3. /\ longer \in Seq(Constructors) /\ Len(longer) = a + 1 /\ longer[a + 1] = c
      /\ \A k \in 1..a : longer[k] = args[k]
  BY <1>1, AppendProperties
<1>4. a \in Nat /\ p \in Nat
  BY <1>1
<1>5. g = [f EXCEPT !.found = tail, !.args = longer]
  OBVIOUS
<1>6. a + Len(f.found) + p = Len(needs[f.fn])
  BY DEF Fits
<1>7. \A k \in 1..p : f.params[k] = needs[f.fn][a + Len(f.found) + k]
  BY DEF Fits
<1>8. \A k \in 1..a : needs[f.fn][k] \in provides[args[k]]
  BY DEF Fits
<1>9. needs[f.fn][a + 1] \in provides[c]
  BY DEF Fits, Chosen, Matching
<1>10. tail \in Seq(Beans)
  BY <1>2, EmptySeq
<1> HIDE DEF args, longer, tail, a
<1>11. g \in Frames /\ g.fn = f.fn /\ g.found = tail /\ g.params = f.params /\ g.args = longer
  BY <1>3, <1>5, <1>10 DEF Frames
<1>12. Fits(g)
  <2>1. Len(g.found) = 0 /\ Len(g.args) = a + 1 /\ Len(g.params) = p
    BY <1>2, <1>3, <1>11
  <2>2. (a + 1) + 0 + p = Len(needs[f.fn])
    BY <1>4, <1>6
  <2>3. \A k \in 1..p : f.params[k] = needs[f.fn][(a + 1) + 0 + k]
    BY <1>4, <1>7
  <2>4. \A k \in 1..(a + 1) : needs[f.fn][k] \in provides[longer[k]]
    <3> TAKE k \in 1..(a + 1)
    <3>1. CASE k = a + 1
      BY <3>1, <1>3, <1>9
    <3>2. CASE k # a + 1
      BY <3>2, <1>3, <1>4, <1>8
    <3> QED
      BY <3>1, <3>2
  <2>5. Len(g.found) \in 0..1 /\ ~(Len(g.found) = 1)
    BY <2>1
  <2>6. Len(g.args) + Len(g.found) + Len(g.params) = Len(needs[g.fn])
    BY <1>11, <2>1, <2>2
  <2>7. \A k \in 1..Len(g.params) : g.params[k] = needs[g.fn][Len(g.args) + Len(g.found) + k]
    BY <1>11, <2>1, <2>3
  <2>8. \A k \in 1..Len(g.args) : needs[g.fn][k] \in provides[g.args[k]]
    BY <1>11, <2>1, <2>4
  <2> QED
    BY <2>5, <2>6, <2>7, <2>8 DEF Fits
<1> QED
  BY <1>2, <1>3, <1>11, <1>12 DEF args, longer, a

\* What a frame that waits was given: the constructor above it is chosen for its next
\* parameter.
LEMMA Waits ==
    ASSUME Shape, NEW i \in 1..(Len(stack) - 1)
    PROVE  /\ stack[i] \in Frames /\ Fits(stack[i]) /\ Len(stack[i].found) = 1
           /\ stack[i].found[1].name = stack[i + 1].fn /\ stack[i + 1].fn \in Constructors
           /\ Chosen(stack[i].fn, stack[i + 1].fn, needs[stack[i].fn][Len(stack[i].args) + 1])
           /\ Len(stack[i].args) \in Nat /\ Len(stack[i].args) < Len(needs[stack[i].fn])
<1>1. i \in 1..Len(stack) /\ i + 1 \in 1..Len(stack) /\ i + 1 # 1
  BY DEF Shape
<1>2. stack[i] \in Frames /\ stack[i + 1] \in Frames /\ Fits(stack[i])
  BY <1>1 DEF Shape
<1>3. Len(stack[i].found) = 1 /\ stack[i].found[1].name = stack[i + 1].fn
  BY DEF Shape, Linked
<1>4. stack[i + 1].fn \in Constructors
  BY <1>1, <1>2 DEF Shape, Linked, Frames, Funcs
<1>5. Chosen(stack[i].fn, stack[i + 1].fn, needs[stack[i].fn][Len(stack[i].args) + 1])
  BY <1>2, <1>3 DEF Fits
<1>6. Len(stack[i].args) \in Nat /\ Len(stack[i].params) \in Nat
  BY <1>2 DEF Frames
<1>7. Len(stack[i].args) + Len(stack[i].found) + Len(stack[i].params) = Len(needs[stack[i].fn])
  BY <1>2 DEF Fits
<1>8. Len(stack[i].args) < Len(needs[stack[i].fn])
  <2> DEFINE all == Len(needs[stack[i].fn])
             a == Len(stack[i].args)
             p == Len(stack[i].params)
  <2>1. a \in Nat /\ p \in Nat /\ all = a + 1 + p
    BY <1>3, <1>6, <1>7
  <2> HIDE DEF all, a, p
  <2>2. all \in Nat /\ a < all
    BY <2>1
  <2> QED
    BY <2>2 DEF all, a
<1> QED
  BY <1>2, <1>3, <1>4, <1>5, <1>6, <1>8

LEMMA InjectObjectStep ==
    ASSUME Shape, InjectObject
    PROVE  Shape' /\ (SingleTags /\ Once => Once')
<1> DEFINE n == Len(stack)
           c == Top.found[1].name
           frame == [Top EXCEPT !.found = Tail(@), !.args = Append(@, c)]
<1>1. stack # <<>> /\ UNCHANGED <<provides, needs, tags, order, dependencies, built, global>>
  BY DEF InjectObject, Shape, worldVars
<1>2. /\ Top \in Frames /\ Fits(Top) /\ Len(Top.found) = 1 /\ Head(Top.found) = Top.found[1]
      /\ c \in Constructors /\ Top.found[1].is = dependencies[c]
      /\ Chosen(Top.fn, c, needs[Top.fn][Len(Top.args) + 1])
  BY <1>1, TopFits, TopFound DEF InjectObject
<1>3. stack' = SetTop(frame) /\ app' # "registering" /\ dependencies[c] = "object"
  BY <1>2 DEF InjectObject
<1>4. /\ frame \in Frames /\ Fits(frame) /\ frame.fn = Top.fn /\ frame.found = <<>>
      /\ Len(frame.args) = Len(Top.args) + 1
  BY <1>2, GivenFits
<1> HIDE DEF frame
<1>5. Len(frame.found) = 0
  BY <1>4, EmptySeq
<1>6. /\ Shape' /\ Len(stack') = n /\ stack'[n] = frame
      /\ \A i \in 1..n : stack'[i].fn = stack[i].fn /\ (i # n => stack'[i] = stack[i])
  BY <1>1, <1>3, <1>4, <1>5, TopChanges
<1>7. ASSUME SingleTags, Once PROVE Once'
  <2>1. ASSUME NEW i \in 1..n, NEW j \in 1..n, i < j, stack[i].fn = stack[j].fn
        PROVE  Len(stack'[j].args) <= Len(stack'[i].args)
    <3>1. i \in 1..(n - 1) /\ stack'[i] = stack[i]
      <4>1. n \in Nat
        BY <1>1, TopFits
      <4> HIDE DEF n
      <4>2. i \in 1..(n - 1)
        BY <2>1, <4>1
      <4> QED
        BY <4>2, <2>1, <1>6
    <3>2. Len(stack[j].args) <= Len(stack[i].args)
      BY <1>7, <2>1 DEF Once, Behind
    <3>3. CASE j # n
      BY <3>1, <3>2, <3>3, <1>6
    <3>4. CASE j = n
      <4>1. stack[j] = Top /\ Len(stack[j].args) \in Nat
        BY <3>4, <1>2 DEF Top, Frames
      <4>2. Len(stack[j].args) # Len(stack[i].args)
        <5> SUFFICES ASSUME Len(stack[j].args) = Len(stack[i].args) PROVE FALSE
          OBVIOUS
        <5>1. Chosen(Top.fn, stack[i + 1].fn, needs[Top.fn][Len(Top.args) + 1])
          BY <2>1, <3>1, <4>1, Waits
        <5>2. stack[i + 1].fn = c
          <6>1. Top.fn \in Funcs
            BY <1>2 DEF Frames
          <6> QED
            BY <5>1, <6>1, <1>2, <1>7, ChosenOnce
        <5>3. i + 1 \in 2..n
          BY <3>1, <1>1, TopFits
        <5> QED
          BY <5>2, <5>3, <1>3, <1>7 DEF Once
      <4>3. Len(stack[i].args) \in Nat
        BY <3>1, Waits
      <4> QED
        BY <3>1, <3>2, <3>4, <4>1, <4>2, <4>3, <1>4, <1>6
    <3> QED
      BY <3>3, <3>4
  <2> QED
    BY <1>1, <1>6, <1>7, <2>1 DEF Once, Behind
<1> QED
  BY <1>6, <1>7

LEMMA ResolveConstructorStep ==
    ASSUME Shape, ResolveConstructor
    PROVE  Shape' /\ (Once => Once')
<1> DEFINE n == Len(stack)
           c == Top.found[1].name
<1>1. /\ stack # <<>> /\ app = "resolving"
      /\ UNCHANGED <<provides, needs, tags, order, dependencies, built, global>>
  BY DEF ResolveConstructor, Shape, worldVars
<1>2. CASE app' = "overflow" /\ UNCHANGED stack
  BY <1>1, <1>2, FramesKept
<1>3. CASE ~(app' = "overflow" /\ UNCHANGED stack)
  <2>1. n \in Nat \ {0} /\ n \in 1..n /\ Top = stack[n]
    BY <1>1, TopFits DEF Top
  <2>2. /\ Len(Top.found) = 1 /\ Head(Top.found) = Top.found[1]
        /\ c \in Constructors /\ dependencies[c] = "function"
    BY <1>1, TopFound DEF ResolveConstructor
  <2>3. stack' = Append(stack, Frame(c)) /\ UNCHANGED app
    BY <1>3, <2>2 DEF ResolveConstructor
  <2>4. Frame(c) \in Frames /\ Fits(Frame(c)) /\ Len(Frame(c).args) = 0
    BY <2>2, FrameFits DEF Shape, Funcs
  <2>5. /\ stack' \in Seq(Frames) /\ Len(stack') = n + 1 /\ stack'[n + 1] = Frame(c)
        /\ \A i \in 1..n : stack'[i] = stack[i]
    BY <2>3, <2>4, AppendProperties DEF Shape
  <2>6. Frame(c).fn = c /\ Frame(c).found = <<>> /\ Len(Frame(c).found) = 0
    BY DEF Frame
  <2>7. World' /\ Registry' /\ stack' # <<>>
    BY <1>1, <2>1, <2>3, <2>5 DEF Shape, World, Registry
  <2>8. \A i \in 1..(n + 1) : Fits(stack[i])'
    BY <1>1, <2>1, <2>4, <2>5, FitsKept DEF Shape
  <2>9. Linked'
    <3>1. \A i \in 1..(n + 1) : stack'[i].fn = StartFunc <=> i = 1
      BY <2>1, <2>2, <2>5, <2>6, ContainerAssumption DEF Shape, Linked
    <3>2. ASSUME NEW i \in 1..n
          PROVE  Len(stack'[i].found) = 1 /\ stack'[i].found[1].name = stack'[i + 1].fn
      <4>1. CASE i = n
        BY <4>1, <2>1, <2>2, <2>5, <2>6
      <4>2. CASE i # n
        <5>1. i \in 1..(n - 1) /\ i + 1 \in 1..n
          BY <4>2, <2>1
        <5> QED
          BY <5>1, <2>5, Waits
      <4> QED
        BY <4>1, <4>2
    <3>3. (n + 1) - 1 = n
      BY <2>1
    <3> QED
      BY <2>5, <2>6, <3>1, <3>2, <3>3 DEF Linked, Top
  <2>10. ASSUME Once PROVE Once'
    <3>1. ASSUME NEW i \in 1..(n + 1), NEW j \in 1..(n + 1), i < j, stack'[i].fn = stack'[j].fn
          PROVE  Len(stack'[j].args) <= Len(stack'[i].args)
      <4>1. i \in 1..n
        BY <3>1, <2>1
      <4>2. CASE j = n + 1
        <5>1. Len(stack'[i].args) \in Nat
          <6>1. stack'[i] \in Frames
            BY <4>1, <2>5 DEF Shape
          <6> QED
            BY <6>1 DEF Frames
        <5> QED
          BY <4>2, <5>1, <2>4, <2>5
      <4>3. CASE j # n + 1
        <5>1. j \in 1..n
          BY <4>3, <2>1
        <5> QED
          BY <3>1, <4>1, <5>1, <2>5, <2>10 DEF Once, Behind
      <4> QED
        BY <4>2, <4>3
    <3>2. ASSUME NEW i \in 2..(n + 1) PROVE dependencies'[stack'[i].fn] = "function"
      <4>1. i \in 1..n \/ i = n + 1
        BY <2>1
      <4> QED
        BY <4>1, <1>1, <2>2, <2>5, <2>6, <2>10 DEF Once
    <3> QED
      BY <1>1, <2>5, <2>10, <3>1, <3>2 DEF Once, Behind
  <2> QED
    BY <2>5, <2>7, <2>8, <2>9, <2>10 DEF Shape
<1> QED
  BY <1>2, <1>3

\* The function whose arguments are complete is no other frame's: the inner call of a
\* constructor that needs itself would not have come so far.
LEMMA CompleteIsAlone ==
    ASSUME Shape, Behind, stack # <<>>, Top.params = <<>>, Top.found = <<>>,
           NEW i \in 1..(Len(stack) - 1)
    PROVE  stack[i].fn # Top.fn
<1> DEFINE n == Len(stack)
           all == Len(needs[Top.fn])
<1> SUFFICES ASSUME stack[i].fn = Top.fn PROVE FALSE
  OBVIOUS
<1>1. n \in Nat \ {0} /\ n \in 1..n /\ Top = stack[n] /\ Fits(Top) /\ Top \in Frames
  BY TopFits DEF Top
<1>2. Len(Top.args) \in Nat
  BY <1>1 DEF Frames
<1>3. Len(Top.args) + Len(Top.found) + Len(Top.params) = all
  BY <1>1 DEF Fits
<1>4. Len(Top.found) = 0 /\ Len(Top.params) = 0
  BY EmptySeq
<1>5. Len(Top.args) = all
  BY <1>2, <1>3, <1>4
<1>6. Len(stack[n].args) <= Len(stack[i].args)
  <2>1. i \in 1..n /\ i < n
    BY <1>1
  <2> QED
    BY <1>1, <2>1 DEF Behind
<1>7. Len(stack[i].args) \in Nat /\ Len(stack[i].args) < all
  BY Waits
<1> QED
  BY <1>1, <1>2, <1>5, <1>6, <1>7

LEMMA FunctionCalled ==
    ASSUME Shape, CallConstructor, ~UNCHANGED <<dependencies, stack, built>>
    PROVE  LET f == Top.fn
               below == stack[Len(stack) - 1]
           IN /\ f # StartFunc /\ UNCHANGED app
              /\ built' = [built EXCEPT ![f] = @ + 1] /\ dependencies' = Keep(f)
              /\ stack' = [Front(stack) EXCEPT ![Len(stack) - 1] =
                             [below EXCEPT !.found = Tail(@), !.args = Append(@, f)]]
  BY DEF CallConstructor

\* What the frames are after a constructor was called.
LEMMA CallConstructorFrames ==
    ASSUME Shape, CallConstructor, ~UNCHANGED <<dependencies, stack, built>>
    PROVE  LET n == Len(stack)
               f == Top.fn
               below == stack[n - 1]
           IN /\ n \in Nat /\ n >= 2 /\ f \in Constructors /\ f = stack[n].fn
              /\ stack' \in Seq(Frames) /\ Len(stack') = n - 1 /\ stack' # <<>>
              /\ \A i \in 1..(n - 2) : stack'[i] = stack[i]
              /\ Fits(stack'[n - 1]) /\ stack'[n - 1].fn = below.fn
              /\ stack'[n - 1].found = <<>> /\ Len(stack'[n - 1].args) = Len(below.args) + 1
<1> DEFINE n == Len(stack)
           f == Top.fn
           below == stack[n - 1]
           frame == [below EXCEPT !.found = Tail(@), !.args = Append(@, f)]
           front == Front(stack)
<1>1. stack # <<>> /\ app = "resolving"
  BY DEF CallConstructor, Shape
<1>2. n \in Nat \ {0} /\ n \in 1..n /\ Top = stack[n]
  BY <1>1, TopFits DEF Top
<1>3. f # StartFunc /\ stack' = [front EXCEPT ![n - 1] = frame]
  BY FunctionCalled
<1>4. n # 1
  BY <1>2, <1>3 DEF Shape, Linked
<1>5. n \in Nat /\ n >= 2 /\ (n - 1) + 1 = n /\ n - 1 \in 1..(n - 1)
  <2> HIDE DEF n
  <2> QED
    BY <1>2, <1>4
<1>6. /\ below \in Frames /\ Fits(below) /\ Len(below.found) = 1
      /\ below.found[1].name = f /\ f \in Constructors
  BY <1>2, <1>5, Waits
<1> HIDE DEF below, f
<1>7. /\ frame \in Frames /\ Fits(frame) /\ frame.fn = below.fn /\ frame.found = <<>>
      /\ Len(frame.args) = Len(below.args) + 1
  BY <1>6, GivenFits
<1> HIDE DEF n, frame
<1>8. /\ front \in Seq(Frames) /\ Len(front) = n - 1
      /\ \A i \in 1..(n - 1) : front[i] = stack[i]
  <2>1. front = SubSeq(stack, 1, n - 1)
    BY DEF Front, n
  <2>2. \A i \in 1..(n - 1) : stack[i] \in Frames
    BY <1>5 DEF Shape, n
  <2> HIDE DEF front
  <2> QED
    BY <1>5, <2>1, <2>2, SubSeqProperties
<1> HIDE DEF front
<1>9. /\ stack' \in Seq(Frames) /\ Len(stack') = n - 1 /\ stack'[n - 1] = frame
      /\ \A i \in 1..(n - 2) : stack'[i] = stack[i]
  BY <1>3, <1>5, <1>7, <1>8, ExceptSeq
<1>10. stack' # <<>>
  BY <1>5, <1>9, EmptySeq
<1> QED
  BY <1>2, <1>3, <1>5, <1>6, <1>7, <1>9, <1>10 DEF n, below, f

LEMMA CallConstructorShape ==
    ASSUME Shape, CallConstructor, ~UNCHANGED <<dependencies, stack, built>>
    PROVE  Shape'
<1> DEFINE n == Len(stack)
           f == Top.fn
           below == stack[n - 1]
<1>1. /\ n \in Nat /\ n >= 2 /\ f \in Constructors
      /\ stack' \in Seq(Frames) /\ Len(stack') = n - 1 /\ stack' # <<>>
      /\ \A i \in 1..(n - 2) : stack'[i] = stack[i]
      /\ Fits(stack'[n - 1]) /\ stack'[n - 1].fn = below.fn /\ stack'[n - 1].found = <<>>
  BY CallConstructorFrames
<1>2. /\ UNCHANGED <<provides, needs, tags, order>> /\ app' = "resolving"
      /\ built' = [built EXCEPT ![f] = @ + 1] /\ dependencies' = Keep(f)
  BY FunctionCalled DEF CallConstructor, worldVars
<1> HIDE DEF f
<1>3. World' /\ Registry'
  <2>1. dependencies' \in [Constructors -> Kinds] /\ built' \in [Constructors -> Nat]
    BY <1>1, <1>2 DEF Shape, Registry, Keep, Kinds
  <2> QED
    BY <1>2, <2>1 DEF Shape, World, Registry
<1> DEFINE m == n - 1
<1>4. m \in Nat /\ m >= 1 /\ n - 2 = m - 1 /\ m \in 1..m
  <2> HIDE DEF n
  <2> QED
    BY <1>1
<1>5. \A i \in 1..m : i \in 1..n /\ (i = m \/ i \in 1..(m - 1))
  <2> HIDE DEF n
  <2> QED
    BY <1>1, <1>4
<1>6. \A i \in 1..m : stack'[i].fn = stack[i].fn
  BY <1>1, <1>4, <1>5
<1>7. \A i \in 1..m : Fits(stack[i])'
  <2> TAKE i \in 1..m
  <2>1. Fits(stack'[i])
    BY <1>1, <1>4, <1>5 DEF Shape
  <2> QED
    BY <1>2, <2>1, FitsKept
<1>8. Linked'
  <2>1. \A i \in 1..m : stack'[i].fn = StartFunc <=> i = 1
    BY <1>5, <1>6 DEF Shape, Linked
  <2>2. ASSUME NEW i \in 1..(m - 1)
        PROVE  Len(stack'[i].found) = 1 /\ stack'[i].found[1].name = stack'[i + 1].fn
    <3>1. i \in 1..(n - 1) /\ i + 1 \in 1..m
      BY <1>4
    <3>2. Len(stack[i].found) = 1 /\ stack[i].found[1].name = stack[i + 1].fn
      BY <3>1 DEF Shape, Linked
    <3> QED
      BY <3>1, <3>2, <1>1, <1>4, <1>6
  <2>3. Len(stack'[m].found) = 0
    BY <1>1, EmptySeq
  <2>4. Len(stack') = m
    BY <1>1
  <2> QED
    BY <2>1, <2>2, <2>3, <2>4 DEF Linked, Top
<1> QED
  BY <1>1, <1>3, <1>7, <1>8 DEF Shape

LEMMA CallConstructorOnce ==
    ASSUME Shape, CallConstructor, ~UNCHANGED <<dependencies, stack, built>>, SingleTags, Once
    PROVE  Once'
<1> DEFINE n == Len(stack)
           f == Top.fn
           below == stack[n - 1]
<1>1. /\ n \in Nat /\ n >= 2 /\ f \in Constructors /\ f = stack[n].fn /\ Len(stack') = n - 1
      /\ \A i \in 1..(n - 2) : stack'[i] = stack[i]
      /\ stack'[n - 1].fn = below.fn /\ Len(stack'[n - 1].args) = Len(below.args) + 1
  BY CallConstructorFrames
<1>2. /\ Top.params = <<>> /\ Top.found = <<>> /\ stack # <<>> /\ UNCHANGED global
      /\ built' = [built EXCEPT ![f] = @ + 1] /\ dependencies' = Keep(f)
  BY FunctionCalled DEF CallConstructor, Shape
<1>3. \A i \in 1..(n - 1) : stack[i].fn # f
  BY <1>2, CompleteIsAlone DEF Once
<1>4. \A i \in 1..(n - 1) : stack'[i].fn = stack[i].fn
  <2> TAKE i \in 1..(n - 1)
  <2>1. i = n - 1 \/ i \in 1..(n - 2)
    <3> HIDE DEF n
    <3> QED
      BY <1>1
  <2> QED
    BY <2>1, <1>1
<1>5. dependencies[f] = "function"
  BY <1>1 DEF Once
<1>6. ASSUME NEW i \in 1..(n - 1), NEW j \in 1..(n - 1), i < j, stack[i].fn = stack[j].fn
      PROVE  Len(stack'[j].args) <= Len(stack'[i].args)
  <2>1. i \in 1..(n - 2) /\ i \in 1..n /\ j \in 1..n /\ stack'[i] = stack[i]
    <3>1. i \in 1..(n - 2) /\ i \in 1..n /\ j \in 1..n
      <4> HIDE DEF n
      <4> QED
        BY <1>1, <1>6
    <3> QED
      BY <3>1, <1>1
  <2>2. Len(stack[j].args) <= Len(stack[i].args)
    BY <2>1, <1>6 DEF Once, Behind
  <2>3. CASE j # n - 1
    <3>1. j \in 1..(n - 2)
      <4> HIDE DEF n
      <4> QED
        BY <1>1, <2>3
    <3> QED
      BY <2>1, <2>2, <3>1, <1>1
  <2>4. CASE j = n - 1
    <3>1. /\ Chosen(stack[j].fn, f, needs[stack[j].fn][Len(stack[j].args) + 1])
          /\ Len(stack[j].args) \in Nat /\ Len(stack[i].args) \in Nat
          /\ Chosen(stack[i].fn, stack[i + 1].fn, needs[stack[i].fn][Len(stack[i].args) + 1])
      BY <1>1, <2>4, Waits
    <3>2. Len(stack[j].args) # Len(stack[i].args)
      <4> SUFFICES ASSUME Len(stack[j].args) = Len(stack[i].args) PROVE FALSE
        OBVIOUS
      <4>1. stack[i + 1].fn = f
        <5>1. stack[j].fn \in Funcs
          BY <1>1, <2>4, Waits DEF Frames
        <5> QED
          BY <5>1, <1>6, <3>1, ChosenOnce
      <4>2. i + 1 \in 1..(n - 1)
        <5> HIDE DEF n
        <5> QED
          BY <2>1, <1>1
      <4> QED
        BY <4>1, <4>2, <1>3
    <3> QED
      BY <2>1, <2>2, <2>4, <3>1, <3>2, <1>1
  <2> QED
    BY <2>3, <2>4
<1>7. ASSUME NEW i \in 2..(n - 1) PROVE dependencies'[stack'[i].fn] = "function"
  <2>1. i \in 1..(n - 1) /\ i \in 2..n
    <3> HIDE DEF n
    <3> QED
      BY <1>1
  <2>2. stack[i].fn # f /\ stack'[i].fn = stack[i].fn /\ dependencies[stack[i].fn] = "function"
    BY <2>1, <1>3, <1>4 DEF Once
  <2>3. dependencies'[stack[i].fn] = dependencies[stack[i].fn]
    BY <2>2, <1>2 DEF Keep, Shape, Registry
  <2> QED
    BY <2>2, <2>3
<1>8. ASSUME global', NEW c \in Constructors
      PROVE  built'[c] <= 1 /\ (built'[c] = 1 => dependencies'[c] = "object")
  <2> HIDE DEF f
  <2>1. global /\ built[c] \in Nat /\ built \in [Constructors -> Nat]
        /\ dependencies \in [Constructors -> Kinds]
        /\ built[c] <= 1 /\ (built[c] = 1 => dependencies[c] = "object")
    BY <1>2, <1>8 DEF Once, Shape, Registry
  <2>2. CASE c = f
    <3>1. built[c] = 0
      BY <2>1, <2>2, <1>5
    <3> QED
      BY <3>1, <2>1, <2>2, <1>1, <1>2 DEF Keep
  <2>3. CASE c # f
    BY <2>1, <2>3, <1>1, <1>2 DEF Keep
  <2> QED
    BY <2>2, <2>3
<1> QED
  BY <1>1, <1>4, <1>6, <1>7, <1>8 DEF Once, Behind

LEMMA ContainerInvStep ==
    ASSUME ContainerInv, [ContainerNext]_containerVars
    PROVE  ContainerInv'
<1> SUFFICES ASSUME variadic = {}
             PROVE  Shape' /\ (SingleTags => Once')
  BY WorldKept DEF ContainerInv, SingleTags
<1> USE DEF ContainerInv
<1>1. ASSUME NEW list \in Lists, NEW isGlobal \in BOOLEAN, Register(list, isGlobal)
      PROVE  Shape' /\ Once'
  BY <1>1, RegisterStep
<1>2. CASE StartApp
  BY <1>2, StartAppStep
<1>3. CASE Search
  BY <1>3, SearchStep
<1>4. CASE InjectObject
  BY <1>4, InjectObjectStep
<1>5. CASE ResolveConstructor
  BY <1>5, ResolveConstructorStep
<1>6. CASE CallConstructor
  <2>1. CASE UNCHANGED <<dependencies, stack, built>>
    <3>1. app' # "registering" /\ (app' = "resolving" => stack # <<>>)
          /\ UNCHANGED <<provides, needs, tags, order, global>>
      BY <1>6 DEF CallConstructor, worldVars, Shape
    <3> QED
      BY <2>1, <3>1, FramesKept
  <2>2. CASE ~UNCHANGED <<dependencies, stack, built>>
    BY <1>6, <2>2, CallConstructorShape, CallConstructorOnce
  <2> QED
    BY <2>1, <2>2
<1>7. CASE UNCHANGED containerVars
  <2>1. World' /\ Registry'
    BY <1>7 DEF containerVars, Shape, World, Registry
  <2>2. \A i \in 1..Len(stack) : Fits(stack[i])'
    BY <1>7, FitsKept DEF containerVars, Shape
  <2>3. Linked'
    BY <1>7 DEF containerVars, Shape, Linked, Top
  <2> QED
    BY <1>7, <2>1, <2>2, <2>3 DEF containerVars, Shape, Once, Behind
<1> QED
  BY <1>1, <1>2, <1>3, <1>4, <1>5, <1>6, <1>7 DEF ContainerNext

THEOREM ContainerHolds == ContainerSpec => []ContainerInv
<1>1. ContainerInv /\ [ContainerNext]_containerVars => ContainerInv'
  BY ContainerInvStep
<1> QED
  BY ContainerInvInit, <1>1, PTL DEF ContainerSpec

\* However many constructors share a global one, however deep the resolution goes and
\* however they depend on each other, it is built at most once (container.go:52-112).
THEOREM GlobalBuiltOnceAlways == ContainerSpec => []GlobalBuiltOnce
<1>1. ContainerInv => GlobalBuiltOnce
  BY DEF ContainerInv, Once, SingleTags, GlobalBuiltOnce
<1> QED
  BY ContainerHolds, <1>1, PTL

\* Without variadic functions the arguments collected for a function are always what
\* reflect accepts: one per parameter, each of its type (container.go:52-112).
THEOREM ArgumentsFitAlways == ContainerSpec => []ArgumentsFit
<1>1. ASSUME ContainerInv PROVE ArgumentsFit
  <2> SUFFICES ASSUME app = "resolving", variadic = {}, Top.params = <<>>, Top.found = <<>>
               PROVE  Accepts(Top.fn, Top.args)
    BY DEF ArgumentsFit
  <2>1. Shape /\ stack # <<>>
    BY <1>1 DEF ContainerInv, Shape
  <2>2. Top \in Frames /\ Fits(Top)
    BY <2>1, TopFits
  <2>3. Len(Top.found) = 0 /\ Len(Top.params) = 0
    BY EmptySeq
  <2>4. Len(Top.args) + Len(Top.found) + Len(Top.params) = Len(needs[Top.fn])
    BY <2>2 DEF Fits
  <2>5. Top.args \in Seq(Constructors) /\ Len(Top.args) \in Nat
    BY <2>2 DEF Frames
  <2>6. Len(Top.args) = Len(needs[Top.fn])
    BY <2>3, <2>4, <2>5
  <2>7. DOMAIN Top.args = 1..Len(Top.args)
    BY <2>5
  <2>8. \A k \in 1..Len(Top.args) : needs[Top.fn][k] \in provides[Top.args[k]]
    BY <2>2 DEF Fits
  <2> QED
    BY <2>5, <2>6, <2>7, <2>8 DEF Accepts
<1> QED
  BY ContainerHolds, <1>1, PTL

-----------------------------------------------------------------------------
(* The variadic functions of the container.  Candidates is a function by recursion: that it *)
(* exists, and what it returns, is proved from the least number for which it fails.         *)

\* The order of the numbers, as a relation for the library's theorem on least elements.
Before == {p \in Nat \X Nat : p[1] < p[2]}

\* A set of numbers has a least one: induction without an operator for parameter.
LEMMA Least ==
    ASSUME NEW T, T \subseteq Nat, T # {}
    PROVE  \E m \in T : \A k \in T : m <= k
<1>1. IsWellFoundedOn(Before, Nat)
  BY NatLessThanWellFounded DEF OpToRel, Before
<1>2. PICK m \in T : \A k \in T : ~(<<k, m>> \in Before)
  BY <1>1, WFMin
<1>3. ASSUME NEW k \in T PROVE m <= k
  <2>1. <<k, m>> \in Nat \X Nat /\ <<k, m>>[1] = k /\ <<k, m>>[2] = m
    OBVIOUS
  <2>2. ~(k < m)
    BY <1>2, <2>1 DEF Before
  <2> QED
    BY <2>2
<1> QED
  BY <1>3

\* The passes of searchTypes over the first n names of a list.
IsScan(f, list, p, type, n) ==
    f = [i \in 0..n |-> IF i = 0 THEN <<>>
                        ELSE IF type \in p[list[i]] THEN Append(f[i - 1], list[i])
                        ELSE f[i - 1]]

\* Candidates, for any list of names and any types they have.
Scanned(list, p, type) ==
    LET upTo[i \in 0..Len(list)] ==
            IF i = 0 THEN <<>>
            ELSE IF type \in p[list[i]] THEN Append(upTo[i - 1], list[i])
            ELSE upTo[i - 1]
    IN upTo[Len(list)]

\* The places among the first n whose name has the type.
Places(list, p, type, n) == {q \in 1..n : type \in p[list[q]]}

\* The function Candidates picks is there: a shortest list without one would be a longer
\* one of a list that has it.
LEMMA ScanExists ==
    ASSUME NEW list, NEW p, NEW type, NEW n \in Nat
    PROVE  \E f : IsScan(f, list, p, type, n)
<1> DEFINE Missing == {k \in Nat : ~\E f : IsScan(f, list, p, type, k)}
<1> SUFFICES ASSUME Missing # {} PROVE FALSE
  OBVIOUS
<1>1. PICK m \in Missing : \A k \in Missing : m <= k
  <2> HIDE DEF Missing
  <2>1. Missing \subseteq Nat
    BY DEF Missing
  <2> QED
    BY <2>1, Least
<1>2. m # 0
  <2>1. IsScan([i \in 0..0 |-> <<>>], list, p, type, 0)
    BY DEF IsScan
  <2> QED
    BY <2>1
<1>3. m - 1 \in Nat /\ m - 1 \notin Missing
  BY <1>1, <1>2
<1>4. PICK f : IsScan(f, list, p, type, m - 1)
  BY <1>3
<1> DEFINE g == [i \in 0..m |-> IF i = m
                                THEN IF type \in p[list[m]] THEN Append(f[m - 1], list[m]) ELSE f[m - 1]
                                ELSE f[i]]
<1>5. IsScan(g, list, p, type, m)
  <2>1. ASSUME NEW i \in 0..m
        PROVE  g[i] = IF i = 0 THEN <<>>
                      ELSE IF type \in p[list[i]] THEN Append(g[i - 1], list[i]) ELSE g[i - 1]
    <3>1. CASE i = m
      BY <3>1, <1>2
    <3>2. CASE i # m
      <4>1. i \in 0..(m - 1) /\ i - 1 # m /\ (i # 0 => i - 1 \in 0..(m - 1))
        BY <3>2, <1>3
      <4>2. f[i] = IF i = 0 THEN <<>>
                   ELSE IF type \in p[list[i]] THEN Append(f[i - 1], list[i]) ELSE f[i - 1]
        BY <4>1, <1>4 DEF IsScan
      <4>3. g[i] = f[i] /\ (i # 0 => g[i - 1] = f[i - 1])
        BY <4>1, <3>2
      <4> QED
        BY <4>2, <4>3
    <3> QED
      BY <3>1, <3>2
  <2> QED
    BY <2>1 DEF IsScan
<1> QED
  BY <1>1, <1>5

LEMMA ScannedIsScan ==
    ASSUME NEW list, NEW p, NEW type, Len(list) \in Nat
    PROVE  \E f : IsScan(f, list, p, type, Len(list)) /\ Scanned(list, p, type) = f[Len(list)]
<1> DEFINE F == CHOOSE f : IsScan(f, list, p, type, Len(list))
<1>1. IsScan(F, list, p, type, Len(list))
  BY ScanExists
<1>2. Scanned(list, p, type) = F[Len(list)]
  BY DEF Scanned, IsScan
<1> QED
  BY <1>1, <1>2

\* The next place is passed over, or is the last of those kept.
LEMMA EnumerationGrows ==
    ASSUME NEW S, NEW list \in Seq(S), NEW i \in 1..Len(list), NEW args \in Seq(S), NEW p, NEW type,
           Enumerates(args, list, Places(list, p, type, i - 1)),
           NEW next, next = IF type \in p[list[i]] THEN Append(args, list[i]) ELSE args
    PROVE  next \in Seq(S) /\ Enumerates(next, list, Places(list, p, type, i))
<1> DEFINE n == Len(args)
           old == Places(list, p, type, i - 1)
           new == Places(list, p, type, i)
<1>1. PICK at \in [1..n -> old] :
         /\ \A j, k \in 1..n : j < k => at[j] < at[k]
         /\ \A q \in old : \E k \in 1..n : at[k] = q
         /\ \A k \in 1..n : args[k] = list[at[k]]
  BY DEF Enumerates
<1>2. n \in Nat /\ i \in Nat /\ \A q \in old : q \in Nat /\ q < i
  BY DEF Places
<1>3. CASE type \notin p[list[i]]
  <2>1. new = old
    BY <1>3 DEF Places
  <2> QED
    BY <1>3, <2>1
<1>4. CASE type \in p[list[i]]
  <2>1. new = old \cup {i}
    BY <1>4 DEF Places
  <2>2. /\ next \in Seq(S) /\ Len(next) = n + 1 /\ next[n + 1] = list[i]
        /\ \A k \in 1..n : next[k] = args[k]
    BY <1>4, AppendProperties
  <2> DEFINE more == [k \in 1..(n + 1) |-> IF k = n + 1 THEN i ELSE at[k]]
  <2> HIDE DEF n, old, new
  <2>3. more \in [1..(n + 1) -> new]
    BY <1>1, <1>2, <2>1
  <2>4. \A j, k \in 1..(n + 1) : j < k => more[j] < more[k]
    <3> TAKE j, k \in 1..(n + 1)
    <3> HAVE j < k
    <3>1. j \in 1..n /\ more[j] = at[j] /\ at[j] \in old
      BY <1>1, <1>2
    <3> QED
      BY <3>1, <1>1, <1>2
  <2>5. \A q \in new : \E k \in 1..(n + 1) : more[k] = q
    <3> TAKE q \in new
    <3>1. CASE q = i
      <4>1. n + 1 \in 1..(n + 1) /\ more[n + 1] = i
        BY <1>2
      <4> QED
        BY <3>1, <4>1
    <3>2. CASE q \in old
      <4>1. PICK k \in 1..n : at[k] = q
        BY <3>2, <1>1
      <4>2. k \in 1..(n + 1) /\ more[k] = q
        BY <4>1, <1>2
      <4> QED
        BY <4>2
    <3> QED
      BY <3>1, <3>2, <2>1
  <2>6. \A k \in 1..(n + 1) : next[k] = list[more[k]]
    BY <1>1, <1>2, <2>2
  <2>7. Enumerates(next, list, new)
    <3> HIDE DEF more
    <3>1. more \in [1..Len(next) -> new]
      BY <2>2, <2>3
    <3>2. \A j, k \in 1..Len(next) : j < k => more[j] < more[k]
      BY <2>2, <2>4
    <3>3. \A q \in new : \E k \in 1..Len(next) : more[k] = q
      BY <2>2, <2>5
    <3>4. \A k \in 1..Len(next) : next[k] = list[more[k]]
      BY <2>2, <2>6
    <3> QED
      BY <3>1, <3>2, <3>3, <3>4 DEF Enumerates
  <2> QED
    BY <2>2, <2>7 DEF new
<1> QED
  BY <1>3, <1>4

\* searchTypes keeps the names that match, all of them, in their order.
LEMMA ScannedEnumerates ==
    ASSUME NEW S, NEW list \in Seq(S), NEW p, NEW type
    PROVE  /\ Scanned(list, p, type) \in Seq(S)
           /\ Enumerates(Scanned(list, p, type), list, Places(list, p, type, Len(list)))
<1>1. Len(list) \in Nat
  OBVIOUS
<1>2. PICK f : IsScan(f, list, p, type, Len(list)) /\ Scanned(list, p, type) = f[Len(list)]
  BY <1>1, ScannedIsScan
<1> DEFINE Good(i) == f[i] \in Seq(S) /\ Enumerates(f[i], list, Places(list, p, type, i))
           Wrong == {i \in 0..Len(list) : ~Good(i)}
<1>3. Wrong = {}
  <2> SUFFICES ASSUME Wrong # {} PROVE FALSE
    OBVIOUS
  <2>1. PICK m \in Wrong : \A k \in Wrong : m <= k
    <3>1. Wrong \subseteq Nat
      BY <1>1
    <3> HIDE DEF Wrong
    <3> QED
      BY <3>1, Least
  <2>2. m \in 0..Len(list) /\ ~Good(m)
    OBVIOUS
  <2>3. CASE m = 0
    <3>1. f[0] = <<>> /\ Places(list, p, type, 0) = {}
      BY <1>1, <1>2 DEF IsScan, Places
    <3>2. Enumerates(<<>>, list, {})
      <4>1. 1..Len(<<>>) = {}
        BY EmptySeq
      <4>2. [k \in {} |-> 0] \in [1..Len(<<>>) -> {}]
        BY <4>1
      <4> QED
        BY <4>1, <4>2, Zenon DEF Enumerates
    <3>3. f[0] \in Seq(S)
      BY <3>1, EmptySeq
    <3> QED
      BY <2>2, <2>3, <3>1, <3>2, <3>3
  <2>4. CASE m # 0
    <3>1. m \in 1..Len(list) /\ m - 1 \in 0..Len(list) /\ ~(m <= m - 1)
      BY <1>1, <2>2, <2>4
    <3>2. Good(m - 1)
      BY <2>1, <3>1
    <3>3. f[m] = IF type \in p[list[m]] THEN Append(f[m - 1], list[m]) ELSE f[m - 1]
      <4>1. m \in 0..Len(list) /\ m # 0
        BY <2>2, <2>4
      <4> HIDE DEF Wrong
      <4> QED
        BY <1>2, <4>1 DEF IsScan
    <3>4. Good(m)
      BY <3>1, <3>2, <3>3, EnumerationGrows
    <3> QED
      BY <2>2, <3>4
  <2> QED
    BY <2>3, <2>4
<1>4. Good(Len(list))
  BY <1>1, <1>3
<1> QED
  BY <1>2, <1>4

LEMMA CandidatesScanned ==
    ASSUME NEW type
    PROVE  Candidates(type) = Scanned(order, provides, type)
  BY DEF Candidates, Scanned

LEMMA CandidatesEnumerate ==
    ASSUME order \in Seq(Constructors), NEW type
    PROVE  /\ Candidates(type) \in Seq(Constructors)
           /\ Enumerates(Candidates(type), order, Matching(type))
<1>1. Matching(type) = Places(order, provides, type, Len(order))
  BY DEF Matching, Places
<1> QED
  BY <1>1, CandidatesScanned, ScannedEnumerates

LEMMA CandidatesKept ==
    ASSUME UNCHANGED <<order, provides>>, NEW type
    PROVE  Candidates(type)' = Candidates(type)
<1>1. Candidates(type)' = Scanned(order', provides', type)
  BY DEF Candidates, Scanned
<1> QED
  BY <1>1, CandidatesScanned

\* The names injected and the beans found are together what the search returned.
Follows(frame, names) ==
    /\ Len(frame.args) + Len(frame.found) = Len(names)
    /\ \A k \in 1..Len(frame.args) : frame.args[k] = names[k]
    /\ \A k \in 1..Len(frame.found) : frame.found[k].name = names[Len(frame.args) + k]

\* What is injected, and what was found, is registered.
Listed(frame) ==
    /\ \A k \in 1..Len(frame.args) : frame.args[k] \in ToSet(order)
    /\ \A k \in 1..Len(frame.found) : frame.found[k].name \in ToSet(order)

\* A variadic function with one parameter has it to search yet, or follows its candidates.
InOrder(frame) ==
    /\ Listed(frame)
    /\ frame.fn \in variadic /\ Len(needs[frame.fn]) = 1 =>
          IF frame.params = <<>> THEN Follows(frame, Candidates(needs[frame.fn][1]))
          ELSE frame.params = needs[frame.fn] /\ frame.found = <<>> /\ frame.args = <<>>

Recorded == dependencies \in [Constructors -> Kinds] /\ order \in Seq(Constructors)

VariadicInv ==
    /\ World /\ Recorded /\ stack \in Seq(Frames)
    /\ app = "registering" => stack = <<>>
    /\ app = "resolving" => stack # <<>>
    /\ \A i \in 1..Len(stack) : InOrder(stack[i]) /\ (stack[i].fn = StartFunc <=> i = 1)
    /\ \A i \in 1..(Len(stack) - 1) :
          stack[i].found # <<>> /\ stack[i].found[1].name = stack[i + 1].fn

LEMMA VariadicInvInit == ContainerInit => VariadicInv
<1> SUFFICES ASSUME ContainerInit PROVE VariadicInv
  OBVIOUS
<1> USE ContainerAssumption DEF ContainerInit, Absent
<1>1. World /\ Recorded
  BY DEF World, Recorded, Kinds
<1>2. Len(stack) = 0 /\ stack \in Seq(Frames)
  OBVIOUS
<1> QED
  BY <1>1, <1>2 DEF VariadicInv

LEMMA InOrderKept ==
    ASSUME UNCHANGED <<needs, variadic, order, provides>>,
           NEW i, NEW frame, InOrder(frame), stack'[i] = frame
    PROVE  InOrder(stack[i])'
<1>1. \A type : Candidates(type)' = Candidates(type)
  BY CandidatesKept
<1> QED
  BY <1>1 DEF InOrder, Follows, Listed

\* A step that leaves the frames alone once they are there.
LEMMA StackKept ==
    ASSUME VariadicInv, stack # <<>>, app' # "registering", Recorded',
           UNCHANGED <<provides, needs, variadic, order, stack>>
    PROVE  VariadicInv'
<1>1. \A i \in 1..Len(stack) : InOrder(stack[i])'
  BY InOrderKept DEF VariadicInv
<1> QED
  BY <1>1 DEF VariadicInv, World

\* A step that leaves the first n - 1 frames alone and changes the next, the top one then.
LEMMA FrameChanges ==
    ASSUME VariadicInv, app' # "registering", Recorded',
           UNCHANGED <<provides, needs, variadic, order>>,
           NEW n \in 1..Len(stack), NEW frame \in Frames, InOrder(frame), frame.fn = stack[n].fn,
           stack' \in Seq(Frames), Len(stack') = n, stack'[n] = frame,
           \A i \in 1..(n - 1) : stack'[i] = stack[i]
    PROVE  VariadicInv'
<1>1. Len(stack) \in Nat /\ n \in Nat /\ n >= 1 /\ stack' # <<>>
  BY DEF VariadicInv
<1>2. \A i \in 1..n : i = n \/ (i \in 1..(n - 1) /\ i + 1 \in 1..n)
  BY <1>1
<1>3. ASSUME NEW i \in 1..n PROVE InOrder(stack[i])' /\ stack'[i].fn = stack[i].fn
  <2>1. CASE i = n
    BY <2>1, InOrderKept
  <2>2. CASE i # n
    <3>1. i \in 1..(n - 1) /\ i \in 1..Len(stack)
      BY <1>1, <1>2, <2>2
    <3> QED
      BY <3>1, InOrderKept DEF VariadicInv
  <2> QED
    BY <2>1, <2>2
<1>4. \A i \in 1..n : stack'[i].fn = StartFunc <=> i = 1
  BY <1>1, <1>3 DEF VariadicInv
<1>5. ASSUME NEW i \in 1..(n - 1)
      PROVE  stack'[i].found # <<>> /\ stack'[i].found[1].name = stack'[i + 1].fn
  <2>1. i + 1 \in 1..n /\ i \in 1..(Len(stack) - 1)
    BY <1>1
  <2> QED
    BY <2>1, <1>3 DEF VariadicInv
<1>6. World'
  BY DEF VariadicInv, World
<1> QED
  BY <1>1, <1>3, <1>4, <1>5, <1>6 DEF VariadicInv

\* A bean found becomes an argument, the next of those the search returned.
LEMMA GivenInOrder ==
    ASSUME NEW f \in Frames, needs \in [Funcs -> Seq(Types)], order \in Seq(Constructors),
           InOrder(f), f.found # <<>>, NEW c, c = f.found[1].name,
           NEW g, g = [f EXCEPT !.found = Tail(@), !.args = Append(@, c)]
    PROVE  g \in Frames /\ InOrder(g) /\ g.fn = f.fn
<1> DEFINE args == f.args
           found == f.found
           longer == Append(args, c)
           tail == Tail(found)
           a == Len(args)
           m == Len(found)
<1>1. args \in Seq(Constructors) /\ found \in Seq(Beans) /\ a \in Nat
  BY DEF Frames
<1>2. /\ m \in Nat \ {0} /\ found[1] \in Beans /\ tail \in Seq(Beans) /\ Len(tail) = m - 1
      /\ \A k \in 1..(m - 1) : tail[k] = found[k + 1]
  BY <1>1, NonEmpty
<1>3. c \in Constructors
  BY <1>2 DEF Beans
<1>4. /\ longer \in Seq(Constructors) /\ Len(longer) = a + 1 /\ longer[a + 1] = c
      /\ \A k \in 1..a : longer[k] = args[k]
  BY <1>1, <1>3, AppendProperties
<1>5. g = [f EXCEPT !.found = tail, !.args = longer]
  OBVIOUS
<1> HIDE DEF longer, tail
<1>6. g \in Frames /\ g.fn = f.fn /\ g.found = tail /\ g.params = f.params /\ g.args = longer
  BY <1>2, <1>4, <1>5 DEF Frames
<1>7. ASSUME NEW names, Follows(f, names) PROVE Follows(g, names)
  <2> HIDE DEF a, m, args, found
  <2>1. /\ a + m = Len(names) /\ \A k \in 1..a : args[k] = names[k]
        /\ \A k \in 1..m : found[k].name = names[a + k]
    BY <1>7 DEF Follows, a, m, args, found
  <2>2. c = names[a + 1]
    BY <1>2, <2>1 DEF found
  <2>3. (a + 1) + (m - 1) = Len(names)
    BY <1>1, <1>2, <2>1
  <2>4. \A k \in 1..(a + 1) : longer[k] = names[k]
    BY <1>1, <1>4, <2>1, <2>2
  <2>5. \A k \in 1..(m - 1) : tail[k].name = names[(a + 1) + k]
    <3> TAKE k \in 1..(m - 1)
    <3>1. a \in Nat /\ m \in Nat /\ m - 1 \in Nat
      BY <1>1, <1>2 DEF a, args
    <3>2. k \in Nat /\ k + 1 \in 1..m
      BY <3>1
    <3>3. a + (k + 1) = (a + 1) + k
      BY <3>1, <3>2
    <3> QED
      BY <3>2, <3>3, <1>2, <2>1 DEF m, found
  <2> QED
    BY <1>2, <1>4, <1>6, <2>3, <2>4, <2>5 DEF Follows
<1>8. Listed(g)
  <2> HIDE DEF a, m, args, found
  <2>1. /\ \A k \in 1..a : args[k] \in ToSet(order)
        /\ \A k \in 1..m : found[k].name \in ToSet(order)
    BY DEF InOrder, Listed, a, m, args, found
  <2>2. c \in ToSet(order)
    BY <1>2, <2>1 DEF found
  <2>3. \A k \in 1..(a + 1) : longer[k] \in ToSet(order)
    <3> TAKE k \in 1..(a + 1)
    <3>1. CASE k = a + 1
      BY <1>4, <2>2, <3>1
    <3>2. CASE k # a + 1
      <4>1. k \in 1..a
        BY <1>1, <3>2 DEF a, args
      <4> QED
        BY <1>4, <2>1, <4>1
    <3> QED
      BY <3>1, <3>2
  <2>4. \A k \in 1..(m - 1) : k + 1 \in 1..m
    BY <1>2
  <2>5. \A k \in 1..(m - 1) : tail[k].name \in ToSet(order)
    BY <1>2, <2>1, <2>4
  <2> QED
    BY <1>2, <1>4, <1>6, <2>3, <2>5 DEF Listed
<1>9. InOrder(g)
  BY <1>6, <1>7, <1>8 DEF InOrder
<1> QED
  BY <1>6, <1>9

\* What is injected is a list of registered constructors, and the candidates in a variadic
\* function.
LEMMA InjectableTyped ==
    ASSUME order \in Seq(Constructors), NEW f, NEW type, NEW names \in Injectable(f, type)
    PROVE  /\ names \in Seq(Constructors) /\ (f \in variadic => names = Candidates(type))
           /\ \A k \in 1..Len(names) : names[k] \in ToSet(order)
<1>1. CASE f \in variadic
  <2>1. names = Candidates(type)
    BY <1>1 DEF Injectable
  <2>2. names \in Seq(Constructors) /\ Enumerates(names, order, Matching(type))
    BY <2>1, CandidatesEnumerate
  <2>3. \A k \in 1..Len(names) : \E i \in Matching(type) : names[k] = order[i]
    BY <2>2 DEF Enumerates
  <2> QED
    BY <2>1, <2>2, <2>3 DEF Matching, ToSet
<1>2. CASE f \notin variadic
  <2>1. PICK i \in Matching(type) : names = <<order[i]>>
    BY <1>2 DEF Injectable, Disambiguated
  <2>2. order[i] \in Constructors /\ order[i] \in ToSet(order)
    BY DEF Matching, ToSet
  <2> QED
    BY <1>2, <2>1, <2>2
<1> QED
  BY <1>1, <1>2

LEMMA VariadicTop ==
    ASSUME VariadicInv, stack # <<>>
    PROVE  /\ Len(stack) \in Nat \ {0} /\ Len(stack) \in 1..Len(stack)
           /\ Top = stack[Len(stack)] /\ Top \in Frames /\ InOrder(Top)
           /\ \A g \in Frames : /\ SetTop(g) \in Seq(Frames) /\ Len(SetTop(g)) = Len(stack)
                                /\ SetTop(g)[Len(stack)] = g
                                /\ \A i \in 1..(Len(stack) - 1) : SetTop(g)[i] = stack[i]
<1>1. Len(stack) \in Nat \ {0} /\ Len(stack) \in 1..Len(stack)
  <2>1. Len(stack) \in Nat \ {0}
    BY EmptySeq DEF VariadicInv
  <2> QED
    BY <2>1
<1>2. Top = stack[Len(stack)] /\ Top \in Frames /\ InOrder(Top)
  BY <1>1 DEF Top, VariadicInv
<1> QED
  BY <1>1, <1>2 DEF SetTop, VariadicInv

LEMMA SearchInOrder ==
    ASSUME VariadicInv, Search
    PROVE  VariadicInv'
<1>1. /\ stack # <<>> /\ app = "resolving" /\ Top.found = <<>> /\ Top.params # <<>> /\ Recorded'
      /\ UNCHANGED <<provides, needs, variadic, order>>
  BY DEF Search, VariadicInv, worldVars, Recorded
<1>2. CASE app' = "panicked" /\ UNCHANGED stack
  BY <1>1, <1>2, StackKept
<1>3. CASE ~(app' = "panicked" /\ UNCHANGED stack)
  <2>1. PICK names \in Injectable(Top.fn, Head(Top.params)) :
           /\ stack' = SetTop([Top EXCEPT !.found = Copies(names), !.params = Tail(@)])
           /\ UNCHANGED app
    BY <1>3 DEF Search
  <2> DEFINE found == Copies(names)
             params == Top.params
             rest == Tail(params)
             frame == [Top EXCEPT !.found = found, !.params = rest]
  <2>2. /\ names \in Seq(Constructors) /\ (Top.fn \in variadic => names = Candidates(Head(params)))
        /\ \A k \in 1..Len(names) : names[k] \in ToSet(order)
    BY InjectableTyped DEF VariadicInv, Recorded
  <2>3. /\ found \in Seq(Beans) /\ Len(found) = Len(names)
        /\ \A k \in 1..Len(names) : found[k].name = names[k]
    <3>1. \A k \in 1..Len(names) : names[k] \in Constructors /\ dependencies[names[k]] \in Kinds
      BY <2>2 DEF VariadicInv, Recorded
    <3>2. found = [k \in 1..Len(names) |-> [name |-> names[k], is |-> dependencies[names[k]]]]
      BY <2>2 DEF Copies
    <3>3. Len(names) \in Nat
      BY <2>2
    <3> HIDE DEF found
    <3> QED
      BY <3>1, <3>2, <3>3 DEF Beans
  <2>4. Top \in Frames /\ InOrder(Top) /\ params \in Seq(Types)
    BY <1>1, VariadicTop DEF Frames
  <2>5. /\ Head(params) = params[1] /\ rest \in Seq(Types)
        /\ Len(params) = 1 => rest = <<>>
    BY <1>1, <2>4, NonEmpty
  <2> HIDE DEF found, rest
  <2>6. /\ frame \in Frames /\ frame.fn = Top.fn /\ frame.found = found /\ frame.params = rest
        /\ frame.args = Top.args
    BY <2>3, <2>4, <2>5 DEF Frames
  <2> HIDE DEF frame
  <2>7. InOrder(frame)
    <3>6. Listed(frame)
      BY <2>2, <2>3, <2>4, <2>6 DEF InOrder, Listed
    <3> SUFFICES ASSUME Top.fn \in variadic, Len(needs[Top.fn]) = 1
                 PROVE  rest = <<>> /\ Follows(frame, Candidates(needs[Top.fn][1]))
      BY <2>6, <3>6 DEF InOrder
    <3>1. params = needs[Top.fn] /\ Top.args = <<>>
      BY <1>1, <2>4 DEF InOrder
    <3>2. rest = <<>> /\ names = Candidates(needs[Top.fn][1])
      BY <2>2, <2>5, <3>1
    <3>3. Len(frame.args) = 0
      BY <2>6, <3>1, EmptySeq
    <3>4. Len(names) \in Nat
      BY <2>2
    <3>5. Follows(frame, names)
      BY <2>3, <2>6, <3>3, <3>4 DEF Follows
    <3> QED
      BY <3>2, <3>5
  <2>8. stack' = SetTop(frame) /\ app' # "registering"
    BY <1>1, <2>1 DEF frame, found, rest
  <2> QED
    BY <1>1, <2>6, <2>7, <2>8, VariadicTop, FrameChanges
<1> QED
  BY <1>2, <1>3

LEMMA InjectInOrder ==
    ASSUME VariadicInv, InjectObject
    PROVE  VariadicInv'
<1> DEFINE c == Top.found[1].name
           frame == [Top EXCEPT !.found = Tail(@), !.args = Append(@, c)]
<1>1. /\ stack # <<>> /\ app = "resolving" /\ Top.found # <<>> /\ Recorded' /\ app' # "registering"
      /\ UNCHANGED <<provides, needs, variadic, order>>
  BY DEF InjectObject, VariadicInv, worldVars, Recorded
<1>2. Top \in Frames /\ InOrder(Top)
  BY <1>1, VariadicTop
<1>3. Head(Top.found) = Top.found[1]
  BY <1>1, <1>2, NonEmpty DEF Frames
<1>4. stack' = SetTop(frame)
  BY <1>3 DEF InjectObject
<1>5. frame \in Frames /\ InOrder(frame) /\ frame.fn = Top.fn
  BY <1>1, <1>2, GivenInOrder DEF VariadicInv, World, Recorded
<1> HIDE DEF frame
<1> QED
  BY <1>1, <1>4, <1>5, VariadicTop, FrameChanges

\* A frame begins with its parameters to search.
LEMMA FrameInOrder ==
    ASSUME World, NEW f \in Funcs
    PROVE  Frame(f) \in Frames /\ InOrder(Frame(f)) /\ Frame(f).fn = f
<1>1. Frame(f) \in Frames /\ Frame(f).fn = f
  BY DEF World, Frame, Frames
<1>2. ASSUME Len(needs[f]) = 1 PROVE needs[f] # <<>>
  BY <1>2, EmptySeq
<1>3. Len(Frame(f).args) = 0 /\ Len(Frame(f).found) = 0
  BY EmptySeq DEF Frame
<1> QED
  BY <1>1, <1>2, <1>3 DEF InOrder, Listed, Frame

LEMMA StartInOrder ==
    ASSUME VariadicInv, StartApp
    PROVE  VariadicInv'
<1>1. /\ World' /\ Recorded' /\ app' = "resolving"
      /\ UNCHANGED <<provides, needs, variadic, order>>
  BY DEF StartApp, VariadicInv, worldVars, Recorded, World
<1>2. Frame(StartFunc) \in Frames /\ InOrder(Frame(StartFunc)) /\ Frame(StartFunc).fn = StartFunc
  BY FrameInOrder DEF Funcs, VariadicInv
<1>3. /\ stack' \in Seq(Frames) /\ Len(stack') = 1 /\ stack'[1] = Frame(StartFunc)
      /\ stack' # <<>>
  BY <1>2 DEF StartApp
<1>4. \A i \in 1..1 : InOrder(stack[i])'
  BY <1>1, <1>2, <1>3, InOrderKept
<1> QED
  BY <1>1, <1>2, <1>3, <1>4 DEF VariadicInv

LEMMA ResolveInOrder ==
    ASSUME VariadicInv, ResolveConstructor
    PROVE  VariadicInv'
<1> DEFINE n == Len(stack)
           c == Top.found[1].name
<1>1. /\ stack # <<>> /\ app = "resolving" /\ Top.found # <<>> /\ Recorded'
      /\ UNCHANGED <<provides, needs, variadic, order>>
  BY DEF ResolveConstructor, VariadicInv, worldVars, Recorded
<1>2. CASE app' = "overflow" /\ UNCHANGED stack
  BY <1>1, <1>2, StackKept
<1>3. CASE ~(app' = "overflow" /\ UNCHANGED stack)
  <2>1. n \in Nat \ {0} /\ Top = stack[n] /\ Top \in Frames
    BY <1>1, VariadicTop
  <2>2. Head(Top.found) = Top.found[1] /\ c \in Constructors
    <3>1. Top.found \in Seq(Beans)
      BY <2>1 DEF Frames
    <3>2. Head(Top.found) = Top.found[1] /\ Top.found[1] \in Beans
      BY <1>1, <3>1, NonEmpty
    <3> QED
      BY <3>2 DEF Beans
  <2>3. stack' = Append(stack, Frame(c)) /\ UNCHANGED app
    BY <1>3, <2>2 DEF ResolveConstructor
  <2>4. Frame(c) \in Frames /\ InOrder(Frame(c)) /\ Frame(c).fn = c
    BY <2>2, FrameInOrder DEF Funcs, VariadicInv
  <2>5. /\ stack' \in Seq(Frames) /\ Len(stack') = n + 1 /\ stack'[n + 1] = Frame(c)
        /\ \A i \in 1..n : stack'[i] = stack[i]
    BY <2>3, <2>4, AppendProperties DEF VariadicInv
  <2>6. \A i \in 1..(n + 1) : InOrder(stack[i])'
    <3> TAKE i \in 1..(n + 1)
    <3>1. i \in 1..n \/ i = n + 1
      BY <2>1
    <3> QED
      BY <1>1, <2>4, <2>5, <3>1, InOrderKept DEF VariadicInv
  <2>7. \A i \in 1..(n + 1) : stack'[i].fn = StartFunc <=> i = 1
    <3> TAKE i \in 1..(n + 1)
    <3>1. i \in 1..n \/ (i = n + 1 /\ i # 1)
      BY <2>1
    <3> QED
      BY <2>2, <2>4, <2>5, <3>1, ContainerAssumption DEF VariadicInv
  <2>8. ASSUME NEW i \in 1..n
        PROVE  stack'[i].found # <<>> /\ stack'[i].found[1].name = stack'[i + 1].fn
    <3>1. CASE i = n
      BY <3>1, <1>1, <2>1, <2>4, <2>5
    <3>2. CASE i # n
      <4>1. i \in 1..(n - 1) /\ i + 1 \in 1..n
        BY <3>2, <2>1
      <4> QED
        BY <4>1, <2>5 DEF VariadicInv
    <3> QED
      BY <3>1, <3>2
  <2>9. (n + 1) - 1 = n /\ World' /\ stack' # <<>>
    BY <1>1, <2>1, <2>5 DEF VariadicInv, World
  <2> QED
    BY <1>1, <2>3, <2>5, <2>6, <2>7, <2>8, <2>9 DEF VariadicInv
<1> QED
  BY <1>2, <1>3

LEMMA CallInOrder ==
    ASSUME VariadicInv, CallConstructor
    PROVE  VariadicInv'
<1> DEFINE n == Len(stack)
           f == Top.fn
           below == stack[n - 1]
           frame == [below EXCEPT !.found = Tail(@), !.args = Append(@, f)]
           front == Front(stack)
<1>1. /\ stack # <<>> /\ app = "resolving" /\ app' # "registering"
      /\ UNCHANGED <<provides, needs, variadic, order>>
  BY DEF CallConstructor, VariadicInv, worldVars
<1>2. CASE UNCHANGED <<dependencies, stack>>
  <2>1. Recorded'
    BY <1>1, <1>2 DEF VariadicInv, Recorded
  <2> QED
    BY <1>1, <1>2, <2>1, StackKept
<1>3. CASE ~UNCHANGED <<dependencies, stack>>
  <2>1. f # StartFunc /\ dependencies' = Keep(f) /\ stack' = [front EXCEPT ![n - 1] = frame]
    BY <1>3 DEF CallConstructor
  <2>2. n \in Nat \ {0} /\ n \in 1..n /\ Top = stack[n] /\ Top \in Frames
    BY <1>1, VariadicTop
  <2>3. f \in Constructors /\ n # 1
    BY <2>1, <2>2 DEF VariadicInv, Frames, Funcs
  <2>4. Recorded'
    BY <1>1, <2>1, <2>3 DEF VariadicInv, Recorded, Keep, Kinds
  <2>5. n \in Nat /\ n >= 2 /\ (n - 1) + 1 = n /\ n - 1 \in 1..(n - 1) /\ n - 1 \in 1..n
    <3> HIDE DEF n
    <3> QED
      BY <2>2, <2>3
  <2>6. below \in Frames /\ InOrder(below) /\ below.found # <<>> /\ below.found[1].name = f
    BY <2>2, <2>5 DEF VariadicInv
  <2> HIDE DEF below, f
  <2>7. frame \in Frames /\ InOrder(frame) /\ frame.fn = below.fn
    BY <2>6, GivenInOrder DEF VariadicInv, World, Recorded
  <2> HIDE DEF n, frame
  <2>8. /\ front \in Seq(Frames) /\ Len(front) = n - 1
        /\ \A i \in 1..(n - 1) : front[i] = stack[i]
    <3>1. front = SubSeq(stack, 1, n - 1)
      BY DEF Front, n
    <3>2. \A i \in 1..(n - 1) : stack[i] \in Frames
      BY <2>5 DEF VariadicInv, n
    <3> HIDE DEF front
    <3> QED
      BY <2>5, <3>1, <3>2, SubSeqProperties
  <2> HIDE DEF front
  <2>9. /\ stack' \in Seq(Frames) /\ Len(stack') = n - 1 /\ stack'[n - 1] = frame
        /\ \A i \in 1..((n - 1) - 1) : stack'[i] = stack[i]
    BY <2>1, <2>5, <2>7, <2>8
  <2>10. n - 1 \in 1..Len(stack) /\ frame.fn = stack[n - 1].fn
    BY <2>5, <2>7 DEF n, below
  <2> QED
    BY <1>1, <2>4, <2>7, <2>9, <2>10, FrameChanges
<1> QED
  BY <1>2, <1>3

LEMMA RegisterInOrder ==
    ASSUME VariadicInv, NEW list \in Lists, NEW isGlobal, Register(list, isGlobal)
    PROVE  VariadicInv'
<1> USE ContainerAssumption
<1>1. World' /\ Recorded'
  BY DEF VariadicInv, Register, World, Recorded, Kinds, worldVars
<1>2. stack' = <<>> /\ Len(stack') = 0 /\ stack' \in Seq(Frames) /\ app' # "resolving"
  BY DEF VariadicInv, Register
<1> QED
  BY <1>1, <1>2 DEF VariadicInv

THEOREM VariadicHolds == ContainerSpec => []VariadicInv
<1>1. ASSUME VariadicInv, [ContainerNext]_containerVars PROVE VariadicInv'
  <2>1. CASE UNCHANGED containerVars
    <3>1. UNCHANGED <<provides, needs, variadic, order, stack, app, dependencies>>
      BY <2>1 DEF containerVars
    <3>2. \A i \in 1..Len(stack) : InOrder(stack[i])'
      BY <1>1, <3>1, InOrderKept DEF VariadicInv
    <3> QED
      BY <1>1, <3>1, <3>2 DEF VariadicInv, World, Recorded
  <2> QED
    BY <1>1, <2>1, RegisterInOrder, StartInOrder, SearchInOrder, InjectInOrder, ResolveInOrder,
       CallInOrder DEF ContainerNext
<1> QED
  BY VariadicInvInit, <1>1, PTL DEF ContainerSpec

\* What else the variables may be.
Registered ==
    /\ needs \in [Funcs -> ParamLists] /\ variadic \subseteq Funcs /\ tags \in [Funcs -> SUBSET Constructors]
    /\ global \in BOOLEAN /\ order \in Lists \cup {<<>>} /\ Len(stack) <= MaxDepth
    /\ built \in [Constructors -> Nat]
    /\ app \in {"registering", "resolving", "running", "panicked", "overflow"}

LEMMA RegisteredInit == ContainerInit => Registered
<1> SUFFICES ASSUME ContainerInit PROVE Registered
  OBVIOUS
<1>1. Len(stack) = 0
  BY EmptySeq DEF ContainerInit
<1>2. MaxDepth \in Nat /\ Len(stack) <= MaxDepth
  BY <1>1, ContainerAssumption
<1>3. variadic \subseteq Funcs /\ tags \in [Funcs -> SUBSET Constructors]
  BY DEF ContainerInit
<1>4. built \in [Constructors -> Nat] /\ order \in Lists \cup {<<>>} /\ global \in BOOLEAN
  BY DEF ContainerInit
<1>5. app = "registering" /\ needs \in [Funcs -> ParamLists]
  BY DEF ContainerInit
<1> QED
  BY <1>2, <1>3, <1>4, <1>5 DEF Registered

LEMMA TopKeepsLength ==
    ASSUME VariadicInv, UNCHANGED stack \/ \E frame : stack' = SetTop(frame)
    PROVE  Len(stack') = Len(stack)
<1>1. CASE UNCHANGED stack
  BY <1>1
<1>2. CASE \E frame : stack' = SetTop(frame)
  <2>1. PICK frame : stack' = SetTop(frame)
    BY <1>2
  <2> DEFINE Wider == Frames \cup {frame}
  <2>2. stack \in Seq(Wider)
    BY DEF VariadicInv
  <2>3. frame \in Wider
    OBVIOUS
  <2> HIDE DEF Wider
  <2> QED
    BY <2>1, <2>2, <2>3 DEF SetTop
<1> QED
  BY <1>1, <1>2

LEMMA RegisteredStep ==
    ASSUME VariadicInv, Registered, [ContainerNext]_containerVars
    PROVE  Registered'
<1> USE ContainerAssumption DEF Registered, worldVars
<1>1. CASE \E list \in Lists, isGlobal \in BOOLEAN : Register(list, isGlobal)
  BY <1>1 DEF Register
<1>2. CASE StartApp
  <2>1. Len(stack') = 1
    BY <1>2 DEF StartApp
  <2> QED
    BY <1>2, <2>1 DEF StartApp
<1>3. CASE Search
  <2>1. UNCHANGED stack \/ \E frame : stack' = SetTop(frame)
    BY <1>3 DEF Search
  <2>2. Len(stack') = Len(stack)
    BY <2>1, TopKeepsLength
  <2> QED
    BY <1>3, <2>2 DEF Search
<1>4. CASE InjectObject
  <2>1. \E frame : stack' = SetTop(frame)
    BY <1>4 DEF InjectObject
  <2>2. Len(stack') = Len(stack)
    BY <2>1, TopKeepsLength
  <2> QED
    BY <1>4, <2>2 DEF InjectObject
<1>5. CASE ResolveConstructor
  <2>1. Len(stack) \in Nat
    BY DEF VariadicInv
  <2>2. \/ UNCHANGED stack
        \/ Len(stack) # MaxDepth /\ stack' = Append(stack, Frame(Head(Top.found).name))
    BY <1>5 DEF ResolveConstructor
  <2>3. Len(stack') <= MaxDepth
    <3>1. CASE UNCHANGED stack
      BY <3>1
    <3>2. CASE Len(stack) # MaxDepth /\ stack' = Append(stack, Frame(Head(Top.found).name))
      <4> DEFINE frame == Frame(Head(Top.found).name)
      <4>1. stack \in Seq(Frames \cup {frame})
        BY DEF VariadicInv
      <4>2. Len(stack') = Len(stack) + 1
        <5> HIDE DEF frame
        <5>1. stack' = Append(stack, frame)
          BY <3>2 DEF frame
        <5> QED
          BY <4>1, <5>1, AppendProperties
      <4> QED
        BY <3>2, <4>2, <2>1
    <3> QED
      BY <2>2, <3>1, <3>2
  <2> QED
    BY <1>5, <2>3 DEF ResolveConstructor
<1>6. CASE CallConstructor
  <2>1. VariadicInv'
    BY <1>6, CallInOrder
  <2>2. built' \in [Constructors -> Nat]
    BY <1>6 DEF CallConstructor
  <2>3. Len(stack') <= MaxDepth
    <3>1. UNCHANGED stack \/ \E frame : stack' = [Front(stack) EXCEPT ![Len(stack) - 1] = frame]
      BY <1>6 DEF CallConstructor
    <3>2. ASSUME NEW frame, stack' = [Front(stack) EXCEPT ![Len(stack) - 1] = frame]
          PROVE  Len(stack') <= MaxDepth
      <4>1. stack \in Seq(Frames) /\ Len(stack) \in Nat /\ stack # <<>>
        BY <1>6 DEF VariadicInv, CallConstructor
      <4>2. Len(stack) >= 1
        BY <4>1, EmptySeq
      <4>3. DOMAIN Front(stack) = 1..(Len(stack) - 1)
        BY <4>1, <4>2 DEF Front
      <4>4. DOMAIN stack' = 1..(Len(stack) - 1)
        BY <3>2, <4>3
      <4>5. stack' \in Seq(Frames)
        BY <2>1 DEF VariadicInv
      <4>6. Len(stack') = Len(stack) - 1
        BY <4>1, <4>2, <4>4, <4>5
      <4> QED
        BY <4>1, <4>6
    <3> QED
      BY <3>1, <3>2
  <2> QED
    BY <1>6, <2>2, <2>3 DEF CallConstructor
<1>7. CASE UNCHANGED containerVars
  BY <1>7 DEF containerVars
<1> QED
  BY <1>1, <1>2, <1>3, <1>4, <1>5, <1>6, <1>7 DEF ContainerNext

\* Every variable of the container has its type, and the stack its shape: the start
\* function at the bottom and nowhere else, and only registered beans among the arguments.
THEOREM ContainerTypes == ContainerSpec => []ContainerTypeOK
<1>1. VariadicInv /\ Registered => ContainerTypeOK
  <2> SUFFICES ASSUME VariadicInv, Registered PROVE ContainerTypeOK
    OBVIOUS
  <2>1. ASSUME NEW i \in DOMAIN stack PROVE ToSet(stack[i].args) \subseteq ToSet(order)
    <3>1. stack[i] \in Frames /\ Listed(stack[i])
      BY DEF VariadicInv, InOrder
    <3>2. stack[i].args \in Seq(Constructors)
      BY <3>1 DEF Frames
    <3>3. \A k \in DOMAIN stack[i].args : stack[i].args[k] \in ToSet(order)
      BY <3>1, <3>2 DEF Listed
    <3>4. ToSet(stack[i].args) = {stack[i].args[k] : k \in DOMAIN stack[i].args}
      BY DEF ToSet
    <3> QED
      BY <3>3, <3>4
  <2>2. \A i \in DOMAIN stack : stack[i].fn = StartFunc <=> i = 1
    BY DEF VariadicInv
  <2> QED
    BY <2>1, <2>2 DEF ContainerTypeOK, VariadicInv, Registered, World, Recorded, Kinds
<1>2. Registered /\ VariadicInv /\ [ContainerNext]_containerVars => Registered'
  BY RegisteredStep
<1> QED
  BY VariadicHolds, RegisteredInit, <1>1, <1>2, PTL DEF ContainerSpec

LEMMA FollowedInOrder ==
    ASSUME VariadicInv, NEW i \in DOMAIN stack, stack[i].fn \in variadic,
           Len(needs[stack[i].fn]) = 1, stack[i].params = <<>>, stack[i].found = <<>>
    PROVE  Enumerates(stack[i].args, order, Matching(needs[stack[i].fn][1]))
<1> DEFINE frame == stack[i]
           names == Candidates(needs[frame.fn][1])
<1>1. i \in 1..Len(stack) /\ frame \in Frames /\ InOrder(frame)
  BY DEF VariadicInv
<1>2. names \in Seq(Constructors) /\ Enumerates(names, order, Matching(needs[frame.fn][1]))
  BY CandidatesEnumerate DEF VariadicInv, Recorded
<1>3. Follows(frame, names)
  BY <1>1 DEF InOrder
<1>4. frame.args \in Seq(Constructors) /\ Len(frame.found) = 0
  BY <1>1, EmptySeq DEF Frames
<1> HIDE DEF names
<1>5. frame.args = names
  <2> DEFINE args == frame.args
  <2>1. Len(args) = Len(names) /\ \A k \in 1..Len(args) : args[k] = names[k]
    BY <1>3, <1>4 DEF Follows
  <2> HIDE DEF args
  <2>2. args \in Seq(Constructors)
    BY <1>4 DEF args
  <2>3. args = names
    BY <1>2, <2>1, <2>2, SeqEqual
  <2> QED
    BY <2>3 DEF args
<1> QED
  BY <1>2, <1>5 DEF names

\* Whatever the application registers and however its constructors nest: a function is
\* called with what its parameters ask for, and a variadic function of one parameter with
\* every bean of its type, in registration order (container.go:114-141).
THEOREM CallsFitAlways == ContainerSpec => []CallsFit
<1>1. VariadicInv => VariadicInOrder
  BY FollowedInOrder DEF VariadicInOrder
<1> QED
  BY VariadicHolds, ArgumentsFitAlways, <1>1, PTL DEF CallsFit

-----------------------------------------------------------------------------
(* The calls of the rest client, for any number of them and any thresholds. *)

RestInv ==
    /\ RestTypeOK /\ CachedWasSuccess /\ fails <= inRow
    /\ \A c \in Calls : outcome[c] = "body" => succeeded

LEMMA RestInvInit == RestInit => RestInv
<1> SUFFICES ASSUME RestInit PROVE RestInv
  OBVIOUS
<1>1. RestTypeOK
  <2>1. 0 \in 0..(Trip - 1) /\ 0 \in 0..(Probes - 1) /\ 0 \in 0..Trip
    BY RestAssumption
  <2>2. /\ call \in [Calls -> {"idle", "lookup", "ready", "sent", "ended", "done"}]
        /\ cached \in [Calls -> BOOLEAN] /\ made \in [Calls -> Nat]
        /\ outcome \in [Calls -> Outcomes \cup {"none", "open", "cached"}]
    BY DEF RestInit
  <2>3. succeeded \in BOOLEAN /\ inRow = 0
    BY DEF RestInit
  <2> QED
    BY <2>1, <2>2, <2>3 DEF RestInit, RestTypeOK
<1>2. CachedWasSuccess /\ fails <= inRow /\ \A c \in Calls : outcome[c] # "body"
  BY DEF RestInit, CachedWasSuccess
<1> QED
  BY <1>1, <1>2 DEF RestInv

\* What the breaker is told keeps its counters in range.  A failure adds one at most, and
\* only the one that makes Trip of them opens a breaker that was closed.
LEMMA BreakerTold ==
    ASSUME RestTypeOK, CountFailure \/ CountSuccess \/ UNCHANGED breakerVars
    PROVE  /\ breaker' \in {"closed", "open", "half"}
           /\ fails' \in 0..(Trip - 1) /\ passes' \in 0..(Probes - 1)
           /\ fails' <= fails + 1 /\ (fails' > fails => CountFailure)
           /\ breaker = "closed" /\ breaker' = "open" => CountFailure /\ fails + 1 = Trip
<1> USE RestAssumption DEF RestTypeOK
<1>1. CASE CountFailure
  BY <1>1 DEF CountFailure
<1>2. CASE CountSuccess
  BY <1>2 DEF CountSuccess
<1>3. CASE UNCHANGED breakerVars
  BY <1>3 DEF breakerVars
<1> QED
  BY <1>1, <1>2, <1>3

\* Every failure the breaker counts is one of the executions since the last success.
LEMMA ExecuteStep ==
    ASSUME RestInv, NEW c \in Calls, Execute(c)
    PROVE  /\ RestInv'
           /\ breaker = "closed" /\ breaker' = "open" => inRow' = Trip
<1> USE DEF RestInv
<1>1. PICK o \in Outcomes :
         /\ outcome' = [outcome EXCEPT ![c] = o]
         /\ IF CountsAsFailure(o) THEN CountFailure
            ELSE IF o = "cancelled" THEN UNCHANGED breakerVars ELSE CountSuccess
         /\ succeeded' = (succeeded \/ o = "body")
         /\ inRow' = IF o \in Successes THEN 0
                     ELSE IF o = "cancelled" \/ inRow = Trip THEN inRow ELSE inRow + 1
  BY DEF Execute
<1>2. call' = [call EXCEPT ![c] = "ended"] /\ UNCHANGED <<cached, made, stored>>
  BY DEF Execute
<1>3. /\ breaker' \in {"closed", "open", "half"}
      /\ fails' \in 0..(Trip - 1) /\ passes' \in 0..(Probes - 1)
      /\ fails' <= fails + 1
      /\ breaker = "closed" /\ breaker' = "open" => ~UNCHANGED breakerVars /\ fails + 1 = Trip
  BY <1>1, BreakerTold DEF breakerVars
<1>4. inRow \in 0..Trip /\ inRow' \in 0..Trip /\ fails \in 0..(Trip - 1) /\ Trip \in Nat \ {0}
  BY <1>1, RestAssumption DEF RestTypeOK
<1>5. RestTypeOK'
  BY <1>1, <1>2, <1>3, <1>4 DEF RestTypeOK
<1>6. CachedWasSuccess' /\ \A d \in Calls : outcome'[d] = "body" => succeeded'
  BY <1>1, <1>2 DEF RestTypeOK, CachedWasSuccess
<1>7. CASE CountsAsFailure(o)
  <2>1. inRow' = IF inRow = Trip THEN inRow ELSE inRow + 1
    BY <1>1, <1>7 DEF CountsAsFailure, Successes
  <2>2. fails' <= inRow' /\ (fails + 1 = Trip => inRow' = Trip)
    BY <1>3, <1>4, <2>1
  <2> QED
    BY <1>3, <1>5, <1>6, <2>2
<1>8. CASE o = "cancelled"
  <2>1. ~CountsAsFailure(o) /\ UNCHANGED breakerVars /\ inRow' = inRow
    BY <1>1, <1>8 DEF CountsAsFailure, Successes
  <2> QED
    BY <1>5, <1>6, <2>1 DEF breakerVars
<1>9. CASE ~CountsAsFailure(o) /\ o # "cancelled"
  <2>1. fails' = 0 /\ (breaker = "closed" => breaker' = "closed")
    BY <1>1, <1>9 DEF CountSuccess
  <2> QED
    BY <1>4, <1>5, <1>6, <2>1
<1> QED
  BY <1>7, <1>8, <1>9

LEMMA RestInvStep ==
    ASSUME RestInv, [RestNext]_restVars
    PROVE  RestInv' /\ (breaker = "closed" /\ breaker' = "open" => inRow' = Trip)
<1> USE RestAssumption DEF RestInv, RestTypeOK, CachedWasSuccess, breakerVars, historyVars
<1>1. ASSUME NEW c \in Calls, StartCall(c) PROVE RestInv'
  BY <1>1 DEF StartCall, Outcomes
<1>2. ASSUME NEW c \in Calls, LookupResponse(c) PROVE RestInv'
  BY <1>2 DEF LookupResponse
<1>3. ASSUME NEW c \in Calls, Ready(c) PROVE RestInv'
  BY <1>3 DEF Ready
<1>4. ASSUME NEW c \in Calls, Execute(c)
      PROVE  RestInv' /\ (breaker = "closed" /\ breaker' = "open" => inRow' = Trip)
  BY <1>4, ExecuteStep
<1>5. ASSUME NEW c \in Calls, EndExecution(c) PROVE RestInv'
  <2>1. UNCHANGED <<cached, made, outcome, breaker, fails, passes, succeeded, inRow>>
        /\ call' \in [Calls -> {"idle", "lookup", "ready", "sent", "ended", "done"}]
    BY <1>5 DEF EndExecution
  <2>2. stored' \in BOOLEAN /\ (stored' => stored \/ outcome[c] = "body")
    BY <1>5 DEF EndExecution, Stores, Successes
  <2> QED
    BY <2>1, <2>2
<1>6. ASSUME NEW c \in Calls, Return(c) PROVE RestInv'
  BY <1>6 DEF Return
<1>7. CASE OpenTimeout
  BY <1>7 DEF OpenTimeout
<1>8. CASE ExpireResponse
  BY <1>8 DEF ExpireResponse
<1>9. CASE UNCHANGED restVars
  BY <1>9 DEF restVars
<1>10. CASE breaker' = "open" /\ breaker = "closed"
  <2>1. \E c \in Calls : Execute(c)
    BY <1>10 DEF RestNext, StartCall, LookupResponse, Ready, EndExecution, Return, OpenTimeout,
       ExpireResponse, restVars
  <2> QED
    BY <1>4, <2>1
<1> QED
  BY <1>1, <1>2, <1>3, <1>4, <1>5, <1>6, <1>7, <1>8, <1>9, <1>10 DEF RestNext

LEMMA RestHolds == RestSpec => []RestInv
<1>1. RestInv /\ [RestNext]_restVars => RestInv'
  BY RestInvStep
<1> QED
  BY RestInvInit, <1>1, PTL DEF RestSpec

\* The calls, the cache and the breaker have their types; the counters of the breaker stay
\* below the thresholds that trip it and close it again (client.go:60-66).
THEOREM RestTypes == RestSpec => []RestTypeOK
  BY RestHolds, PTL DEF RestInv

\* Whatever the calls and whatever the thresholds of the breaker: what the cache answers was
\* a success once, and it takes Trip executions in a row without a success to open the
\* breaker, those of different calls added up (request.go:57-70, 244-275).
THEOREM AnswersToldAlways == RestSpec => AnswersTold
<1>1. RestInv => CachedWasSuccess
  BY DEF RestInv
<1>2. RestInv /\ [RestNext]_restVars => [breaker = "closed" /\ breaker' = "open" => inRow' = Trip]_restVars
  BY RestInvStep
<1> QED
  BY RestHolds, <1>1, <1>2, PTL DEF RestSpec, AnswersTold, OpensOnFailures

-----------------------------------------------------------------------------
(* The metrics of the messaging module, for any number of openings. *)

\* A callback that is registered belongs to the instruments installed, to instruments a
\* step still has to unregister, or to instruments a step still has to install.
Accounted ==
    \A k \in callbacks :
        \/ k = instruments
        \/ \E p \in Ids : opened[p] \in {"dropping", "unregistering"} /\ swapped[p] = k
        \/ opened[k] = "swapping"

\* The sections of an opening that hold moduleMu.
InSection(o) == opened[o] \in {"resetting", "setting", "beginning"}

\* An opening holds moduleMu in its sections only, a message is counted while it is processed.
TelemetryInv ==
    /\ TelemetryTypeOK /\ Accounted
    /\ \A o \in Ids : InSection(o) <=> moduleMu = o
    /\ inFlight = processing
    /\ meter = "nil" => collectors = 0

LEMMA TelemetryInvInit == TelemetryInit => TelemetryInv
<1> SUFFICES ASSUME TelemetryInit PROVE TelemetryInv
  OBVIOUS
<1>1. TelemetryTypeOK
  BY TelemetryAssumption DEF TelemetryInit, TelemetryTypeOK, OneCollector, Free, Ids, OpeningPlaces
<1> QED
  BY <1>1, TelemetryAssumption DEF TelemetryInit, TelemetryInv, Accounted, InSection, Free, Ids

\* A step of one opening between two of its places.
LEMMA PlaceMoves ==
    ASSUME TelemetryInv, NEW o \in Ids, NEW from, NEW to \in OpeningPlaces, At(o, from, to)
    PROVE  /\ opened[o] = from /\ opened'[o] = to
           /\ \A p \in Ids : p # o => opened'[p] = opened[p]
           /\ opened' \in [Ids -> OpeningPlaces]
  BY DEF TelemetryInv, TelemetryTypeOK, At

\* A step with moduleMu taken or given back by an opening, and nothing else but its place.
LEMMA SectionStep ==
    ASSUME TelemetryInv, NEW o \in Ids, NEW from \in OpeningPlaces, NEW to \in OpeningPlaces, At(o, from, to),
           from \notin {"swapping", "dropping", "unregistering"},
           \/ Holds(o) /\ to \in {"resetting", "setting", "beginning"}
           \/ GivesBack(o) /\ to \notin {"resetting", "setting", "beginning"},
           UNCHANGED <<monitoringVars, instruments, callbacks, swapped, pipeline, running, messageVars>>
    PROVE  TelemetryInv'
<1> USE DEF TelemetryInv, TelemetryTypeOK, monitoringVars, messageVars
<1>1. Accounted'
  BY PlaceMoves DEF Accounted
<1>2. \A p \in Ids : p # Free
  BY TelemetryAssumption DEF Ids, Free
<1>3. \A p \in Ids : InSection(p)' <=> moduleMu' = p
  BY <1>2, PlaceMoves DEF InSection, Holds, GivesBack
<1>4. moduleMu' \in Ids \cup {Free, Consumer}
  BY DEF Holds, GivesBack
<1> QED
  BY <1>1, <1>3, <1>4, PlaceMoves DEF OneCollector

\* A step of an opening outside the sections, which keeps the callbacks accounted.
LEMMA OutsideStep ==
    ASSUME TelemetryInv, NEW o \in Ids, NEW from \in OpeningPlaces, NEW to \in OpeningPlaces, At(o, from, to),
           from \notin {"resetting", "setting", "beginning"},
           to \notin {"resetting", "setting", "beginning"},
           callbacks' \subseteq Ids, instruments' \in 0..Openings, swapped' \in [Ids -> 0..Openings],
           Accounted',
           UNCHANGED <<monitoringVars, lockVars, messageVars>>
    PROVE  TelemetryInv'
<1> USE DEF TelemetryInv, TelemetryTypeOK, monitoringVars, messageVars, lockVars
<1>1. \A p \in Ids : InSection(p)' <=> moduleMu' = p
  BY PlaceMoves DEF InSection
<1> QED
  BY <1>1, PlaceMoves DEF OneCollector

\* A step that leaves the openings and moduleMu alone keeps who holds it.
LEMMA OpeningsRest ==
    ASSUME TelemetryInv, UNCHANGED <<opened, instruments, callbacks, swapped, moduleMu>>
    PROVE  /\ Accounted' /\ \A o \in Ids : InSection(o)' <=> moduleMu' = o
           /\ opened' \in [Ids -> OpeningPlaces] /\ moduleMu' \in Ids \cup {Free, Consumer}
           /\ instruments' \in 0..Openings /\ callbacks' \subseteq Ids
           /\ swapped' \in [Ids -> 0..Openings]
  BY DEF TelemetryInv, TelemetryTypeOK, Accounted, InSection

LEMMA OpeningSteps ==
    ASSUME TelemetryInv, NEW o \in Ids,
           \/ OpenModule(o) \/ EndReset(o) \/ CreateInstruments(o) \/ InstallInstruments(o)
           \/ DropPrevious(o) \/ BeginPublish(o) \/ EndPublish(o)
           \/ BeginModuleClose(o) \/ EndBeginClose(o) \/ ReleaseInstruments(o) \/ EndModuleClose(o)
    PROVE  TelemetryInv'
<1>0. /\ callbacks \subseteq Ids /\ instruments \in 0..Openings /\ swapped \in [Ids -> 0..Openings]
      /\ opened \in [Ids -> OpeningPlaces] /\ Accounted /\ o \in 0..Openings /\ 0 \in 0..Openings
  BY TelemetryAssumption DEF TelemetryInv, TelemetryTypeOK, Ids
<1>1. CASE OpenModule(o)
  BY <1>1, SectionStep DEF OpenModule, OpeningPlaces
<1>2. CASE EndReset(o)
  BY <1>2, SectionStep DEF EndReset, OpeningPlaces
<1>3. CASE BeginPublish(o)
  BY <1>3, SectionStep DEF BeginPublish, OpeningPlaces
<1>4. CASE EndPublish(o)
  BY <1>4, SectionStep DEF EndPublish, OpeningPlaces
<1>5. CASE BeginModuleClose(o)
  BY <1>5, SectionStep DEF BeginModuleClose, OpeningPlaces
<1>6. CASE EndBeginClose(o)
  BY <1>6, SectionStep DEF EndBeginClose, OpeningPlaces
<1>7. CASE CreateInstruments(o)
  <2>1. At(o, "creating", "swapping") /\ callbacks' \subseteq callbacks \cup {o}
        /\ UNCHANGED <<monitoringVars, instruments, swapped, lockVars, messageVars>>
    BY <1>7 DEF CreateInstruments
  <2>2. Accounted'
    BY <1>0, <2>1, PlaceMoves DEF Accounted, OpeningPlaces
  <2> QED
    BY <1>0, <2>1, <2>2, OutsideStep DEF OpeningPlaces
<1>8. CASE InstallInstruments(o)
  <2>1. At(o, "swapping", "dropping") /\ instruments' = o
        /\ swapped' = [swapped EXCEPT ![o] = instruments]
        /\ UNCHANGED <<monitoringVars, callbacks, lockVars, messageVars>>
    BY <1>8 DEF InstallInstruments, Swap
  <2>2. instruments' \in 0..Openings /\ swapped' \in [Ids -> 0..Openings] /\ swapped'[o] = instruments
    BY <1>0, <2>1
  <2>3. Accounted'
    BY <1>0, <2>1, <2>2, PlaceMoves DEF Accounted, OpeningPlaces
  <2> QED
    BY <1>0, <2>1, <2>2, <2>3, OutsideStep DEF OpeningPlaces
<1>9. CASE ReleaseInstruments(o)
  <2>1. At(o, "releasing", "unregistering") /\ instruments' = 0
        /\ swapped' = [swapped EXCEPT ![o] = instruments]
        /\ UNCHANGED <<monitoringVars, callbacks, lockVars, messageVars>>
    BY <1>9 DEF ReleaseInstruments, Swap
  <2>2. instruments' \in 0..Openings /\ swapped' \in [Ids -> 0..Openings] /\ swapped'[o] = instruments
    BY <1>0, <2>1
  <2>3. Accounted'
    BY <1>0, <2>1, <2>2, PlaceMoves DEF Accounted, OpeningPlaces
  <2> QED
    BY <1>0, <2>1, <2>2, <2>3, OutsideStep DEF OpeningPlaces
<1>10. ASSUME Unregister(o), NEW from \in {"dropping", "unregistering"}, NEW to \in {"publishing", "closed"},
              At(o, from, to), UNCHANGED <<monitoringVars, instruments, lockVars, messageVars>>
       PROVE  TelemetryInv'
  <2>1. callbacks' = callbacks \ {swapped[o]} /\ swapped' = [swapped EXCEPT ![o] = 0]
    BY <1>10 DEF Unregister
  <2>2. swapped' \in [Ids -> 0..Openings] /\ callbacks' \subseteq Ids /\ from \in OpeningPlaces /\ to \in OpeningPlaces
    BY <1>0, <2>1 DEF OpeningPlaces
  <2>3. Accounted'
    BY <1>0, <1>10, <2>1, <2>2, PlaceMoves DEF Accounted
  <2> QED
    BY <1>0, <1>10, <2>2, <2>3, OutsideStep
<1>11. CASE DropPrevious(o)
  BY <1>10, <1>11 DEF DropPrevious
<1>12. CASE EndModuleClose(o)
  BY <1>10, <1>12 DEF EndModuleClose
<1> QED
  BY <1>1, <1>2, <1>3, <1>4, <1>5, <1>6, <1>7, <1>8, <1>9, <1>11, <1>12

LEMMA TelemetryInvStep ==
    ASSUME TelemetryInv, [TelemetryNext]_telemetryVars
    PROVE  TelemetryInv'
<1> USE DEF TelemetryInv, monitoringVars, lockVars, messageVars, TelemetryTypeOK, OneCollector
<1>1. CASE InitializeMonitoring
  <2>1. UNCHANGED <<opened, instruments, callbacks, swapped, lockVars, messageVars>>
    BY <1>1 DEF InitializeMonitoring
  <2>2. /\ meter' \in {"nil", "noop", "on", "shut"} /\ observers' \in Nat /\ collectors' \in 0..1
        /\ meter' = "nil" => collectors' = 0
    BY <1>1 DEF InitializeMonitoring, AlreadyInitialized, MeterProvider
  <2> QED
    BY <2>1, <2>2, OpeningsRest
<1>2. CASE CloseMonitoring
  BY <1>2, OpeningsRest DEF CloseMonitoring
<1>3. CASE \E o \in Ids :
              \/ OpenModule(o) \/ EndReset(o) \/ CreateInstruments(o) \/ InstallInstruments(o)
              \/ DropPrevious(o) \/ BeginPublish(o) \/ EndPublish(o)
              \/ BeginModuleClose(o) \/ EndBeginClose(o) \/ ReleaseInstruments(o) \/ EndModuleClose(o)
  BY <1>3, OpeningSteps
<1>4. CASE ConsumerLocks \/ ConsumerUnlocks
  <2>1. \A o \in Ids : o # Free /\ o # Consumer
    BY TelemetryAssumption DEF Ids, Free, Consumer
  <2>2. UNCHANGED <<monitoringVars, opened, instruments, callbacks, swapped, pipeline, running, messageVars>>
        /\ moduleMu \in {Free, Consumer} /\ moduleMu' \in {Free, Consumer}
    BY <1>4 DEF ConsumerLocks, ConsumerUnlocks, Holds, GivesBack
  <2>3. Accounted' /\ \A o \in Ids : InSection(o)' <=> moduleMu' = o
    BY <2>1, <2>2 DEF Accounted, InSection
  <2> QED
    BY <2>2, <2>3
<1>5. CASE StartCollection
  <2>1. pipeline' = Collection /\ running' \in callbacks \cup {0}
        /\ UNCHANGED <<monitoringVars, opened, instruments, callbacks, swapped, moduleMu, messageVars>>
    BY <1>5 DEF StartCollection
  <2>2. running' \in 0..Openings
    BY <2>1, TelemetryAssumption DEF Ids
  <2> QED
    BY <2>1, <2>2, OpeningsRest
<1>6. CASE ObserveInFlight
  BY <1>6, OpeningsRest, TelemetryAssumption DEF ObserveInFlight
<1>7. CASE EndCollection
  BY <1>7, OpeningsRest DEF EndCollection
<1>8. CASE StartMessage
  BY <1>8, OpeningsRest DEF StartMessage
<1>9. CASE EndMessage
  BY <1>9, OpeningsRest DEF EndMessage, Uncount
<1>10. CASE UNCHANGED telemetryVars
  BY <1>10, OpeningsRest DEF telemetryVars
<1> QED
  BY <1>1, <1>2, <1>3, <1>4, <1>5, <1>6, <1>7, <1>8, <1>9, <1>10 DEF TelemetryNext

LEMMA TelemetryHolds == TelemetrySpec => []TelemetryInv
<1>1. TelemetryInv /\ [TelemetryNext]_telemetryVars => TelemetryInv'
  BY TelemetryInvStep
<1> QED
  BY TelemetryInvInit, <1>1, PTL DEF TelemetrySpec

\* The instruments, callbacks and locks have their types, and the registry of Prometheus
\* never holds two collectors, which would break every later scrape (initialize.go:17-25).
THEOREM TelemetryTypes == TelemetrySpec => []TelemetryTypeOK
  BY TelemetryHolds, PTL DEF TelemetryInv

\* However many openings follow each other, and however the Close of one meets the
\* openModule of the next: once they are through, in-flight is observed at most once, by
\* the callback of the current instruments (metrics.go:57-91).
THEOREM NoCallbackLeftAlways == TelemetrySpec => []NoCallbackLeft
<1>1. TelemetryInv => NoCallbackLeft
  BY DEF TelemetryInv, TelemetryTypeOK, Accounted, NoCallbackLeft
<1> QED
  BY TelemetryHolds, <1>1, PTL

\* Whatever openings and closes meet a collection, the goroutine that holds moduleMu while
\* the collection waits for it is in a section of its own and not at the pipeline: each of
\* the sections ends before the callbacks are registered or unregistered (messaging.go:75-97,
\* 143-182, metrics.go:57-106).
THEOREM NoLockCycleAlways == TelemetrySpec => []NoLockCycle
<1>1. TelemetryInv => NoLockCycle
  BY DEF TelemetryInv, NoLockCycle, WantsPipeline, InSection
<1> QED
  BY TelemetryHolds, <1>1, PTL

=============================================================================
