------------------------ MODULE ResponseChecksProofs ------------------------
(***************************************************************************)
(* Theorems of ResponseChecks, for any documents, any responses and        *)
(* anything that other processes do to the store.                          *)
(*                                                                         *)
(* Walk and Typing are recursive over a tree: that there are such          *)
(* functions at all is proved by building them, one to each depth.  Over   *)
(* documents that declare nothing twice, what validate_element records is  *)
(* then, by induction on the depth of the node, wrong with the response;   *)
(* and what is wrong with a node is recorded, because the walk comes to    *)
(* it.  The invariant of the run says what else it takes: the clients are  *)
(* compiled from the store, the index is that of all its documents, and    *)
(* the sink has been exact so far.                                         *)
(***************************************************************************)
EXTENDS ResponseChecks, SchemaStoreProofs

\* The address of a parent.
LEMMA FrontType ==
  ASSUME NEW s \in Seq(Nat), Len(s) > 1
  PROVE  Front(s) \in Seq(Nat) /\ Len(Front(s)) = Len(s) - 1
<1>1. 1 \in 1..Len(s) + 1 /\ Len(s) - 1 \in 0..Len(s) /\ 1 <= Len(s) - 1
  OBVIOUS
<1>2. SubSeq(s, 1, Len(s) - 1) \in Seq(Nat) /\ Len(SubSeq(s, 1, Len(s) - 1)) = Len(s) - 1
  BY <1>1, SubSeqProperties
<1> QED
  BY <1>2 DEF Front

\* The address of a node, of its parent and of its children, in a tree.
LEMMA Addresses ==
  ASSUME NEW body, IsTree(body), NEW a \in DOMAIN body
  PROVE  /\ Cardinality(DOMAIN body) \in Nat
         /\ Len(a) \in Nat /\ Len(a) >= 1 /\ Len(a) <= Cardinality(DOMAIN body)
         /\ Len(a) # 1 => /\ Len(a) > 1 /\ Len(a) - 1 \in Nat
                          /\ Front(a) \in DOMAIN body /\ Len(Front(a)) = Len(a) - 1
                          /\ a \in Children(body, Front(a))
         /\ \A b \in Children(body, a) :
              /\ b \in DOMAIN body /\ Len(b) = Len(a) + 1 /\ Len(b) # 1 /\ Len(b) > 1
              /\ Front(b) = a
<1>1. Cardinality(DOMAIN body) \in Nat
  BY FS_CardinalityType DEF IsTree
<1>2. /\ a \in Seq(Nat) /\ Len(a) \in 1..Cardinality(DOMAIN body)
      /\ Len(a) > 1 => Front(a) \in DOMAIN body
  BY DEF IsTree
<1>3. Len(a) > 1 => Len(Front(a)) = Len(a) - 1
  BY <1>2, FrontType
<1>4. ASSUME NEW b \in Children(body, a)
      PROVE  b \in DOMAIN body /\ Len(b) = Len(a) + 1 /\ Front(b) = a
  BY <1>4 DEF Children
<1>5. Len(a) > 1 => a \in Children(body, Front(a))
  BY <1>1, <1>2, <1>3 DEF Children
<1> DEFINE l == Len(a)
           c == Cardinality(DOMAIN body)
<1>6. c \in Nat /\ l \in 1..c
  BY <1>1, <1>2
<1>7. \A b \in Children(body, a) : Len(b) = l + 1
  BY <1>4
<1>8. /\ l > 1 => Front(a) \in DOMAIN body
      /\ l > 1 => Len(Front(a)) = l - 1
      /\ l > 1 => a \in Children(body, Front(a))
  BY <1>2, <1>3, <1>5
<1> HIDE DEF l, c
<1>9. /\ l \in Nat /\ l >= 1 /\ l <= c /\ (l # 1 => l > 1 /\ l - 1 \in Nat)
      /\ \A b \in Children(body, a) : Len(b) # 1 /\ Len(b) > 1
  BY <1>6, <1>7
<1> QED
  BY <1>4, <1>6, <1>7, <1>8, <1>9 DEF l, c

------------------------------------------------------------------------------
(***************************************************************************)
(* Typing and Walk are what their recursive definitions say: there is such *)
(* a function, made of functions that are right down to a depth.           *)
(***************************************************************************)
\* The names of a root's type, of a child's from those of its parent, and of every
\* node's with g for those of the parents.
RootNames(body, a, texts) ==
  {Elements[t][body[a].tag] : t \in {u \in texts :
     body[a].tag \in DOMAIN Elements[u] /\ body[a].tag.local # "Fault"}}

ChildNames(body, a, texts, names) ==
  {d.type : d \in {e \in UNION {type.elements : type \in
                          UNION {TypeOf(texts, n) : n \in names}} :
                   e.tag = body[a].tag}}

TypingStep(body, texts, g) ==
  [a \in DOMAIN body |-> IF Len(a) = 1 THEN RootNames(body, a, texts)
                         ELSE ChildNames(body, a, texts, g[Front(a)])]

\* There are types that are what the rules make of themselves: those that are,
\* down to any depth, are so one deeper after one more application.
LEMMA TypingExists ==
  ASSUME NEW body, IsTree(body), NEW texts
  PROVE  \E g : g = TypingStep(body, texts, g)
<1> DEFINE F(g) == TypingStep(body, texts, g)
           N == Cardinality(DOMAIN body)
           S == {n \in Nat : \E g : \A a \in DOMAIN body : Len(a) <= n => g[a] = F(g)[a]}
<1>1. 0 \in S
  <2>1. \A a \in DOMAIN body : ~(Len(a) <= 0)
    <3> SUFFICES ASSUME NEW a \in DOMAIN body PROVE ~(Len(a) <= 0)
      OBVIOUS
    <3> QED
      BY Addresses
  <2> HIDE DEF F
  <2> QED
    BY <2>1
<1>2. ASSUME NEW n \in Nat, n \in S
      PROVE  n + 1 \in S
  <2>1. PICK g : \A a \in DOMAIN body : Len(a) <= n => g[a] = F(g)[a]
    BY <1>2
  <2> DEFINE h == F(g)
  <2>2. ASSUME NEW a \in DOMAIN body, Len(a) <= n + 1
        PROVE  h[a] = F(h)[a]
    <3>1. CASE Len(a) = 1
      BY <3>1 DEF TypingStep
    <3>2. CASE Len(a) # 1
      <4>1. /\ Front(a) \in DOMAIN body /\ Len(Front(a)) = Len(a) - 1
            /\ Len(a) \in Nat
        BY <3>2, Addresses
      <4>5. Len(Front(a)) <= n
        BY <2>2, <4>1
      <4>2. g[Front(a)] = h[Front(a)]
        BY <2>1, <4>1, <4>5
      <4>3. h[a] = ChildNames(body, a, texts, g[Front(a)])
        BY <3>2 DEF TypingStep
      <4> HIDE DEF h
      <4>4. F(h)[a] = ChildNames(body, a, texts, h[Front(a)])
        BY <3>2 DEF TypingStep
      <4> QED
        BY <4>2, <4>3, <4>4
    <3> QED
      BY <3>1, <3>2
  <2> HIDE DEF h, F
  <2> QED
    BY <2>2
<1>3. N \in S
  <2>1. CASE DOMAIN body = {}
    <3> HIDE DEF F
    <3>1. N \in Nat
      BY FS_CardinalityType DEF IsTree
    <3> QED
      BY <2>1, <3>1
  <2>2. CASE DOMAIN body # {}
    <3>1. N \in Nat
      BY <2>2, Addresses
    <3> HIDE DEF S, N
    <3> QED
      BY <1>1, <1>2, <3>1, Induct
  <2> QED
    BY <2>1, <2>2
<1>4. PICK g : \A a \in DOMAIN body : Len(a) <= N => g[a] = F(g)[a]
  <2> HIDE DEF F
  <2> QED
    BY <1>3
<1>5. \A a \in DOMAIN body : g[a] = F(g)[a]
  <2> SUFFICES ASSUME NEW a \in DOMAIN body PROVE g[a] = F(g)[a]
    OBVIOUS
  <2>1. Len(a) <= N
    BY Addresses
  <2> QED
    BY <1>4, <2>1
<1> DEFINE h == [a \in DOMAIN body |-> g[a]]
<1>6. ASSUME NEW a \in DOMAIN body
      PROVE  F(g)[a] = F(h)[a]
  <2>1. CASE Len(a) = 1
    BY <2>1 DEF TypingStep
  <2>2. CASE Len(a) # 1
    <3>1. Front(a) \in DOMAIN body
      BY <2>2, Addresses
    <3>2. g[Front(a)] = h[Front(a)]
      BY <3>1
    <3> HIDE DEF h
    <3> QED
      BY <2>2, <3>2 DEF TypingStep
  <2> QED
    BY <2>1, <2>2
<1>7. h = F(h)
  <2>1. \A a \in DOMAIN body : h[a] = F(h)[a]
    BY <1>5, <1>6
  <2>2. F(h) = [a \in DOMAIN body |-> F(h)[a]]
    BY DEF TypingStep
  <2>3. h = [a \in DOMAIN body |-> h[a]]
    OBVIOUS
  <2> HIDE DEF h, F
  <2> QED
    BY <2>1, <2>2, <2>3
<1> HIDE DEF h
<1> QED
  BY <1>7

\* So the types that Typing gives do obey its rules.
LEMMA TypingUnfolds ==
  ASSUME NEW body, IsTree(body), NEW texts
  PROVE  Typing(body, texts) = TypingStep(body, texts, Typing(body, texts))
<1>1. PICK g : g = TypingStep(body, texts, g)
  BY TypingExists
<1>2. Typing(body, texts) = CHOOSE h : h = TypingStep(body, texts, h)
  BY DEF Typing, TypingStep, RootNames, ChildNames
<1> QED
  BY <1>1, <1>2

\* What is wrong below a node of a type, with g for what is wrong at its children.
Below(tree, a, type, enums, g) ==
  UNION {UNION {BadValue(tree, b, d.type, enums) \cup g[b][d.type] :
                d \in {e \in type.elements : Is(tree[b].tag, e)}} :
         b \in Children(tree, a)}

\* What a walk records at a node and below it, and at every node.
WalkAt(tree, docs, enums, a, g) ==
  [name \in Declared(docs) |->
     Missing(tree, a, TypeNamed(docs, name))
     \cup Below(tree, a, TypeNamed(docs, name), enums, g)]

WalkStep(tree, docs, enums, g) ==
  [a \in DOMAIN tree |-> WalkAt(tree, docs, enums, a, g)]

\* What is wrong below a node is a matter of its children alone.
LEMMA BelowSame ==
  ASSUME NEW tree, NEW a, NEW type, NEW enums, NEW g, NEW h,
         \A b \in Children(tree, a) : g[b] = h[b]
  PROVE  Below(tree, a, type, enums, g) = Below(tree, a, type, enums, h)
<1>1. ASSUME NEW b \in Children(tree, a)
      PROVE  UNION {BadValue(tree, b, d.type, enums) \cup g[b][d.type] :
                     d \in {e \in type.elements : Is(tree[b].tag, e)}}
             = UNION {BadValue(tree, b, d.type, enums) \cup h[b][d.type] :
                     d \in {e \in type.elements : Is(tree[b].tag, e)}}
  <2>1. g[b] = h[b]
    OBVIOUS
  <2> QED
    BY <2>1
<1> QED
  BY <1>1 DEF Below

\* So is what a walk that comes to it records.
LEMMA WalkSame ==
  ASSUME NEW tree, NEW docs, NEW a, NEW enums, NEW g, NEW h,
         \A b \in Children(tree, a) : g[b] = h[b]
  PROVE  WalkAt(tree, docs, enums, a, g) = WalkAt(tree, docs, enums, a, h)
<1>1. ASSUME NEW name \in Declared(docs)
      PROVE  Below(tree, a, TypeNamed(docs, name), enums, g)
             = Below(tree, a, TypeNamed(docs, name), enums, h)
  BY BelowSame
<1> QED
  BY <1>1 DEF WalkAt

\* validate_element ends (response_validator.py:157-235): there is a function that
\* is what its recursion makes of itself, made from the leaves upwards.
LEMMA WalkExists ==
  ASSUME NEW tree, IsTree(tree), NEW docs, NEW enums
  PROVE  \E g : g = WalkStep(tree, docs, enums, g)
<1> DEFINE F(g) == WalkStep(tree, docs, enums, g)
           N == Cardinality(DOMAIN tree)
           S == {n \in Nat : \E g : \A a \in DOMAIN tree : N < n + Len(a) => g[a] = F(g)[a]}
<1>0. N \in Nat
  BY FS_CardinalityType DEF IsTree
<1>1. 0 \in S
  <2>1. \A a \in DOMAIN tree : ~(N < 0 + Len(a))
    <3> SUFFICES ASSUME NEW a \in DOMAIN tree PROVE ~(N < 0 + Len(a))
      OBVIOUS
    <3>1. Len(a) \in Nat /\ Len(a) <= N
      BY Addresses
    <3> QED
      BY <1>0, <3>1
  <2> HIDE DEF F, N
  <2> QED
    BY <2>1
<1>2. ASSUME NEW n \in Nat, n \in S
      PROVE  n + 1 \in S
  <2>1. PICK g : \A a \in DOMAIN tree : N < n + Len(a) => g[a] = F(g)[a]
    BY <1>2
  <2> DEFINE h == F(g)
  <2>2. ASSUME NEW a \in DOMAIN tree, N < (n + 1) + Len(a)
        PROVE  h[a] = F(h)[a]
    <3>1. ASSUME NEW b \in Children(tree, a)
          PROVE  g[b] = h[b]
      <4>1. b \in DOMAIN tree /\ Len(b) = Len(a) + 1 /\ Len(a) \in Nat
        BY Addresses
      <4> HIDE DEF N
      <4>2. N < n + Len(b)
        BY <1>0, <2>2, <4>1
      <4> QED
        BY <2>1, <4>1, <4>2
    <3>2. h[a] = WalkAt(tree, docs, enums, a, g)
      BY DEF WalkStep
    <3> HIDE DEF h
    <3>3. F(h)[a] = WalkAt(tree, docs, enums, a, h)
      BY DEF WalkStep
    <3> QED
      BY <3>1, <3>2, <3>3, WalkSame
  <2> HIDE DEF h, F, N
  <2> QED
    BY <2>2
<1>3. N + 1 \in S
  <2> HIDE DEF S, N
  <2> QED
    BY <1>0, <1>1, <1>2, Induct
<1>4. PICK g : \A a \in DOMAIN tree : N < (N + 1) + Len(a) => g[a] = F(g)[a]
  <2> HIDE DEF F, N
  <2> QED
    BY <1>3
<1>5. \A a \in DOMAIN tree : g[a] = F(g)[a]
  <2> SUFFICES ASSUME NEW a \in DOMAIN tree PROVE g[a] = F(g)[a]
    OBVIOUS
  <2>1. Len(a) \in Nat
    BY Addresses
  <2> HIDE DEF N
  <2>2. N < (N + 1) + Len(a)
    BY <1>0, <2>1
  <2> QED
    BY <1>4, <2>2
<1> DEFINE h == [a \in DOMAIN tree |-> g[a]]
<1>6. ASSUME NEW a \in DOMAIN tree
      PROVE  h[a] = WalkAt(tree, docs, enums, a, h)
  <2>1. \A b \in Children(tree, a) : g[b] = h[b]
    BY Addresses
  <2>2. h[a] = WalkAt(tree, docs, enums, a, g)
    BY <1>5 DEF WalkStep
  <2> HIDE DEF h
  <2> QED
    BY <2>1, <2>2, WalkSame
<1>7. h = [a \in DOMAIN tree |-> h[a]]
  OBVIOUS
<1> HIDE DEF h
<1>8. h = F(h)
  BY <1>6, <1>7 DEF WalkStep
<1> QED
  BY <1>8

\* So Walk is what its recursive definition says.
LEMMA WalkUnfolds ==
  ASSUME NEW tree, IsTree(tree), NEW docs, NEW enums
  PROVE  Walk(tree, docs, enums) = WalkStep(tree, docs, enums, Walk(tree, docs, enums))
<1>1. PICK g : g = WalkStep(tree, docs, enums, g)
  BY WalkExists
<1>2. Walk(tree, docs, enums) = CHOOSE h : h = WalkStep(tree, docs, enums, h)
  BY DEF Walk, WalkStep, WalkAt, Below
<1> QED
  BY <1>1, <1>2

------------------------------------------------------------------------------
(***************************************************************************)
(* The same, member by member.                                             *)
(***************************************************************************)
\* A root has the type of its element, if it is none of a Fault.
LEMMA RootTyping ==
  ASSUME NEW body, IsTree(body), NEW texts, NEW a \in DOMAIN body, Len(a) = 1, NEW n
  PROVE  n \in Typing(body, texts)[a] <=>
           /\ a \in Roots(body)
           /\ \E t \in texts : body[a].tag \in DOMAIN Elements[t] /\ n = Elements[t][body[a].tag]
<1>1. Typing(body, texts)[a] = RootNames(body, a, texts)
  BY TypingUnfolds DEF TypingStep
<1> QED
  BY <1>1 DEF RootNames, Roots

\* A child has the types its name has in those of its parent.
LEMMA ChildTyping ==
  ASSUME NEW body, IsTree(body), NEW texts, NEW a \in DOMAIN body, Len(a) # 1, NEW n
  PROVE  n \in Typing(body, texts)[a] <=>
           \E m \in Typing(body, texts)[Front(a)] : \E type \in TypeOf(texts, m) :
             \E d \in type.elements : d.tag = body[a].tag /\ n = d.type
<1>1. Typing(body, texts)[a] = ChildNames(body, a, texts, Typing(body, texts)[Front(a)])
  BY TypingUnfolds DEF TypingStep
<1> QED
  BY <1>1 DEF ChildNames

\* What validate_element records: what the node lacks, the values of its children
\* that are not permitted, and what it records of them in turn.
LEMMA WalkMember ==
  ASSUME NEW tree, IsTree(tree), NEW docs, NEW enums, NEW a \in DOMAIN tree,
         NEW n \in Declared(docs), NEW v
  PROVE  v \in Walk(tree, docs, enums)[a][n] <=>
           \/ v \in Missing(tree, a, TypeNamed(docs, n))
           \/ \E b \in Children(tree, a) : \E d \in TypeNamed(docs, n).elements :
                /\ Is(tree[b].tag, d)
                /\ \/ v \in BadValue(tree, b, d.type, enums)
                   \/ v \in Walk(tree, docs, enums)[b][d.type]
<1> DEFINE walk == Walk(tree, docs, enums)
           type == TypeNamed(docs, n)
<1>1. walk[a][n] = Missing(tree, a, type) \cup Below(tree, a, type, enums, walk)
  <2>1. walk = WalkStep(tree, docs, enums, walk)
    BY WalkUnfolds
  <2> HIDE DEF walk, type
  <2>2. walk[a] = WalkAt(tree, docs, enums, a, walk)
    BY <2>1 DEF WalkStep
  <2>3. WalkAt(tree, docs, enums, a, walk)[n]
        = Missing(tree, a, type) \cup Below(tree, a, type, enums, walk)
    BY DEF WalkAt, type
  <2> QED
    BY <2>2, <2>3
<1> HIDE DEF walk, type
<1>2. v \in Below(tree, a, type, enums, walk) <=>
        \E b \in Children(tree, a) : \E d \in type.elements :
          /\ Is(tree[b].tag, d)
          /\ v \in BadValue(tree, b, d.type, enums) \/ v \in walk[b][d.type]
  BY DEF Below
<1> QED
  BY <1>1, <1>2 DEF walk, type

\* A flaw is something a node of a type lacks, or a value a type forbids it.
LEMMA FlawsMember ==
  ASSUME NEW body, NEW texts, NEW flaw
  PROVE  flaw \in Flaws(body, texts) <=>
           \E a \in DOMAIN body : \E n \in Typing(body, texts)[a] :
             \/ \E type \in TypeOf(texts, n) : flaw \in Lacks(body, a, type)
             \/ flaw \in Forbidden(body, a, n, texts)
<1>1. flaw \in Flaws(body, texts) <=>
        \E a \in DOMAIN body : \E n \in Typing(body, texts)[a] :
          flaw \in FlawsAt(body, a, n, texts)
  BY DEF Flaws
<1>2. ASSUME NEW a \in DOMAIN body, NEW n
      PROVE  flaw \in FlawsAt(body, a, n, texts) <=>
             \/ \E type \in TypeOf(texts, n) : flaw \in Lacks(body, a, type)
             \/ flaw \in Forbidden(body, a, n, texts)
  BY DEF FlawsAt
<1> QED
  BY <1>1, <1>2

\* The value of a root is not looked at, nor is an empty one.
LEMMA ForbiddenMember ==
  ASSUME NEW body, NEW texts, NEW a, NEW n, NEW flaw
  PROVE  flaw \in Forbidden(body, a, n, texts) <=>
           /\ flaw = <<"bad-enum", a, body[a].text>>
           /\ Len(a) > 1 /\ body[a].text # ""
           /\ \E values \in Permitted(texts, n) : body[a].text \notin values
  BY DEF Forbidden

------------------------------------------------------------------------------
(***************************************************************************)
(* What documents declare.                                                 *)
(***************************************************************************)
\* Documents that zeep has compiled: every type they name is declared.
Compiled(docs) == docs \subseteq Text /\ Named(docs) \subseteq Declared(docs)

\* The type of an element of compiled documents is declared.
LEMMA ElementsResolve ==
  ASSUME NEW docs, Compiled(docs), NEW s \in docs, NEW e \in DOMAIN Elements[s]
  PROVE  Elements[s][e] \in Declared(docs)
<1>1. Elements[s][e] \in NamedIn[s]
  BY DEF NamedIn, Compiled
<1> QED
  BY <1>1 DEF Compiled, Named

\* The types of child elements are among the names that documents use.
LEMMA TypesName ==
  ASSUME NEW docs \in SUBSET Text, NEW s \in docs,
         NEW m \in DOMAIN Types[s], NEW c \in Types[s][m].elements
  PROVE  c.type \in Named(docs)
<1>1. c.type \in UNION {{d.type : d \in Types[s][n].elements} : n \in DOMAIN Types[s]}
  OBVIOUS
<1>2. c.type \in NamedIn[s]
  BY <1>1 DEF NamedIn
<1> QED
  BY <1>2 DEF Named

\* The name of a declared type leads to one, and so do its children's.
LEMMA TypesResolve ==
  ASSUME NEW docs, Compiled(docs), NEW n \in Declared(docs)
  PROVE  /\ \E t \in docs : n \in DOMAIN Types[t] /\ TypeNamed(docs, n) = Types[t][n]
         /\ \A d \in TypeNamed(docs, n).elements : d.type \in Declared(docs)
<1>1. PICK t \in docs : n \in DOMAIN Types[t]
  BY DEF Declared
<1>2. PICK u \in docs : n \in DOMAIN Types[u] /\ TypeNamed(docs, n) = Types[u][n]
  BY <1>1 DEF TypeNamed
<1>3. \A d \in Types[u][n].elements : d.type \in Named(docs)
  BY <1>2, TypesName DEF Compiled
<1> QED
  BY <1>2, <1>3 DEF Compiled

\* Where no type is declared twice in the store, the documents of a client mean by
\* a name what the store does.
LEMMA TypeOfUnique ==
  ASSUME NEW docs, NEW texts, Unique(texts), docs \subseteq texts, Compiled(docs),
         NEW n \in Declared(docs)
  PROVE  TypeOf(texts, n) = {TypeNamed(docs, n)}
<1>1. PICK t \in docs : n \in DOMAIN Types[t] /\ TypeNamed(docs, n) = Types[t][n]
  BY TypesResolve
<1>2. ASSUME NEW u \in texts, n \in DOMAIN Types[u]
      PROVE  u = t
  BY <1>1, <1>2 DEF Unique
<1>3. {u \in texts : n \in DOMAIN Types[u]} = {t}
  BY <1>1, <1>2
<1>4. TypeOf(texts, n) = UNION {{Types[u][n]} : u \in {t}}
  BY <1>3 DEF TypeOf
<1> QED
  BY <1>1, <1>4

\* A type enumerated at all is enumerated once.
LEMMA PermittedUnique ==
  ASSUME NEW texts, texts \subseteq Text, Unique(texts), NEW n
  PROVE  \/ Permitted(texts, n) = {} /\ Allowed(texts, n) = {}
         \/ Permitted(texts, n) = {Allowed(texts, n)} /\ Allowed(texts, n) # {}
<1> DEFINE those == {u \in texts : n \in DOMAIN Enums[u]}
<1>1. CASE those = {}
  BY <1>1 DEF Permitted, Allowed
<1>2. ASSUME NEW t \in those
      PROVE  Permitted(texts, n) = {Allowed(texts, n)} /\ Allowed(texts, n) # {}
  <2>1. \A u \in those : n \in DOMAIN Types[u] /\ Enums[u][n] # {} /\ u \in texts
    BY ResponseChecksAssumption
  <2>2. \A u \in those : u = t
    BY <2>1, <1>2 DEF Unique
  <2>3. those = {t}
    BY <1>2, <2>2
  <2>4. Permitted(texts, n) = {Enums[u][n] : u \in {t}}
    BY <2>3 DEF Permitted
  <2>5. Allowed(texts, n) = UNION {Enums[u][n] : u \in {t}}
    <3>1. {u \in those : u = CHOOSE v \in those : TRUE} = {t}
      BY <2>3
    <3> QED
      BY <3>1 DEF Allowed
  <2>6. {Enums[u][n] : u \in {t}} = {Enums[t][n]}
    OBVIOUS
  <2>7. Permitted(texts, n) = {Enums[t][n]} /\ Allowed(texts, n) = Enums[t][n]
    BY <2>4, <2>5, <2>6
  <2> QED
    BY <1>2, <2>1, <2>7
<1> HIDE DEF those
<1> QED
  BY <1>1, <1>2

\* The enumeration that enum_index keeps of a type forbids what one of the documents
\* does (response_validator.py:108-150).
LEMMA BadIsForbidden ==
  ASSUME NEW body, NEW texts, texts \subseteq Text, Unique(texts), NEW a, Len(a) > 1, NEW n
  PROVE  BadValue(body, a, n, texts) = Forbidden(body, a, n, texts)
<1>1. ASSUME NEW flaw
      PROVE  flaw \in BadValue(body, a, n, texts) <=>
               /\ flaw = <<"bad-enum", a, body[a].text>>
               /\ Allowed(texts, n) # {}
               /\ body[a].text # ""
               /\ body[a].text \notin Allowed(texts, n)
  BY DEF BadValue
<1>2. ASSUME NEW flaw
      PROVE  flaw \in BadValue(body, a, n, texts) <=> flaw \in Forbidden(body, a, n, texts)
  <2>1. (\E values \in Permitted(texts, n) : body[a].text \notin values) <=>
          Allowed(texts, n) # {} /\ body[a].text \notin Allowed(texts, n)
    BY PermittedUnique
  <2>2. flaw \in Forbidden(body, a, n, texts) <=>
           /\ flaw = <<"bad-enum", a, body[a].text>>
           /\ Len(a) > 1 /\ body[a].text # ""
           /\ \E values \in Permitted(texts, n) : body[a].text \notin values
    BY ForbiddenMember
  <2>3. flaw \in BadValue(body, a, n, texts) <=>
               /\ flaw = <<"bad-enum", a, body[a].text>>
               /\ Allowed(texts, n) # {}
               /\ body[a].text # ""
               /\ body[a].text \notin Allowed(texts, n)
    BY <1>1
  <2> QED
    BY Zenon, <2>1, <2>2, <2>3
<1> QED
  BY <1>2

\* validate_element counts a child by its QName as it occurs.
LEMMA MissingIsLacks ==
  ASSUME NEW body, NEW a, NEW type
  PROVE  Missing(body, a, type) = Lacks(body, a, type)
<1>1. ASSUME NEW tag, NEW d, d.tag = tag
      PROVE  {b \in Children(body, a) : Is(body[b].tag, d)}
             = {b \in DOMAIN body : Len(b) = Len(a) + 1 /\ Front(b) = a /\ body[b].tag = tag}
  BY <1>1 DEF Children, Is
<1>2. ASSUME NEW d
      PROVE  Cardinality({b \in Children(body, a) : Is(body[b].tag, d)})
             = Occurrences(body, a, d.tag)
  BY <1>1 DEF Occurrences
<1>3. {d \in type.elements : Cardinality({b \in Children(body, a) : Is(body[b].tag, d)}) < d.min}
      = {d \in type.elements : Occurrences(body, a, d.tag) < d.min}
  BY <1>2
<1> QED
  BY <1>3 DEF Missing, Lacks

------------------------------------------------------------------------------
(***************************************************************************)
(* The walk.                                                               *)
(***************************************************************************)
\* Whatever is wrong by a walk is in V, if what is wrong at each node is, for the
\* types T that the walk may come to it with.
LEMMA WalkWithin ==
  ASSUME NEW tree, IsTree(tree), NEW docs, NEW enums, NEW T, NEW V,
         \A a \in DOMAIN tree : \A n \in T[a] \cap Declared(docs) :
           /\ Missing(tree, a, TypeNamed(docs, n)) \subseteq V
           /\ \A b \in Children(tree, a) : \A d \in TypeNamed(docs, n).elements :
                Is(tree[b].tag, d) =>
                  /\ d.type \in T[b] \cap Declared(docs)
                  /\ BadValue(tree, b, d.type, enums) \subseteq V
  PROVE  \A a \in DOMAIN tree : \A n \in T[a] \cap Declared(docs) :
           Walk(tree, docs, enums)[a][n] \subseteq V
<1> DEFINE walk == Walk(tree, docs, enums)
           N == Cardinality(DOMAIN tree)
           S == {k \in Nat : \A a \in DOMAIN tree : N < k + Len(a) =>
                   \A n \in T[a] \cap Declared(docs) : walk[a][n] \subseteq V}
<1>0. N \in Nat
  BY FS_CardinalityType DEF IsTree
<1>1. 0 \in S
  <2>1. \A a \in DOMAIN tree : ~(N < 0 + Len(a))
    <3> SUFFICES ASSUME NEW a \in DOMAIN tree PROVE ~(N < 0 + Len(a))
      OBVIOUS
    <3>1. Len(a) \in Nat /\ Len(a) <= N
      BY Addresses
    <3> QED
      BY <1>0, <3>1
  <2> HIDE DEF walk, N
  <2> QED
    BY <2>1
<1>2. ASSUME NEW k \in Nat, k \in S
      PROVE  k + 1 \in S
  <2> SUFFICES ASSUME NEW a \in DOMAIN tree, N < (k + 1) + Len(a),
                      NEW n \in T[a] \cap Declared(docs), NEW v \in walk[a][n]
               PROVE  v \in V
    OBVIOUS
  <2>1. CASE v \in Missing(tree, a, TypeNamed(docs, n))
    BY <2>1
  <2>2. ASSUME NEW b \in Children(tree, a), NEW d \in TypeNamed(docs, n).elements,
               Is(tree[b].tag, d),
               v \in BadValue(tree, b, d.type, enums) \/ v \in walk[b][d.type]
        PROVE  v \in V
    <3>1. d.type \in T[b] \cap Declared(docs) /\ BadValue(tree, b, d.type, enums) \subseteq V
      BY <2>2
    <3>2. b \in DOMAIN tree /\ Len(b) = Len(a) + 1 /\ Len(a) \in Nat
      BY Addresses
    <3> HIDE DEF N, walk
    <3>3. N < k + Len(b)
      BY <1>0, <3>2
    <3>4. walk[b][d.type] \subseteq V
      BY <1>2, <3>1, <3>2, <3>3
    <3> QED
      BY <2>2, <3>1, <3>4
  <2> QED
    BY <2>1, <2>2, WalkMember
<1>3. N + 1 \in S
  <2> HIDE DEF S, N
  <2> QED
    BY <1>0, <1>1, <1>2, Induct
<1> SUFFICES ASSUME NEW a \in DOMAIN tree PROVE \A n \in T[a] \cap Declared(docs) : walk[a][n] \subseteq V
  OBVIOUS
<1>4. Len(a) \in Nat /\ Len(a) >= 1
  BY Addresses
<1> HIDE DEF walk, N
<1>5. N < (N + 1) + Len(a)
  BY <1>0, <1>4
<1> QED
  BY <1>3, <1>5

\* Below a node of a type, a walk finds nothing that is not wrong.
LEMMA WalkIsFlaws ==
  ASSUME NEW body, IsTree(body), NEW texts, texts \subseteq Text, Unique(texts),
         NEW docs, docs \subseteq texts, Compiled(docs)
  PROVE  \A a \in DOMAIN body : \A n \in Typing(body, texts)[a] \cap Declared(docs) :
           Walk(body, docs, texts)[a][n] \subseteq Flaws(body, texts)
<1> DEFINE T == Typing(body, texts)
           V == Flaws(body, texts)
<1>1. ASSUME NEW a \in DOMAIN body, NEW n \in T[a] \cap Declared(docs)
      PROVE  Missing(body, a, TypeNamed(docs, n)) \subseteq V
  <2>1. TypeNamed(docs, n) \in TypeOf(texts, n)
    BY TypeOfUnique
  <2>2. Lacks(body, a, TypeNamed(docs, n)) \subseteq V
    BY <2>1, FlawsMember
  <2> QED
    BY <2>2, MissingIsLacks
<1>2. ASSUME NEW a \in DOMAIN body, NEW n \in T[a] \cap Declared(docs),
             NEW b \in Children(body, a), NEW d \in TypeNamed(docs, n).elements,
             Is(body[b].tag, d)
      PROVE  d.type \in T[b] \cap Declared(docs) /\ BadValue(body, b, d.type, texts) \subseteq V
  <2>1. b \in DOMAIN body /\ Len(b) # 1 /\ Len(b) > 1 /\ Front(b) = a
    BY Addresses
  <2>2. TypeNamed(docs, n) \in TypeOf(texts, n)
    BY TypeOfUnique
  <2>3. d.type \in Declared(docs)
    BY TypesResolve
  <2>4. d.tag = body[b].tag
    BY <1>2 DEF Is
  <2>5. d.type \in T[b]
    BY <2>1, <2>2, <2>4, ChildTyping
  <2>6. Forbidden(body, b, d.type, texts) \subseteq V
    BY <2>1, <2>5, FlawsMember
  <2> QED
    BY <2>1, <2>3, <2>5, <2>6, BadIsForbidden
<1> HIDE DEF T, V
<1>3. \A a \in DOMAIN body : \A n \in T[a] \cap Declared(docs) :
        Walk(body, docs, texts)[a][n] \subseteq V
  BY <1>1, <1>2, WalkWithin
<1> QED
  BY <1>3 DEF T, V

\* A client knows an element that one of its documents declares.
Knows(docs, tag) == \E t \in docs : tag \in DOMAIN Elements[t]

\* _find_element: the first client that knows the element, with the type it
\* declares for it.
LEMMA FindMember ==
  ASSUME NEW finders, NEW tag, NEW found
  PROVE  found \in Find(finders, tag) <=>
           \E i \in DOMAIN finders :
             /\ \A h \in 1..(i - 1) : ~Knows(finders[h].docs, tag)
             /\ \E t \in finders[i].docs :
                  /\ tag \in DOMAIN Elements[t]
                  /\ found = [docs |-> finders[i].docs, type |-> Elements[t][tag]]
  BY DEF Find, Knows

\* validate_body records what the walks from the roots do.
LEMMA ValidateMember ==
  ASSUME NEW body, NEW finders, NEW enums, NEW v
  PROVE  v \in ValidateBody(body, finders, enums) <=>
           \E a \in Roots(body) : \E f \in Find(finders, body[a].tag) :
             v \in Walk(body, f.docs, enums)[a][f.type]
  BY DEF ValidateBody

\* What is found is compiled, and declares its type.
LEMMA FoundIsCompiled ==
  ASSUME NEW finders, \A i \in DOMAIN finders : Compiled(finders[i].docs),
         NEW tag, NEW f \in Find(finders, tag)
  PROVE  /\ Compiled(f.docs) /\ f.type \in Declared(f.docs)
         /\ \E i \in DOMAIN finders : f.docs = finders[i].docs
         /\ \E t \in f.docs : tag \in DOMAIN Elements[t] /\ f.type = Elements[t][tag]
<1>1. PICK i \in DOMAIN finders :
        \E t \in finders[i].docs :
          /\ tag \in DOMAIN Elements[t]
          /\ f = [docs |-> finders[i].docs, type |-> Elements[t][tag]]
  BY FindMember
<1>2. PICK t \in finders[i].docs :
        /\ tag \in DOMAIN Elements[t]
        /\ f = [docs |-> finders[i].docs, type |-> Elements[t][tag]]
  BY <1>1
<1>3. f.docs = finders[i].docs /\ f.type = Elements[t][tag]
  BY <1>2
<1>4. Elements[t][tag] \in Declared(finders[i].docs)
  BY <1>2, ElementsResolve
<1> QED
  BY <1>2, <1>3, <1>4

\* An element that a client knows is found.
LEMMA KnownIsFound ==
  ASSUME NEW finders, NEW k \in Nat, DOMAIN finders = 1..k, NEW tag,
         NEW i \in DOMAIN finders, Knows(finders[i].docs, tag)
  PROVE  \E f : f \in Find(finders, tag)
<1> DEFINE M == {j \in 1..k : Knows(finders[j].docs, tag)}
<1>1. M \subseteq Nat /\ i \in M
  OBVIOUS
<1>2. PICK j \in M : \A h \in M : j <= h
  <2> HIDE DEF M
  <2> QED
    BY <1>1, First
<1>3. ASSUME NEW h \in 1..(j - 1)
      PROVE  ~Knows(finders[h].docs, tag)
  <2>1. h \in 1..k /\ ~(j <= h)
    BY <1>2
  <2> QED
    BY <1>2, <2>1
<1>4. PICK t \in finders[j].docs : tag \in DOMAIN Elements[t]
  BY <1>2 DEF Knows
<1>5. j \in DOMAIN finders
  BY <1>2
<1> HIDE DEF M
<1>6. [docs |-> finders[j].docs, type |-> Elements[t][tag]] \in Find(finders, tag)
  BY <1>3, <1>4, <1>5, FindMember
<1> QED
  BY <1>6

------------------------------------------------------------------------------
\* Whatever the documents, a walk records what the validator has words for.
LEMMA MissingCode ==
  ASSUME NEW tree, NEW a, NEW type, NEW v \in Missing(tree, a, type)
  PROVE  v[1] \in Code
<1>1. \A x, y, z : <<x, y, z>>[1] = x
  OBVIOUS
<1>2. \/ \E d \in type.elements : v = <<"missing-element", a, d.tag>>
      \/ \E x \in type.required : v = <<"missing-attribute", a, x>>
  BY DEF Missing
<1> QED
  BY <1>1, <1>2 DEF Code

\* A value that is not permitted has its word, too.
LEMMA BadCode ==
  ASSUME NEW tree, NEW a, NEW type, NEW enums, NEW v \in BadValue(tree, a, type, enums)
  PROVE  v[1] \in Code
<1>1. \A x, y, z : <<x, y, z>>[1] = x
  OBVIOUS
<1>2. v = <<"bad-enum", a, tree[a].text>>
  BY DEF BadValue
<1> QED
  BY <1>1, <1>2 DEF Code

\* And so has everything that a walk records.
LEMMA WalkCode ==
  ASSUME NEW tree, IsTree(tree), NEW docs, Compiled(docs), NEW enums,
         NEW a \in DOMAIN tree, NEW n \in Declared(docs),
         NEW v \in Walk(tree, docs, enums)[a][n]
  PROVE  v[1] \in Code
<1> DEFINE D == Declared(docs)
           T == [b \in DOMAIN tree |-> D]
           X == UNION {UNION {Missing(tree, b, TypeNamed(docs, m)) : m \in D} : b \in DOMAIN tree}
           Y == UNION {UNION {BadValue(tree, b, m, enums) : m \in D} : b \in DOMAIN tree}
           V == X \cup Y
<1>1. ASSUME NEW b \in DOMAIN tree, NEW m \in D
      PROVE  /\ Missing(tree, b, TypeNamed(docs, m)) \subseteq V
             /\ BadValue(tree, b, m, enums) \subseteq V
  <2> HIDE DEF D
  <2>1. Missing(tree, b, TypeNamed(docs, m)) \subseteq X
    OBVIOUS
  <2>2. BadValue(tree, b, m, enums) \subseteq Y
    OBVIOUS
  <2> QED
    BY <2>1, <2>2
<1>2. \A w \in V : w[1] \in Code
  <2> HIDE DEF D
  <2>1. \A w \in X : w[1] \in Code
    BY MissingCode
  <2>2. \A w \in Y : w[1] \in Code
    BY BadCode
  <2> QED
    BY <2>1, <2>2
<1>3. \A b \in DOMAIN tree : T[b] = D
  OBVIOUS
<1>4. \A b \in DOMAIN tree : \A c \in Children(tree, b) : c \in DOMAIN tree
  BY DEF Children
<1>5. \A m \in D : \A d \in TypeNamed(docs, m).elements : d.type \in D
  BY TypesResolve
<1> HIDE DEF T, V
<1>6. \A b \in DOMAIN tree : \A m \in T[b] \cap Declared(docs) :
           /\ Missing(tree, b, TypeNamed(docs, m)) \subseteq V
           /\ \A c \in Children(tree, b) : \A d \in TypeNamed(docs, m).elements :
                Is(tree[c].tag, d) =>
                  /\ d.type \in T[c] \cap Declared(docs)
                  /\ BadValue(tree, c, d.type, enums) \subseteq V
  BY <1>1, <1>3, <1>4, <1>5
<1>7. \A b \in DOMAIN tree : \A m \in T[b] \cap Declared(docs) :
           Walk(tree, docs, enums)[b][m] \subseteq V
  BY <1>6, WalkWithin
<1> QED
  BY <1>2, <1>3, <1>7

\* What validate_body records is of one of the validator's kinds.
LEMMA ValidateCode ==
  ASSUME NEW body, IsTree(body), NEW finders, \A i \in DOMAIN finders : Compiled(finders[i].docs),
         NEW enums, NEW v \in ValidateBody(body, finders, enums)
  PROVE  v[1] \in Code
<1>0. PICK a \in Roots(body) : \E f \in Find(finders, body[a].tag) :
        v \in Walk(body, f.docs, enums)[a][f.type]
  BY ValidateMember
<1>1. PICK f \in Find(finders, body[a].tag) :
        v \in Walk(body, f.docs, enums)[a][f.type]
  BY <1>0
<1>2. Compiled(f.docs) /\ f.type \in Declared(f.docs)
  BY FoundIsCompiled
<1>3. a \in DOMAIN body
  BY DEF Roots
<1> QED
  BY <1>1, <1>2, <1>3, WalkCode

------------------------------------------------------------------------------
(***************************************************************************)
(* Over documents that declare nothing twice, what is recorded of a Body   *)
(* is wrong with it; and the other way about if its roots are known to a   *)
(* client when they are to the store.                                      *)
(***************************************************************************)
\* Clients compiled from documents of a store.
FindersOf(finders, texts) ==
  /\ \E k \in Nat : DOMAIN finders = 1..k
  /\ \A i \in DOMAIN finders : finders[i].docs \subseteq texts /\ Compiled(finders[i].docs)

\* Nothing is recorded of a Body that is not wrong with it.
LEMMA ValidateIsFlaws ==
  ASSUME NEW body, IsTree(body), NEW texts, texts \subseteq Text, Unique(texts),
         NEW finders, FindersOf(finders, texts)
  PROVE  ValidateBody(body, finders, texts) \subseteq Flaws(body, texts)
<1> SUFFICES ASSUME NEW v \in ValidateBody(body, finders, texts)
             PROVE  v \in Flaws(body, texts)
  OBVIOUS
<1>0. PICK a \in Roots(body) : \E f \in Find(finders, body[a].tag) :
        v \in Walk(body, f.docs, texts)[a][f.type]
  BY ValidateMember
<1>1. PICK f \in Find(finders, body[a].tag) :
        v \in Walk(body, f.docs, texts)[a][f.type]
  BY <1>0
<1>2. /\ Compiled(f.docs) /\ f.type \in Declared(f.docs)
      /\ \E i \in DOMAIN finders : f.docs = finders[i].docs
      /\ \E t \in f.docs : body[a].tag \in DOMAIN Elements[t] /\ f.type = Elements[t][body[a].tag]
  <2>1. \A i \in DOMAIN finders : Compiled(finders[i].docs)
    BY DEF FindersOf
  <2> QED
    BY <2>1, FoundIsCompiled
<1>3. f.docs \subseteq texts
  BY <1>2 DEF FindersOf
<1>4. a \in DOMAIN body /\ Len(a) = 1
  BY DEF Roots
<1>5. f.type \in Typing(body, texts)[a]
  BY <1>2, <1>3, <1>4, RootTyping
<1> QED
  BY <1>1, <1>2, <1>3, <1>4, <1>5, WalkIsFlaws

\* A client has come to a with the type n, or with that of a's parent and so on.
Walked(body, finders, texts, a, n) ==
  \E r \in Roots(body) : \E f \in Find(finders, body[r].tag) :
    /\ n \in Declared(f.docs)
    /\ Walk(body, f.docs, texts)[a][n] \subseteq ValidateBody(body, finders, texts)
    /\ Len(a) > 1 =>
         BadValue(body, a, n, texts) \subseteq ValidateBody(body, finders, texts)

\* Every node of a Body whose elements the clients know is come to, with each of
\* its types.
LEMMA AllWalked ==
  ASSUME NEW body, IsTree(body), NEW texts, texts \subseteq Text, Unique(texts),
         NEW finders, FindersOf(finders, texts),
         \A a \in Roots(body) : \A t \in texts : body[a].tag \in DOMAIN Elements[t] =>
           \E i \in DOMAIN finders : t \in finders[i].docs
  PROVE  \A a \in DOMAIN body : \A n \in Typing(body, texts)[a] :
           Walked(body, finders, texts, a, n)
<1> DEFINE V == ValidateBody(body, finders, texts)
           S == {k \in Nat : \A a \in DOMAIN body : Len(a) <= k =>
                   \A n \in Typing(body, texts)[a] : Walked(body, finders, texts, a, n)}
<1>0. \A i \in DOMAIN finders : Compiled(finders[i].docs)
  BY DEF FindersOf
<1>1. 0 \in S
  <2>1. \A a \in DOMAIN body : ~(Len(a) <= 0)
    <3> SUFFICES ASSUME NEW a \in DOMAIN body PROVE ~(Len(a) <= 0)
      OBVIOUS
    <3> QED
      BY Addresses
  <2> QED
    BY <2>1
<1>2. ASSUME NEW k \in Nat, k \in S
      PROVE  k + 1 \in S
  <2> SUFFICES ASSUME NEW a \in DOMAIN body, Len(a) <= k + 1,
                      NEW n \in Typing(body, texts)[a]
               PROVE  Walked(body, finders, texts, a, n)
    OBVIOUS
  <2>1. CASE Len(a) = 1
    <3>1. /\ a \in Roots(body)
          /\ \E t \in texts : body[a].tag \in DOMAIN Elements[t] /\ n = Elements[t][body[a].tag]
      BY <2>1, RootTyping
    <3>2. PICK t \in texts : body[a].tag \in DOMAIN Elements[t] /\ n = Elements[t][body[a].tag]
      BY <3>1
    <3>3. PICK i \in DOMAIN finders : t \in finders[i].docs
      BY <3>1, <3>2
    <3>4. Knows(finders[i].docs, body[a].tag)
      BY <3>2, <3>3 DEF Knows
    <3>5. PICK f : f \in Find(finders, body[a].tag)
      BY <3>4, KnownIsFound DEF FindersOf
    <3>6. /\ f.type \in Declared(f.docs)
          /\ \E j \in DOMAIN finders : f.docs = finders[j].docs
          /\ \E u \in f.docs : body[a].tag \in DOMAIN Elements[u] /\ f.type = Elements[u][body[a].tag]
      BY <1>0, <3>5, FoundIsCompiled
    <3>7. PICK u \in f.docs : body[a].tag \in DOMAIN Elements[u] /\ f.type = Elements[u][body[a].tag]
      BY <3>6
    <3>8. u \in texts
      BY <3>6, <3>7 DEF FindersOf
    <3>9. u = t
      BY <3>2, <3>7, <3>8 DEF Unique
    <3>10. f.type = n
      BY <3>2, <3>7, <3>9
    <3>11. Walk(body, f.docs, texts)[a][n] \subseteq V
      BY <3>1, <3>5, <3>10, ValidateMember
    <3>12. ~(Len(a) > 1)
      BY <2>1
    <3> QED
      BY <3>1, <3>5, <3>6, <3>10, <3>11, <3>12 DEF Walked
  <2>2. CASE Len(a) # 1
    <3>1. /\ Len(a) > 1 /\ Front(a) \in DOMAIN body /\ Len(Front(a)) = Len(a) - 1
          /\ a \in Children(body, Front(a)) /\ Len(a) \in Nat
      BY <2>2, Addresses
    <3>2. Len(Front(a)) <= k
      BY <3>1
    <3>2a. PICK m \in Typing(body, texts)[Front(a)] : \E type \in TypeOf(texts, m) :
            \E d \in type.elements : d.tag = body[a].tag /\ n = d.type
      BY <2>2, ChildTyping
    <3>2b. PICK type \in TypeOf(texts, m) :
            \E d \in type.elements : d.tag = body[a].tag /\ n = d.type
      BY <3>2a
    <3>3. PICK d \in type.elements : d.tag = body[a].tag /\ n = d.type
      BY <3>2b
    <3>4. Walked(body, finders, texts, Front(a), m)
      BY <1>2, <3>1, <3>2
    <3>4a. PICK r \in Roots(body) : \E f \in Find(finders, body[r].tag) :
            /\ m \in Declared(f.docs)
            /\ Walk(body, f.docs, texts)[Front(a)][m] \subseteq V
      BY <3>4 DEF Walked
    <3>5. PICK f \in Find(finders, body[r].tag) :
            /\ m \in Declared(f.docs)
            /\ Walk(body, f.docs, texts)[Front(a)][m] \subseteq V
      BY <3>4a
    <3>6. Compiled(f.docs) /\ f.docs \subseteq texts
      <4>1. Compiled(f.docs) /\ \E i \in DOMAIN finders : f.docs = finders[i].docs
        BY <1>0, FoundIsCompiled
      <4> QED
        BY <4>1 DEF FindersOf
    <3>7. type = TypeNamed(f.docs, m)
      BY <3>5, <3>6, TypeOfUnique
    <3>8. n \in Declared(f.docs)
      BY <3>3, <3>5, <3>6, <3>7, TypesResolve
    <3>9. Is(body[a].tag, d)
      BY <3>3 DEF Is
    <3> HIDE DEF V
    <3>10. \A v : v \in BadValue(body, a, n, texts) \/ v \in Walk(body, f.docs, texts)[a][n] =>
                    v \in Walk(body, f.docs, texts)[Front(a)][m]
      BY <3>1, <3>3, <3>5, <3>7, <3>9, WalkMember
    <3>11. /\ BadValue(body, a, n, texts) \subseteq V
           /\ Walk(body, f.docs, texts)[a][n] \subseteq V
      BY <3>5, <3>10
    <3> QED
      BY <3>8, <3>11 DEF Walked, V
  <2> QED
    BY <2>1, <2>2
<1>3. Cardinality(DOMAIN body) \in Nat
  BY FS_CardinalityType DEF IsTree
<1>4. Cardinality(DOMAIN body) \in S
  <2> HIDE DEF S
  <2> QED
    BY <1>1, <1>2, <1>3, Induct
<1>5. \A a \in DOMAIN body : Len(a) <= Cardinality(DOMAIN body)
  BY Addresses
<1> QED
  BY <1>4, <1>5

\* All that is wrong with such a Body is recorded.
LEMMA FlawsAreRecorded ==
  ASSUME NEW body, IsTree(body), NEW texts, texts \subseteq Text, Unique(texts),
         NEW finders, FindersOf(finders, texts),
         \A a \in Roots(body) : \A t \in texts : body[a].tag \in DOMAIN Elements[t] =>
           \E i \in DOMAIN finders : t \in finders[i].docs
  PROVE  Flaws(body, texts) \subseteq ValidateBody(body, finders, texts)
<1> SUFFICES ASSUME NEW flaw \in Flaws(body, texts)
             PROVE  flaw \in ValidateBody(body, finders, texts)
  OBVIOUS
<1>0. PICK a \in DOMAIN body : \E n \in Typing(body, texts)[a] :
        \/ \E type \in TypeOf(texts, n) : flaw \in Lacks(body, a, type)
        \/ flaw \in Forbidden(body, a, n, texts)
  BY FlawsMember
<1>1. PICK n \in Typing(body, texts)[a] :
        \/ \E type \in TypeOf(texts, n) : flaw \in Lacks(body, a, type)
        \/ flaw \in Forbidden(body, a, n, texts)
  BY <1>0
<1>2. Walked(body, finders, texts, a, n)
  BY AllWalked
<1>2a. PICK r \in Roots(body) : \E f \in Find(finders, body[r].tag) :
        /\ n \in Declared(f.docs)
        /\ Walk(body, f.docs, texts)[a][n] \subseteq ValidateBody(body, finders, texts)
        /\ Len(a) > 1 =>
             BadValue(body, a, n, texts) \subseteq ValidateBody(body, finders, texts)
  BY <1>2 DEF Walked
<1>3. PICK f \in Find(finders, body[r].tag) :
        /\ n \in Declared(f.docs)
        /\ Walk(body, f.docs, texts)[a][n] \subseteq ValidateBody(body, finders, texts)
        /\ Len(a) > 1 =>
             BadValue(body, a, n, texts) \subseteq ValidateBody(body, finders, texts)
  BY <1>2a
<1>4. Compiled(f.docs) /\ f.docs \subseteq texts
  <2>1. \A i \in DOMAIN finders : Compiled(finders[i].docs)
    BY DEF FindersOf
  <2>2. Compiled(f.docs) /\ \E i \in DOMAIN finders : f.docs = finders[i].docs
    BY <2>1, FoundIsCompiled
  <2> QED
    BY <2>2 DEF FindersOf
<1>5. ASSUME NEW type \in TypeOf(texts, n), flaw \in Lacks(body, a, type)
      PROVE  flaw \in ValidateBody(body, finders, texts)
  <2>1. type = TypeNamed(f.docs, n)
    BY <1>3, <1>4, TypeOfUnique
  <2>2. flaw \in Missing(body, a, TypeNamed(f.docs, n))
    BY <1>5, <2>1, MissingIsLacks
  <2>3. flaw \in Walk(body, f.docs, texts)[a][n]
    BY <1>3, <2>2, WalkMember
  <2> QED
    BY <1>3, <2>3
<1>6. ASSUME flaw \in Forbidden(body, a, n, texts)
      PROVE  flaw \in ValidateBody(body, finders, texts)
  <2>1. Len(a) > 1
    BY <1>6, ForbiddenMember
  <2>2. flaw \in BadValue(body, a, n, texts)
    BY <1>6, <2>1, BadIsForbidden
  <2> QED
    BY <1>3, <2>1, <2>2
<1> QED
  BY <1>1, <1>5, <1>6

------------------------------------------------------------------------------
(***************************************************************************)
(* The clients.                                                            *)
(***************************************************************************)
\* Documents that refer to none but themselves.
ClosedKeys(keys) == {r.key : r \in RefersTo(keys)} \subseteq keys

\* What documents refer to are the references of those that are there.
LEMMA RefersType ==
  ASSUME NEW keys
  PROVE  /\ \A r \in RefersTo(keys) : r.key \in Key
         /\ \A r : r \in RefersTo(keys) <=>
              \E k \in keys : files[k] \in Text /\ r \in Refs[files[k]]
<1>1. ASSUME NEW r
      PROVE  r \in RefersTo(keys) <=>
               \E k \in keys : files[k] \in Text /\ r \in Refs[files[k]]
  BY DEF RefersTo
<1>2. \A t \in Text : Refs[t] \subseteq Ref
  BY SchemaStoreAssumption
<1>3. \A r \in Ref : r.key \in Key
  BY DEF Ref
<1> QED
  BY <1>1, <1>2, <1>3

\* The documents zeep reaches from a WSDL are the least closed set with it.
LEMMA ReachIsLeast ==
  ASSUME NEW key \in Key
  PROVE  /\ Reach(key) \subseteq Key /\ key \in Reach(key) /\ ClosedKeys(Reach(key))
         /\ \A keys \in SUBSET Key :
              key \in keys /\ ClosedKeys(keys) => Reach(key) \subseteq keys
<1>1. ASSUME NEW k
      PROVE  k \in Reach(key) <=>
               k \in Key /\ \A keys \in SUBSET Key :
                               key \in keys /\ ClosedKeys(keys) => k \in keys
  BY DEF Reach, ClosedKeys
<1>2. \A keys \in SUBSET Key : key \in keys /\ ClosedKeys(keys) => Reach(key) \subseteq keys
  BY <1>1
<1>3. Reach(key) \subseteq Key /\ key \in Reach(key)
  BY <1>1
<1>4. ASSUME NEW r \in RefersTo(Reach(key))
      PROVE  r.key \in Reach(key)
  <2>1. ASSUME NEW keys \in SUBSET Key, key \in keys, ClosedKeys(keys)
        PROVE  r.key \in keys
    <3>1. Reach(key) \subseteq keys
      BY <1>2, <2>1
    <3>2. r \in RefersTo(keys)
      BY <3>1, RefersType
    <3> QED
      BY <2>1, <3>2 DEF ClosedKeys
  <2>2. r.key \in Key
    BY RefersType
  <2> QED
    BY <1>1, <2>1, <2>2
<1> QED
  BY <1>2, <1>3, <1>4 DEF ClosedKeys

\* The clients there can be.
Clients == [service : Key, docs : {d \in SUBSET Text : Compiled(d)}]

\* A client that zeep can build is one: it read texts, and compiled them.
LEMMA BuiltType ==
  ASSUME NEW key, NEW docs, DOMAIN docs \subseteq Key, CanBuild(key, docs)
  PROVE  Built(key) \in Clients
<1>1. key \in Key /\ files[key] \in Text
  BY DEF CanBuild
<1> DEFINE S == {k \in Reach(key) : files[k] \in Text}
<1>2. S \in SUBSET Key /\ key \in S
  BY <1>1, ReachIsLeast
<1>3. ASSUME NEW r \in RefersTo(S)
      PROVE  r.key \in S
  <2>1. r \in RefersTo(Reach(key))
    BY RefersType
  <2>2. r.key \in Reach(key)
    BY <1>1, <2>1, ReachIsLeast DEF ClosedKeys
  <2>3. files[r.key] \in Text
    BY <2>1 DEF CanBuild, Served
  <2> QED
    BY <2>2, <2>3
<1>4. Reach(key) \subseteq S
  <2>1. ClosedKeys(S)
    BY <1>3 DEF ClosedKeys
  <2> HIDE DEF S
  <2> QED
    BY <1>1, <1>2, <2>1, ReachIsLeast
<1>5. Built(key) = [service |-> key, docs |-> {files[k] : k \in Reach(key)}]
  BY DEF Built
<1>6. {files[k] : k \in Reach(key)} \subseteq Text
  BY <1>4
<1>7. Built(key).docs \subseteq Text /\ Named(Built(key).docs) \subseteq Declared(Built(key).docs)
  BY <1>5, <1>6 DEF CanBuild
<1>8. Built(key).docs \in {d \in SUBSET Text : Compiled(d)}
  BY <1>7 DEF Compiled
<1> QED
  BY <1>1, <1>5, <1>8 DEF Clients

\* So is the one there is for a service, if there is one.
LEMMA ClientType ==
  ASSUME NEW key, NEW docs, DOMAIN docs \subseteq Key
  PROVE  Client(key, docs) \in Seq(Clients)
<1>1. CASE CanBuild(key, docs)
  <2>1. Built(key) \in Clients
    BY <1>1, BuiltType
  <2>2. Client(key, docs) = <<Built(key)>>
    BY <1>1 DEF Client
  <2> QED
    BY <2>1, <2>2
<1>2. CASE ~CanBuild(key, docs)
  BY <1>2 DEF Client
<1> QED
  BY <1>1, <1>2

\* The store holds texts, and the index of its enumerations is built of all.
LEMMA OnDiskType ==
  ASSUME DiskOK
  PROVE  /\ DOMAIN OnDisk \subseteq Key /\ Range(OnDisk) \subseteq Text
         /\ \A k \in DOMAIN OnDisk : OnDisk[k] = files[k] /\ files[k] \in Text
         /\ \A docs : DOMAIN docs = DOMAIN OnDisk => Readable(docs) = Range(OnDisk)
<1>1. /\ DOMAIN OnDisk = {k \in Key : files[k] \in Text}
      /\ \A k \in DOMAIN OnDisk : OnDisk[k] = files[k]
  BY DEF OnDisk
<1>2. Range(OnDisk) = {OnDisk[k] : k \in DOMAIN OnDisk}
  BY DEF Range
<1>4. Range(OnDisk) \subseteq Text
  BY <1>1, <1>2
<1>5. ASSUME NEW docs, DOMAIN docs = DOMAIN OnDisk
      PROVE  Readable(docs) = Range(OnDisk)
  <2>1. Readable(docs) = {files[k] : k \in DOMAIN OnDisk} \cap Text
    BY <1>5 DEF Readable
  <2> QED
    BY <1>1, <1>2, <2>1
<1> QED
  BY <1>1, <1>4, <1>5

\* In a whole store a document refers to what is there.
LEMMA WholeReach ==
  ASSUME DiskOK, Whole(OnDisk), NEW key \in DOMAIN OnDisk
  PROVE  Reach(key) \subseteq DOMAIN OnDisk /\ Built(key).docs \subseteq Range(OnDisk)
<1> DEFINE D == DOMAIN OnDisk
<1>1. D \subseteq Key /\ \A k \in D : OnDisk[k] = files[k]
  BY OnDiskType
<1>2. ASSUME NEW r \in RefersTo(D)
      PROVE  r.key \in D
  <2>1. PICK k \in D : r \in Refs[files[k]]
    BY RefersType
  <2> QED
    BY <1>1, <2>1 DEF Whole
<1>3. Reach(key) \subseteq D
  <2>1. ClosedKeys(D)
    BY <1>2 DEF ClosedKeys
  <2> HIDE DEF D
  <2>2. key \in D
    BY DEF D
  <2> QED
    BY <1>1, <2>1, <2>2, ReachIsLeast
<1>4. Built(key).docs = {files[k] : k \in Reach(key)}
  BY DEF Built
<1>5. Range(OnDisk) = {OnDisk[k] : k \in D}
  BY DEF Range
<1> QED
  BY <1>1, <1>3, <1>4, <1>5

\* From a whole store, listed in full, zeep builds the client of a service whose
\* types are declared.
LEMMA WholeBuilds ==
  ASSUME DiskOK, Whole(OnDisk), NEW key \in DOMAIN OnDisk,
         Named(Built(key).docs) \subseteq Declared(Built(key).docs),
         NEW docs, DOMAIN docs = DOMAIN OnDisk
  PROVE  CanBuild(key, docs)
<1>1. files[key] \in Text
  BY OnDiskType
<1>2. ASSUME NEW r \in RefersTo(Reach(key))
      PROVE  Served(docs, r)
  <2>1. key \in Key
    BY OnDiskType
  <2>2. r.key \in DOMAIN OnDisk
    BY <2>1, ReachIsLeast, WholeReach DEF ClosedKeys
  <2>3. files[r.key] \in Text
    BY <2>2, OnDiskType
  <2> QED
    BY <2>2, <2>3 DEF Served
<1> QED
  BY <1>1, <1>2 DEF CanBuild

\* A whole store has the documents of the services.
LEMMA ServiceOnDisk ==
  ASSUME Whole(OnDisk), NEW r \in Response
  PROVE  r.service \in DOMAIN OnDisk
  BY ResponseChecksAssumption DEF Whole

\* A store that verifies is what its manifest says, and whole.
LEMMA VerifiedIsRead ==
  ASSUME DiskInv, Verifies(NotLoaded)
  PROVE  DOMAIN manifest.docs = DOMAIN OnDisk /\ Whole(OnDisk)
<1>1. /\ DiskOK /\ IsDocuments(manifest.docs) /\ ManifestOK(manifest.docs)
      /\ Loaded(NotLoaded).docs = manifest.docs
  BY DEF DiskInv, DiskOK, Loaded, NotLoaded
<1>2. Whole(OnDisk)
  BY <1>1, AgreesIsWhole
<1> DEFINE docs == manifest.docs
<1>3. /\ \A k \in DOMAIN docs : files[k] = docs[k] /\ docs[k] \in Text /\ k \in Key
      /\ \A k \in Key \ DOMAIN docs : files[k] = "absent"
  BY <1>1 DEF Verifies, Problems, IsDocuments
<1>4. "absent" \notin Text
  BY SchemaStoreAssumption DEF NoText
<1>5. DOMAIN OnDisk = {k \in Key : files[k] \in Text}
  BY DEF OnDisk
<1> QED
  BY <1>2, <1>3, <1>4, <1>5

------------------------------------------------------------------------------
(***************************************************************************)
(* The inductive invariant.                                                *)
(***************************************************************************)
\* The first conjunct of SinkIsExact, what it says of a sound run.
Exact ==
  /\ schema \subseteq UNION {{r} \X Flaws(r.body, Range(OnDisk)) : r \in Judged}
  /\ \A r \in Judged :
       OfItsService(r) => {r} \X Flaws(r.body, Range(OnDisk)) \subseteq schema

\* What a run that has looked at a verified store that nobody touched goes by,
\* with docs for the manifest it read.
Ready(docs) ==
  /\ DOMAIN docs = DOMAIN OnDisk /\ Whole(OnDisk)
  /\ index.built => index.texts = Range(OnDisk)
  /\ \A i \in DOMAIN clients :
       /\ clients[i] = Built(clients[i].service)
       /\ clients[i].docs \subseteq Range(OnDisk)
  /\ Unique(Range(OnDisk)) => Exact

\* A run that has not turned to the store has met no element.
NotLooked ==
  /\ schema = {} /\ clients = <<>> /\ ~index.built
  /\ \A r \in Judged : Roots(r.body) = {}

\* All that the run makes of a store that was verified when it turned to it, and
\* that nobody has touched since, is as that store has it.
SoundInv == sound => IF seen.loaded THEN Ready(seen.docs) ELSE NotLooked

\* The types that a run keeps; that the clients are compiled is more than RunOK.
RunTypes ==
  /\ sound \in BOOLEAN
  /\ IsDocuments(seen.docs)
  /\ clients \in Seq(Clients)
  /\ index.built \in BOOLEAN /\ index.texts \subseteq Text
  /\ \A v \in schema : v[1] \in Response /\ v[2][1] \in Code
  /\ received \subseteq Response \X {"zeep", "raw"}

\* What is recorded of the addressing of a response is a matter of it alone.
AddressingInv ==
  wsa = UNION {{r} \X AddressingViolations(r) : r \in {q \in Response : <<q, "zeep">> \in received}}

\* What holds of the run, given StoreInv of the store.
RunInv == RunTypes /\ SoundInv /\ AddressingInv

------------------------------------------------------------------------------
\* Where the files stay, so does what is built from them.
LEMMA SameDisk ==
  ASSUME files' = files
  PROVE  /\ OnDisk' = OnDisk
         /\ \A key : Built(key)' = Built(key)
         /\ \A r : OfItsService(r)' <=> OfItsService(r)
<1>1. OnDisk' = OnDisk
  BY DEF OnDisk
<1>2. ASSUME NEW key
      PROVE  Built(key)' = Built(key)
  BY DEF Built, Reach, RefersTo
<1>3. ASSUME NEW r
      PROVE  OfItsService(r)' <=> OfItsService(r)
  <2>1. Built(r.service)' = Built(r.service)
    BY <1>2
  <2> QED
    BY <1>1, <2>1 DEF OfItsService
<1> QED
  BY <1>1, <1>2, <1>3

\* The clients of a run are compiled, and counted from one.
LEMMA ClientsCompiled ==
  ASSUME NEW finders \in Seq(Clients)
  PROVE  /\ \E k \in Nat : DOMAIN finders = 1..k
         /\ \A i \in DOMAIN finders : finders[i] \in Clients /\ Compiled(finders[i].docs)
<1>1. Len(finders) \in Nat /\ DOMAIN finders = 1..Len(finders)
  OBVIOUS
<1>2. \A i \in 1..Len(finders) : finders[i] \in Clients
  OBVIOUS
<1>3. \A c \in Clients : Compiled(c.docs)
  BY DEF Clients
<1> QED
  BY <1>1, <1>2, <1>3

\* A Body is a tree.
LEMMA ResponseTree ==
  ASSUME NEW r \in Response
  PROVE  IsTree(r.body)
  BY ResponseChecksAssumption

\* Whatever the clients, a response judged is recorded with the validator's words.
LEMMA JudgeType ==
  ASSUME NEW r \in Response, NEW finders \in Seq(Clients), NEW docs, Judge(r, finders, docs),
         index.built \in BOOLEAN, index.texts \subseteq Text
  PROVE  /\ index'.built \in BOOLEAN /\ index'.texts \subseteq Text
         /\ \A v \in schema' : v \in schema \/ (v[1] = r /\ v[2][1] \in Code)
<1>1. CASE UNCHANGED <<index, schema>>
  BY <1>1
<1>2. ASSUME NEW texts, texts \subseteq Text, index' = [built |-> TRUE, texts |-> texts],
             schema' = schema \cup ({r} \X ValidateBody(r.body, finders, texts))
      PROVE  /\ index'.built \in BOOLEAN /\ index'.texts \subseteq Text
             /\ \A v \in schema' : v \in schema \/ (v[1] = r /\ v[2][1] \in Code)
  <2>1. IsTree(r.body) /\ \A i \in DOMAIN finders : Compiled(finders[i].docs)
    BY ResponseTree, ClientsCompiled
  <2>2. \A v \in ValidateBody(r.body, finders, texts) : v[1] \in Code
    BY <2>1, ValidateCode
  <2>3. \A v \in {r} \X ValidateBody(r.body, finders, texts) : v[1] = r /\ v[2][1] \in Code
    BY <2>2
  <2> QED
    BY <1>2, <2>3
<1>3. \/ UNCHANGED <<index, schema>>
      \/ \E texts \in SUBSET Text :
           /\ index' = [built |-> TRUE, texts |-> texts]
           /\ schema' = schema \cup ({r} \X ValidateBody(r.body, finders, texts))
  <2>1. Readable(docs) \in SUBSET Text
    BY DEF Readable
  <2>2. (IF index.built THEN index.texts ELSE Readable(docs)) \in SUBSET Text
    BY <2>1
  <2> QED
    BY <2>2 DEF Judge
<1> QED
  BY <1>1, <1>2, <1>3

\* With clients and index of the store as it is, a response judged has recorded
\* what validate_body finds by the whole store; if no element of it is known the
\* index waits, and there is nothing to record.
LEMMA JudgeRecords ==
  ASSUME DiskOK, NEW r \in Response, r.envelope = "soap12", NEW finders,
         NEW docs, DOMAIN docs = DOMAIN OnDisk, Judge(r, finders, docs),
         index.built => index.texts = Range(OnDisk)
  PROVE  /\ schema' = schema \cup ({r} \X ValidateBody(r.body, finders, Range(OnDisk)))
         /\ index'.built => index'.texts = Range(OnDisk)
<1> DEFINE walks == \E a \in Roots(r.body) : Find(finders, r.body[a].tag) # {}
           texts == IF index.built THEN index.texts ELSE Readable(docs)
<1>1. texts = Range(OnDisk)
  BY OnDiskType
<1>2. IF walks THEN /\ index' = [built |-> TRUE, texts |-> texts]
                    /\ schema' = schema \cup ({r} \X ValidateBody(r.body, finders, texts))
               ELSE UNCHANGED <<index, schema>>
  BY DEF Judge
<1>3. ~walks => ValidateBody(r.body, finders, Range(OnDisk)) = {}
  BY ValidateMember
<1> HIDE DEF walks, texts
<1>4. CASE walks
  <2>1. index'.texts = texts
    BY <1>2, <1>4
  <2> QED
    BY <1>1, <1>2, <1>4, <2>1
<1>5. CASE ~walks
  BY <1>2, <1>3, <1>5
<1> QED
  BY <1>4, <1>5

------------------------------------------------------------------------------
\* A response received is one more that is judged, or it is not judged.
LEMMA JudgedGrows ==
  ASSUME NEW r \in Response, NEW via \in {"zeep", "raw"},
         received' = received \cup {<<r, via>>}
  PROVE  Judged' = IF Unjudged(r, via) THEN Judged ELSE Judged \cup {r}
<1>1. ASSUME NEW q \in Response
      PROVE  q \in Judged' <=> q \in Judged \/ (q = r /\ ~Unjudged(r, via))
  BY DEF Judged
<1>2. Judged \subseteq Response /\ Judged' \subseteq Response
  BY DEF Judged
<1> QED
  BY <1>1, <1>2

\* A response judged by clients of the store keeps the sink exact.
LEMMA ExactStep ==
  ASSUME DiskOK, files' = files, Unique(Range(OnDisk)), Exact,
         NEW r \in Response, NEW via \in {"zeep", "raw"}, ~Unjudged(r, via),
         received' = received \cup {<<r, via>>},
         NEW finders, FindersOf(finders, Range(OnDisk)),
         schema' = schema \cup ({r} \X ValidateBody(r.body, finders, Range(OnDisk))),
         OfItsService(r) =>
           \E i \in DOMAIN finders : Built(r.service).docs \subseteq finders[i].docs
  PROVE  Exact'
<1> DEFINE D == Range(OnDisk)
           W == ValidateBody(r.body, finders, D)
<1>1. D' = D /\ \A q : OfItsService(q)' <=> OfItsService(q)
  BY SameDisk
<1>2. Judged' = Judged \cup {r}
  BY JudgedGrows
<1>3. D \subseteq Text /\ IsTree(r.body)
  BY OnDiskType, ResponseTree
<1>4. W \subseteq Flaws(r.body, D)
  BY <1>3, ValidateIsFlaws
<1>5. ASSUME OfItsService(r)
      PROVE  Flaws(r.body, D) \subseteq W
  <2>1. PICK i \in DOMAIN finders : Built(r.service).docs \subseteq finders[i].docs
    BY <1>5
  <2>2. \A a \in Roots(r.body) : \A t \in D : r.body[a].tag \in DOMAIN Elements[t] =>
          \E j \in DOMAIN finders : t \in finders[j].docs
    BY <1>5, <2>1 DEF OfItsService
  <2> QED
    BY <1>3, <2>2, FlawsAreRecorded
<1> HIDE DEF D, W
<1>6. schema' = schema \cup ({r} \X W)
  BY DEF W, D
<1>7. Exact' <=>
        /\ schema' \subseteq UNION {{q} \X Flaws(q.body, D) : q \in Judged'}
        /\ \A q \in Judged' : OfItsService(q)' => {q} \X Flaws(q.body, D) \subseteq schema'
  BY <1>1 DEF Exact, D
<1>8. /\ schema \subseteq UNION {{q} \X Flaws(q.body, D) : q \in Judged}
      /\ \A q \in Judged : OfItsService(q) => {q} \X Flaws(q.body, D) \subseteq schema
  BY DEF Exact, D
<1>9. schema' \subseteq UNION {{q} \X Flaws(q.body, D) : q \in Judged'}
  <2>1. schema \subseteq UNION {{q} \X Flaws(q.body, D) : q \in Judged'}
    BY <1>2, <1>8
  <2>2. {r} \X W \subseteq {r} \X Flaws(r.body, D)
    BY <1>4
  <2>3. {r} \X Flaws(r.body, D) \subseteq UNION {{q} \X Flaws(q.body, D) : q \in Judged'}
    BY <1>2
  <2> QED
    BY <1>6, <2>1, <2>2, <2>3
<1>10. ASSUME NEW q \in Judged', OfItsService(q)'
       PROVE  {q} \X Flaws(q.body, D) \subseteq schema'
  <2>1. OfItsService(q)
    BY <1>1, <1>10
  <2>2. CASE q \in Judged
    BY <1>6, <1>8, <2>1, <2>2
  <2>3. CASE q = r
    BY <1>5, <1>6, <2>1, <2>3
  <2> QED
    BY <1>2, <2>2, <2>3
<1> QED
  BY <1>7, <1>9, <1>10

\* One that is not judged, and leaves the sink alone, too.
LEMMA ExactStays ==
  ASSUME files' = files, Exact, schema' = schema, Judged' = Judged
  PROVE  Exact'
<1>1. Range(OnDisk)' = Range(OnDisk) /\ \A q : OfItsService(q)' <=> OfItsService(q)
  BY SameDisk
<1> QED
  BY <1>1 DEF Exact

\* Before the run has looked there is nothing to be exact about.
LEMMA NothingIsExact ==
  ASSUME DiskOK, schema = {}, \A r \in Judged : Roots(r.body) = {}, Unique(Range(OnDisk))
  PROVE  Exact
<1> SUFFICES ASSUME NEW r \in Judged
             PROVE  Flaws(r.body, Range(OnDisk)) = {}
  BY DEF Exact
<1>1. IsTree(r.body)
  BY ResponseTree DEF Judged
<1>2. FindersOf(<<>>, Range(OnDisk))
  BY DEF FindersOf
<1>3. Flaws(r.body, Range(OnDisk)) \subseteq ValidateBody(r.body, <<>>, Range(OnDisk))
  BY <1>1, <1>2, OnDiskType, FlawsAreRecorded
<1>4. ValidateBody(r.body, <<>>, Range(OnDisk)) = {}
  BY ValidateMember
<1> QED
  BY <1>3, <1>4

------------------------------------------------------------------------------
(***************************************************************************)
(* The steps.                                                              *)
(***************************************************************************)
\* What is in a concatenation is in one of the two.
LEMMA InConcat ==
  ASSUME NEW S, NEW s \in Seq(S), NEW t \in Seq(S)
  PROVE  /\ \A i \in DOMAIN (s \o t) :
              \/ \E j \in DOMAIN s : (s \o t)[i] = s[j]
              \/ \E j \in DOMAIN t : (s \o t)[i] = t[j]
         /\ \A j \in DOMAIN s : \E i \in DOMAIN (s \o t) : (s \o t)[i] = s[j]
<1>1. s \o t \in Seq(S) /\ ToSet(s \o t) = ToSet(s) \cup ToSet(t)
  BY ToSetConcat
<1> DEFINE u == s \o t
<1>2. u \in Seq(S) /\ ToSet(u) = ToSet(s) \cup ToSet(t)
  BY <1>1
<1> HIDE DEF u
<1>3. /\ ToSet(s) = {s[i] : i \in DOMAIN s} /\ ToSet(t) = {t[i] : i \in DOMAIN t}
      /\ ToSet(u) = {u[i] : i \in DOMAIN u}
  BY DEF ToSet
<1>4. \A i \in DOMAIN u : (\E j \in DOMAIN s : u[i] = s[j]) \/ (\E j \in DOMAIN t : u[i] = t[j])
  BY <1>2, <1>3
<1>5. \A j \in DOMAIN s : \E i \in DOMAIN u : u[i] = s[j]
  BY <1>2, <1>3
<1> QED
  BY <1>4, <1>5 DEF u

\* The manifest a run goes by is the one it read, or the one it reads now.
LEMMA LoadedType ==
  ASSUME DiskOK, IsDocuments(seen.docs)
  PROVE  IsDocuments(Loaded(seen).docs)
  BY DEF Loaded, DiskOK

\* A run that turns to the store, for the first time or again, is ready to judge by
\* what it found there.
LEMMA LookReady ==
  ASSUME DiskInv, SoundInv, Look, sound'
  PROVE  /\ sound
         /\ seen'.loaded /\ seen'.docs = Loaded(seen).docs
         /\ Ready(Loaded(seen).docs)
<1>1. sound /\ (seen.loaded \/ Verifies(NotLoaded)) /\ seen' = Loaded(seen)
  BY DEF Look
<1>2. CASE seen.loaded
  BY <1>1, <1>2 DEF SoundInv, Loaded
<1>3. CASE ~seen.loaded
  <2>1. NotLooked
    BY <1>1, <1>3 DEF SoundInv
  <2>2. Loaded(seen) = [loaded |-> TRUE, docs |-> manifest.docs]
    BY <1>3 DEF Loaded
  <2>3. DOMAIN manifest.docs = DOMAIN OnDisk /\ Whole(OnDisk)
    BY <1>1, <1>3, VerifiedIsRead
  <2>4. Unique(Range(OnDisk)) => Exact
    BY <2>1, NothingIsExact DEF NotLooked, DiskInv
  <2>5. DOMAIN clients = {}
    BY <2>1 DEF NotLooked
  <2>6. Ready(manifest.docs)
    BY <2>1, <2>3, <2>4, <2>5 DEF Ready, NotLooked
  <2> QED
    BY <1>1, <2>2, <2>6
<1> QED
  BY <1>2, <1>3

\* A client built of a whole store reads what is there.
LEMMA ClientReads ==
  ASSUME DiskOK, Whole(OnDisk), NEW docs, DOMAIN docs = DOMAIN OnDisk, NEW key,
         NEW i \in DOMAIN Client(key, docs)
  PROVE  /\ Client(key, docs)[i] = Built(key) /\ Built(key).service = key
         /\ Built(key).docs \subseteq Range(OnDisk)
<1>1. CanBuild(key, docs)
  BY DEF Client
<1>2. Client(key, docs) = <<Built(key)>>
  BY <1>1 DEF Client
<1>3. i = 1 /\ Client(key, docs)[i] = Built(key)
  BY <1>2
<1>4. key \in DOMAIN OnDisk
  BY <1>1 DEF CanBuild
<1> QED
  BY <1>3, <1>4, WholeReach DEF Built

\* Binding a client keeps the invariant (dut.py, DUT.__getattr__).
LEMMA BindInv ==
  ASSUME DiskInv, RunInv, NEW key, Bind(key)
  PROVE  RunInv'
<1> DEFINE docs == Loaded(seen).docs
           c == Client(key, docs)
<1>1. DiskOK /\ RunTypes /\ SoundInv /\ AddressingInv
  BY DEF DiskInv, RunInv
<1>2. /\ Look /\ clients' = clients \o c /\ seen'.docs = docs
      /\ UNCHANGED <<files, index, schema, wsa, received>>
  BY DEF Bind, Look, storeVars, disk
<1>3. IsDocuments(docs)
  BY <1>1, LoadedType DEF RunTypes
<1>4. c \in Seq(Clients) /\ clients \in Seq(Clients)
  BY <1>1, <1>3, ClientType DEF RunTypes, IsDocuments
<1>5. RunTypes'
  <2>1. clients' \in Seq(Clients)
    <3> HIDE DEF c
    <3> QED
      BY <1>2, <1>4, ToSetConcat
  <2>2. sound' \in BOOLEAN
    BY <1>2 DEF Look
  <2>3. IsDocuments(seen'.docs)
    BY <1>2, <1>3
  <2> HIDE DEF c, docs
  <2> QED
    BY <1>1, <1>2, <2>1, <2>2, <2>3 DEF RunTypes, IsDocuments
<1>6. ASSUME sound'
      PROVE  seen'.loaded /\ Ready(seen.docs)'
  <2>1. seen'.loaded /\ Ready(docs)
    BY <1>1, <1>2, <1>6, LookReady
  <2>2. OnDisk' = OnDisk /\ \A k : Built(k)' = Built(k)
    BY <1>2, SameDisk
  <2>3. ASSUME NEW i \in DOMAIN clients'
        PROVE  /\ clients'[i] = Built(clients'[i].service)
               /\ clients'[i].docs \subseteq Range(OnDisk)
    <3> HIDE DEF c
    <3>1. CASE \E j \in DOMAIN clients : clients'[i] = clients[j]
      BY <2>1, <3>1 DEF Ready
    <3>2. CASE \E j \in DOMAIN c : clients'[i] = c[j]
      <4>1. PICK j \in DOMAIN c : clients'[i] = c[j]
        BY <3>2
      <4>2. /\ c[j] = Built(key) /\ Built(key).service = key
            /\ Built(key).docs \subseteq Range(OnDisk)
        BY <1>1, <2>1, <4>1, ClientReads DEF Ready, c
      <4> QED
        BY <4>1, <4>2
    <3> QED
      BY <1>2, <1>4, <2>3, <3>1, <3>2, InConcat
  <2>4. Unique(Range(OnDisk)) => Exact'
    <3>1. Judged' = Judged
      BY <1>2 DEF Judged
    <3> QED
      BY <1>2, <2>1, <3>1, ExactStays DEF Ready
  <2> HIDE DEF docs, c
  <2>5. ASSUME NEW i \in DOMAIN clients'
        PROVE  (/\ clients[i] = Built(clients[i].service)
                /\ clients[i].docs \subseteq Range(OnDisk))'
    <3>1. Built(clients[i].service)' = Built(clients'[i].service)
      BY <1>2 DEF Built, Reach, RefersTo
    <3> QED
      BY <2>2, <2>3, <3>1
  <2>6. /\ DOMAIN seen'.docs = DOMAIN OnDisk' /\ Whole(OnDisk)'
        /\ index'.built => index'.texts = Range(OnDisk)'
        /\ Unique(Range(OnDisk))' => Exact'
    BY <1>2, <2>1, <2>2, <2>4 DEF Ready, Whole, Unique
  <2> QED
    BY <2>1, <2>5, <2>6 DEF Ready
<1>7. AddressingInv'
  BY <1>1, <1>2 DEF AddressingInv
<1> QED
  BY <1>5, <1>6, <1>7 DEF RunInv, SoundInv

\* Where files, clients and the manifest read stay as they are, so does what the
\* run goes by, if the sink and the index do well.
LEMMA ReadyStays ==
  ASSUME NEW docs, Ready(docs), UNCHANGED <<files, clients>>, seen'.docs = docs,
         index'.built => index'.texts = Range(OnDisk),
         Unique(Range(OnDisk)) => Exact'
  PROVE  Ready(seen.docs)'
<1>1. OnDisk' = OnDisk
  BY SameDisk
<1>2. ASSUME NEW i \in DOMAIN clients'
      PROVE  (/\ clients[i] = Built(clients[i].service)
              /\ clients[i].docs \subseteq Range(OnDisk))'
  <2>1. Built(clients[i].service)' = Built(clients[i].service)
    BY DEF Built, Reach, RefersTo
  <2> QED
    BY <1>1, <2>1 DEF Ready
<1>3. /\ DOMAIN seen'.docs = DOMAIN OnDisk' /\ Whole(OnDisk)'
      /\ index'.built => index'.texts = Range(OnDisk)'
      /\ Unique(Range(OnDisk))' => Exact'
  BY <1>1 DEF Ready, Whole, Unique
<1> QED
  BY <1>2, <1>3 DEF Ready

\* A response judged by clients of the store is recorded exactly.
LEMMA SeenRecords ==
  ASSUME RunTypes, DiskOK, NEW r \in Response, NEW via \in {"zeep", "raw"},
         NEW docs, Ready(docs), NEW finders \in Seq(Clients),
         \A i \in DOMAIN finders : finders[i].docs \subseteq Range(OnDisk),
         OfItsService(r) =>
           \E i \in DOMAIN finders : Built(r.service).docs \subseteq finders[i].docs,
         r.envelope = "soap12", ~Unjudged(r, via), Judge(r, finders, docs),
         received' = received \cup {<<r, via>>}, files' = files
  PROVE  /\ index'.built => index'.texts = Range(OnDisk)
         /\ Unique(Range(OnDisk)) => Exact'
<1>1. /\ schema' = schema \cup ({r} \X ValidateBody(r.body, finders, Range(OnDisk)))
      /\ index'.built => index'.texts = Range(OnDisk)
  BY JudgeRecords DEF Ready
<1>2. FindersOf(finders, Range(OnDisk))
  BY ClientsCompiled DEF FindersOf
<1>3. Unique(Range(OnDisk)) => Exact'
  BY <1>1, <1>2, ExactStep DEF Ready
<1> QED
  BY <1>1, <1>3

\* So does a response that comes through zeep's plugins.
LEMMA IngressInv ==
  ASSUME DiskInv, RunInv, NEW r \in Response, Ingress(r)
  PROVE  RunInv'
<1>1. DiskOK /\ RunTypes /\ SoundInv /\ AddressingInv
  BY DEF DiskInv, RunInv
<1>2. /\ received' = received \cup {<<r, "zeep">>}
      /\ wsa' = wsa \cup ({r} \X AddressingViolations(r))
      /\ Judge(r, clients, seen.docs)
      /\ UNCHANGED <<files, seen, clients, sound>>
  BY DEF Ingress, Receive, storeVars, disk
<1>3. PICK n \in DOMAIN clients : clients[n].service = r.service
  BY DEF Ingress, Bound
<1>4. RunTypes'
  <2>1. /\ index'.built \in BOOLEAN /\ index'.texts \subseteq Text
        /\ \A v \in schema' : v \in schema \/ (v[1] = r /\ v[2][1] \in Code)
    BY <1>1, <1>2, JudgeType DEF RunTypes
  <2>2. \A v \in schema' : v[1] \in Response /\ v[2][1] \in Code
    BY <1>1, <2>1 DEF RunTypes
  <2>3. received' \subseteq Response \X {"zeep", "raw"}
    BY <1>1, <1>2 DEF RunTypes
  <2> QED
    BY <1>1, <1>2, <2>1, <2>2, <2>3 DEF RunTypes, IsDocuments
<1>5. ASSUME sound'
      PROVE  seen'.loaded /\ Ready(seen.docs)'
  <2>1. sound /\ seen' = seen
    BY <1>2, <1>5
  <2>2. DOMAIN clients # {}
    BY <1>3
  <2>3. seen.loaded /\ Ready(seen.docs)
    BY <1>1, <2>1, <2>2 DEF SoundInv, NotLooked
  <2>4. clients[n] = Built(r.service) /\ \A i \in DOMAIN clients : clients[i].docs \subseteq Range(OnDisk)
    BY <1>3, <2>3 DEF Ready
  <2>5. CASE r.envelope = "soap12"
    <3>1. clients \in Seq(Clients)
      BY <1>1 DEF RunTypes
    <3>2. ~Unjudged(r, "zeep")
      BY <2>5 DEF Unjudged
    <3>3. /\ index'.built => index'.texts = Range(OnDisk)
          /\ Unique(Range(OnDisk)) => Exact'
      BY <1>1, <1>2, <2>3, <2>4, <2>5, <3>1, <3>2, SeenRecords
    <3> QED
      BY <1>2, <2>1, <2>3, <3>3, ReadyStays
  <2>6. CASE r.envelope # "soap12"
    <3>1. UNCHANGED <<index, schema>>
      BY <1>2, <2>6 DEF Judge
    <3>2. Judged' = Judged
      BY <1>2, <2>6, JudgedGrows DEF Unjudged
    <3>3. Unique(Range(OnDisk)) => Exact'
      BY <1>2, <2>3, <3>1, <3>2, ExactStays DEF Ready
    <3>4. index'.built => index'.texts = Range(OnDisk)
      BY <2>3, <3>1 DEF Ready
    <3> QED
      BY <1>2, <2>1, <2>3, <3>3, <3>4, ReadyStays
  <2> QED
    BY <2>5, <2>6
<1>6. AddressingInv'
  <2> DEFINE Got == {q \in Response : <<q, "zeep">> \in received}
             L(q) == {q} \X AddressingViolations(q)
  <2>1. Got' = Got \cup {r}
    BY <1>2
  <2>2. wsa = UNION {L(q) : q \in Got}
    BY <1>1 DEF AddressingInv
  <2>3. wsa' = UNION {L(q) : q \in Got'} => AddressingInv'
    BY DEF AddressingInv
  <2>4. wsa' = wsa \cup L(r)
    BY <1>2
  <2> HIDE DEF Got, L
  <2>5. UNION {L(q) : q \in Got \cup {r}} = (UNION {L(q) : q \in Got}) \cup L(r)
    OBVIOUS
  <2> QED
    BY <2>1, <2>2, <2>3, <2>4, <2>5
<1> QED
  BY <1>4, <1>5, <1>6 DEF RunInv, SoundInv

\* The clients that the raw path makes for itself.
LEMMA RawFinders ==
  ASSUME DiskOK, NEW docs, IsDocuments(docs), NEW r \in Response
  PROVE  /\ Finders(r, docs) \in Seq(Clients)
         /\ DOMAIN docs = DOMAIN OnDisk /\ Whole(OnDisk) =>
              /\ \A i \in DOMAIN Finders(r, docs) : Finders(r, docs)[i].docs \subseteq Range(OnDisk)
              /\ OfItsService(r) =>
                   \E i \in DOMAIN Finders(r, docs) :
                     Built(r.service).docs \subseteq Finders(r, docs)[i].docs
<1> DEFINE s == Client(r.service, docs)
           t == Client(DevMgmt, docs)
<1>1. s \in Seq(Clients) /\ t \in Seq(Clients) /\ Finders(r, docs) = s \o t
  BY ClientType DEF IsDocuments, Finders
<1>2. Finders(r, docs) \in Seq(Clients)
  <2> HIDE DEF s, t
  <2> QED
    BY <1>1, ToSetConcat
<1>3. ASSUME DOMAIN docs = DOMAIN OnDisk, Whole(OnDisk), NEW i \in DOMAIN Finders(r, docs)
      PROVE  Finders(r, docs)[i].docs \subseteq Range(OnDisk)
  <2>1. \A j \in DOMAIN s : s[j].docs \subseteq Range(OnDisk)
    BY <1>3, ClientReads
  <2>2. \A j \in DOMAIN t : t[j].docs \subseteq Range(OnDisk)
    BY <1>3, ClientReads
  <2> HIDE DEF s, t
  <2>3. (\E j \in DOMAIN s : (s \o t)[i] = s[j]) \/ (\E j \in DOMAIN t : (s \o t)[i] = t[j])
    BY <1>1, <1>3, InConcat
  <2> QED
    BY <1>1, <2>1, <2>2, <2>3
<1>4. ASSUME DOMAIN docs = DOMAIN OnDisk, Whole(OnDisk), OfItsService(r)
      PROVE  \E i \in DOMAIN Finders(r, docs) :
               Built(r.service).docs \subseteq Finders(r, docs)[i].docs
  <2>1. r.service \in DOMAIN OnDisk
    BY <1>4, ServiceOnDisk
  <2>2. CanBuild(r.service, docs)
    BY <1>4, <2>1, WholeBuilds DEF OfItsService
  <2>3. s = <<Built(r.service)>>
    BY <2>2 DEF Client
  <2>4. 1 \in DOMAIN s /\ s[1] = Built(r.service)
    BY <2>3
  <2> HIDE DEF s, t
  <2>5. \A j \in DOMAIN s : \E i \in DOMAIN (s \o t) : (s \o t)[i] = s[j]
    BY <1>1, InConcat
  <2>6. PICK i \in DOMAIN (s \o t) : (s \o t)[i] = s[1]
    BY <2>4, <2>5
  <2>7. i \in DOMAIN Finders(r, docs) /\ Finders(r, docs)[i] = Built(r.service)
    BY <1>1, <2>4, <2>6
  <2> QED
    BY <2>7
<1> QED
  BY <1>2, <1>3, <1>4

\* And a response of the raw path: one with nothing to ask, one that finds a broken
\* manifest and says nothing of it, and one that is judged (raw_soap.py:187-220).
LEMMA RawCallInv ==
  ASSUME DiskInv, RunInv, NEW r \in Response, RawCall(r)
  PROVE  RunInv'
<1>1. DiskOK /\ RunTypes /\ SoundInv /\ AddressingInv
  BY DEF DiskInv, RunInv
<1>2. received' = received \cup {<<r, "raw">>} /\ UNCHANGED <<files, manifest, clients, wsa>>
  BY DEF RawCall, Receive, storeVars, disk
<1>3. AddressingInv'
  <2>1. {q \in Response : <<q, "zeep">> \in received'} = {q \in Response : <<q, "zeep">> \in received}
    BY <1>2
  <2> QED
    BY <1>1, <1>2, <2>1 DEF AddressingInv
<1>4. received' \subseteq Response \X {"zeep", "raw"}
  BY <1>1, <1>2 DEF RunTypes
<1>5. CASE ~Asks(r) /\ UNCHANGED <<seen, index, schema, sound>>
  <2>1. RunTypes'
    BY <1>1, <1>2, <1>4, <1>5 DEF RunTypes, IsDocuments
  <2>2. ASSUME sound, seen.loaded
        PROVE  Ready(seen.docs)'
    <3>1. Ready(seen.docs)
      BY <1>1, <2>2 DEF SoundInv
    <3>2. CASE Unjudged(r, "raw")
      <4>1. Judged' = Judged
        BY <1>2, <3>2, JudgedGrows
      <4>2. Unique(Range(OnDisk)) => Exact'
        BY <1>2, <1>5, <3>1, <4>1, ExactStays DEF Ready
      <4>3. index'.built => index'.texts = Range(OnDisk)
        BY <1>5, <3>1 DEF Ready
      <4> QED
        BY <1>2, <1>5, <3>1, <4>2, <4>3, ReadyStays
    <3>3. CASE ~Unjudged(r, "raw")
      <4>1. Roots(r.body) = {} /\ r.envelope = "soap12"
        BY <1>5, <3>3 DEF Unjudged, Asks
      <4>2. index'.built => index'.texts = Range(OnDisk)
        BY <1>5, <3>1 DEF Ready
      <4>3. ASSUME Unique(Range(OnDisk))
            PROVE  Exact'
        <5>1. FindersOf(<<>>, Range(OnDisk)) /\ IsTree(r.body) /\ Range(OnDisk) \subseteq Text
          BY <1>1, ResponseTree, OnDiskType DEF FindersOf
        <5>2. ValidateBody(r.body, <<>>, Range(OnDisk)) = {}
          BY <4>1, ValidateMember
        <5>3. Flaws(r.body, Range(OnDisk)) = {}
          BY <4>1, <4>3, <5>1, <5>2, FlawsAreRecorded
        <5>4. Range(OnDisk)' = Range(OnDisk) /\ \A q : OfItsService(q)' <=> OfItsService(q)
          BY <1>2, SameDisk
        <5>5. Judged' = Judged \cup {r}
          BY <1>2, <3>3, JudgedGrows
        <5>6. Exact
          BY <3>1, <4>3 DEF Ready
        <5>7. schema' \subseteq UNION {{q} \X Flaws(q.body, Range(OnDisk)) : q \in Judged'}
          BY <1>5, <5>5, <5>6 DEF Exact
        <5>8. ASSUME NEW q \in Judged', OfItsService(q)'
              PROVE  {q} \X Flaws(q.body, Range(OnDisk)) \subseteq schema'
          BY <1>5, <5>3, <5>4, <5>5, <5>6, <5>8 DEF Exact
        <5> QED
          BY <5>4, <5>7, <5>8 DEF Exact
      <4> QED
        BY <1>2, <1>5, <3>1, <4>2, <4>3, ReadyStays
    <3> QED
      BY <3>2, <3>3
  <2>3. ASSUME sound, ~seen.loaded
        PROVE  NotLooked'
    <3>1. NotLooked
      BY <1>1, <2>3 DEF SoundInv
    <3>2. Judged' = Judged \/ (Judged' = Judged \cup {r} /\ ~Unjudged(r, "raw"))
      BY <1>2, JudgedGrows
    <3>3. ~Unjudged(r, "raw") => Roots(r.body) = {}
      BY <1>5 DEF Unjudged, Asks
    <3> QED
      BY <1>2, <1>5, <3>1, <3>2, <3>3 DEF NotLooked
  <2> QED
    BY <1>3, <1>5, <2>1, <2>2, <2>3 DEF RunInv, SoundInv
<1>6. CASE Asks(r) /\ ~CanLoad(seen) /\ sound' = FALSE /\ UNCHANGED <<seen, index, schema>>
  <2>1. RunTypes'
    BY <1>1, <1>2, <1>4, <1>6 DEF RunTypes, IsDocuments
  <2> QED
    BY <1>3, <1>6, <2>1 DEF RunInv, SoundInv
<1>7. CASE /\ Asks(r) /\ CanLoad(seen)
           /\ Look
           /\ Judge(r, Finders(r, Loaded(seen).docs), Loaded(seen).docs)
  <2> DEFINE docs == Loaded(seen).docs
             finders == Finders(r, docs)
  <2>1. IsDocuments(docs) /\ seen'.docs = docs /\ sound' \in BOOLEAN
    BY <1>1, <1>7, LoadedType DEF RunTypes, Look
  <2>2. finders \in Seq(Clients)
    BY <1>1, <2>1, RawFinders
  <2>3. RunTypes'
    <3>1. /\ index'.built \in BOOLEAN /\ index'.texts \subseteq Text
          /\ \A v \in schema' : v \in schema \/ (v[1] = r /\ v[2][1] \in Code)
      BY <1>1, <1>7, <2>2, JudgeType DEF RunTypes
    <3>2. \A v \in schema' : v[1] \in Response /\ v[2][1] \in Code
      BY <1>1, <3>1 DEF RunTypes
    <3> HIDE DEF docs
    <3> QED
      BY <1>1, <1>2, <1>4, <2>1, <3>1, <3>2 DEF RunTypes, IsDocuments
  <2>4. ASSUME sound'
        PROVE  seen'.loaded /\ Ready(seen.docs)'
    <3>1. seen'.loaded /\ Ready(docs)
      BY <1>1, <1>7, <2>4, LookReady
    <3>2. r.envelope = "soap12" /\ ~Unjudged(r, "raw")
      BY <1>7 DEF Asks, Unjudged
    <3>3. /\ \A i \in DOMAIN finders : finders[i].docs \subseteq Range(OnDisk)
          /\ OfItsService(r) =>
               \E i \in DOMAIN finders : Built(r.service).docs \subseteq finders[i].docs
      BY <1>1, <2>1, <3>1, RawFinders DEF Ready
    <3>4. Judge(r, finders, docs)
      BY <1>7
    <3> HIDE DEF finders, docs
    <3>5. /\ index'.built => index'.texts = Range(OnDisk)
          /\ Unique(Range(OnDisk)) => Exact'
      BY <1>1, <1>2, <2>2, <3>1, <3>2, <3>3, <3>4, SeenRecords
    <3> QED
      BY <1>2, <2>1, <3>1, <3>5, ReadyStays
  <2> QED
    BY <1>3, <2>3, <2>4 DEF RunInv, SoundInv
<1> QED
  BY <1>5, <1>6, <1>7 DEF RawCall

\* And what others do to the store, while the run stays as it is.
LEMMA SameRun ==
  ASSUME RunInv, UNCHANGED <<seen, clients, index, schema, wsa, received>>,
         sound' \in BOOLEAN, sound' => sound /\ (seen.loaded => files' = files)
  PROVE  RunInv'
<1>1. RunTypes' /\ AddressingInv'
  BY DEF RunInv, RunTypes, AddressingInv, IsDocuments
<1>2. Judged' = Judged
  BY DEF Judged
<1>3. ASSUME sound', seen.loaded
      PROVE  Ready(seen.docs)'
  <2>1. Ready(seen.docs) /\ files' = files
    BY <1>3 DEF RunInv, SoundInv
  <2>2. Unique(Range(OnDisk)) => Exact'
    BY <1>2, <2>1, ExactStays DEF Ready
  <2>3. index'.built => index'.texts = Range(OnDisk)
    BY <2>1 DEF Ready
  <2> QED
    BY <2>1, <2>2, <2>3, ReadyStays
<1>4. ASSUME sound', ~seen.loaded
      PROVE  NotLooked'
  BY <1>2, <1>4 DEF RunInv, SoundInv, NotLooked
<1> QED
  BY <1>1, <1>3, <1>4 DEF RunInv, SoundInv

\* A run starts so.
LEMMA RunInitInv == RunInit => RunInv
<1> SUFFICES ASSUME RunInit PROVE RunInv
  OBVIOUS
<1>1. /\ seen = NotLoaded /\ clients = <<>> /\ index = NoIndex
      /\ schema = {} /\ wsa = {} /\ received = {} /\ sound = TRUE
  BY DEF RunInit
<1>2. RunTypes
  BY <1>1 DEF RunTypes, NotLoaded, NoDocuments, IsDocuments, NoIndex
<1>3. Judged = {}
  BY <1>1 DEF Judged
<1>4. SoundInv
  BY <1>1, <1>3 DEF SoundInv, NotLooked, NotLoaded, NoIndex
<1>5. AddressingInv
  BY <1>1 DEF AddressingInv
<1> QED
  BY <1>2, <1>4, <1>5 DEF RunInv

\* Every step of the run or of the store keeps it.
LEMMA RunNextInv ==
  StoreInv /\ RunInv /\ [Next]_vars => RunInv'
<1> SUFFICES ASSUME StoreInv, RunInv, [Next]_vars PROVE RunInv'
  OBVIOUS
<1>1. DiskInv
  BY DEF StoreInv
<1>2. CASE StoreStep
  <2>1. sound' \in BOOLEAN /\ (sound' => sound /\ (seen.loaded => files' = files))
    BY <1>2 DEF StoreStep, disk
  <2> QED
    BY <1>2, <2>1, SameRun DEF StoreStep
<1>3. ASSUME NEW i \in DOMAIN Seeds, Bind(Seeds[i].key)
      PROVE  RunInv'
  BY <1>1, <1>3, BindInv
<1>4. ASSUME NEW r \in Response, Ingress(r)
      PROVE  RunInv'
  BY <1>1, <1>4, IngressInv
<1>5. ASSUME NEW r \in Response, RawCall(r)
      PROVE  RunInv'
  BY <1>1, <1>5, RawCallInv
<1>6. CASE UNCHANGED vars
  <2>1. UNCHANGED <<seen, clients, index, schema, wsa, received, sound, files>>
    BY <1>6 DEF vars, runVars, storeVars, disk
  <2>2. sound' \in BOOLEAN
    BY <2>1 DEF RunInv, RunTypes
  <2> QED
    BY <2>1, <2>2, SameRun
<1> QED
  BY <1>2, <1>3, <1>4, <1>5, <1>6 DEF Next, Terminated

\* The addressing of a response has nothing wrong with it just when none of the
\* validator's rules is broken: a SOAP 1.2 envelope, an Action that is one of a
\* response or a Fault, and in a Fault a Code and a Reason that are whole.
LEMMA FlawlessRecordsNothing ==
  ASSUME NEW r \in Response
  PROVE  Flawless(r) <=> AddressingViolations(r) = {}
<1> DEFINE Looked == {g \in r.fault : ActionOf(r) = "fault" /\ r.envelope = "soap12"}
<1>1. /\ r.action \in {"none", "request", "response", "fault"}
      /\ \A f \in r.fault : f.code \in {"whole", "hollow", "absent"}
                            /\ f.reason \in {"whole", "hollow", "absent"}
  BY ResponseChecksAssumption
<1>2. AddressingViolations(r) = {} <=>
        /\ r.envelope # "soap11"
        /\ r.envelope \in {"soap11", "soap12"}
        /\ ActionOf(r) \notin {"none", "request"}
        /\ \A f \in Looked : FaultStructure(f) = {}
  <2> DEFINE A == {v \in {"soap11-envelope"} : r.envelope = "soap11"}
             B == {v \in {"non-soap12-envelope"} : r.envelope \notin {"soap11", "soap12"}}
             C == {v \in {"missing-action"} : ActionOf(r) = "none"}
             D == {v \in {"wrong-action-suffix"} : ActionOf(r) = "request"}
             F == UNION {FaultStructure(f) : f \in Looked}
  <2>1. /\ A = {} <=> r.envelope # "soap11"
        /\ B = {} <=> r.envelope \in {"soap11", "soap12"}
        /\ C = {} <=> ActionOf(r) # "none"
        /\ D = {} <=> ActionOf(r) # "request"
    OBVIOUS
  <2>2. F = {} <=> \A f \in Looked : FaultStructure(f) = {}
    <3> HIDE DEF Looked
    <3> QED
      OBVIOUS
  <2>3. AddressingViolations(r) = A \cup B \cup C \cup D \cup F
    BY DEF AddressingViolations
  <2> HIDE DEF A, B, C, D, F, Looked
  <2>4. AddressingViolations(r) = {} <=> A = {} /\ B = {} /\ C = {} /\ D = {} /\ F = {}
    BY <2>3
  <2> QED
    BY <2>1, <2>2, <2>4
<1>3. ASSUME NEW f \in r.fault
      PROVE  FaultStructure(f) = {} <=> f.code = "whole" /\ f.reason = "whole"
  <2>1. FaultStructure(f) = {} <=>
          f.code # "absent" /\ f.code # "hollow" /\ f.reason # "absent" /\ f.reason # "hollow"
    BY DEF FaultStructure
  <2> QED
    BY <1>1, <2>1
<1>4. CASE r.envelope = "soap12"
  <2>1. ActionOf(r) = r.action
    BY <1>4 DEF ActionOf
  <2>2. r.action = "fault" => Looked = r.fault
    BY <1>4, <2>1
  <2>3. r.action # "fault" => Looked = {}
    BY <2>1
  <2> HIDE DEF Looked
  <2> QED
    BY <1>1, <1>2, <1>3, <1>4, <2>1, <2>2, <2>3 DEF Flawless
<1>5. CASE r.envelope # "soap12"
  BY <1>2, <1>5 DEF Flawless
<1> QED
  BY <1>4, <1>5

\* So nothing is recorded of its addressing just if there is nothing.
LEMMA AddressingIsExact ==
  ASSUME AddressingInv, NEW r \in Response, <<r, "zeep">> \in received
  PROVE  Flawless(r) <=> \A v \in wsa : v[1] # r
<1> DEFINE L(q) == {q} \X AddressingViolations(q)
           Got == {q \in Response : <<q, "zeep">> \in received}
<1>1. wsa = UNION {L(q) : q \in Got} /\ r \in Got
  BY DEF AddressingInv
<1>2. \A q : \A v \in L(q) : v[1] = q
  OBVIOUS
<1>3. (\E v \in L(r) : TRUE) <=> (\E x \in AddressingViolations(r) : TRUE)
  <2>1. \A x \in AddressingViolations(r) : <<r, x>> \in L(r)
    OBVIOUS
  <2>2. \A v \in L(r) : v[2] \in AddressingViolations(r)
    OBVIOUS
  <2> QED
    BY <2>1, <2>2
<1>4. AddressingViolations(r) = {} <=> ~ \E x \in AddressingViolations(r) : TRUE
  OBVIOUS
<1> HIDE DEF L, Got
<1>5. (\A v \in wsa : v[1] # r) <=> ~ \E v \in L(r) : TRUE
  BY <1>1, <1>2
<1> QED
  BY <1>3, <1>4, <1>5, FlawlessRecordsNothing

------------------------------------------------------------------------------
\* A run does nothing to the store: what it does, the store makes of as nothing,
\* and it leaves the others' refreshes their turns.
THEOREM StoreUndisturbed == Spec => StoreSpec
<1>1. RunInit => Init
  BY DEF RunInit
<1>2. [Next]_vars => [StoreNext]_storeVars
  <2> SUFFICES ASSUME [Next]_vars PROVE StoreNext \/ UNCHANGED storeVars
    OBVIOUS
  <2>1. CASE StoreStep
    BY <2>1 DEF StoreStep
  <2>2. ASSUME NEW i \in DOMAIN Seeds, Bind(Seeds[i].key)
        PROVE  UNCHANGED storeVars
    BY <2>2 DEF Bind
  <2>3. ASSUME NEW r \in Response, Ingress(r) \/ RawCall(r)
        PROVE  UNCHANGED storeVars
    BY <2>3 DEF Ingress, RawCall
  <2>4. CASE UNCHANGED vars
    BY <2>4 DEF vars
  <2> QED
    BY <2>1, <2>2, <2>3, <2>4 DEF Next, Terminated
<1> QED
  BY <1>1, <1>2, PTL DEF Spec, StoreSpec

\* The store that a run goes by is in order as far as SchemaStore is.
THEOREM StoreStays == Spec => []StoreInv
  BY StoreUndisturbed, StoreInvariant, PTL

\* In every reachable state the run's clients are compiled, and until it has
\* looked at an unsound store, or someone touched the one it looked at, its sink
\* and its index are what the documents on disk make them.
THEOREM RunInvariant == Spec => []RunInv
  BY StoreStays, RunInitInv, RunNextInv, PTL DEF Spec

\* The state has its types: clients hold documents' contents, what is recorded is
\* of a response and of one of the validator's kinds.
THEOREM ResponsesTypeCorrect == Spec => []TypeOK
<1>1. StoreSpec => []StoreTypeOK
  BY StoreTypeCorrect
<1>2. RunInv => RunOK
  <2> SUFFICES ASSUME RunInv PROVE RunOK
    OBVIOUS
  <2>1. RunTypes /\ AddressingInv
    BY DEF RunInv
  <2>2. \A i \in DOMAIN clients : clients[i].docs \subseteq Text
    <3>1. \A i \in DOMAIN clients : clients[i] \in Clients
      BY <2>1, ClientsCompiled DEF RunTypes
    <3>2. \A c \in Clients : c.docs \subseteq Text
      BY DEF Clients
    <3> QED
      BY <3>1, <3>2
  <2>3. \A v \in wsa : v[1] \in Response
    <3> DEFINE L(q) == {q} \X AddressingViolations(q)
    <3>1. wsa = UNION {L(q) : q \in {r \in Response : <<r, "zeep">> \in received}}
      BY <2>1 DEF AddressingInv
    <3>2. \A q : \A v \in L(q) : v[1] = q
      OBVIOUS
    <3> DEFINE Got == {q \in Response : <<q, "zeep">> \in received}
    <3>3. wsa = UNION {L(q) : q \in Got} /\ Got \subseteq Response
      BY <3>1
    <3> HIDE DEF L, Got
    <3> QED
      BY <3>2, <3>3
  <2> QED
    BY <2>1, <2>2, <2>3 DEF RunTypes, RunOK
<1>3. StoreTypeOK /\ RunOK => TypeOK
  BY DEF TypeOK
<1> QED
  BY <1>1, <1>2, <1>3, StoreUndisturbed, RunInvariant, PTL

\* On a verified store that is left alone, a run records of what it got what is
\* wrong by the vendored documents and, of the service's own responses, all of
\* it; and of their addressing whatever is wrong.
THEOREM SinkExact == Spec => []SinkIsExact
<1>1. StoreInv /\ RunInv => SinkIsExact
  <2> SUFFICES ASSUME StoreInv, RunInv PROVE SinkIsExact
    OBVIOUS
  <2>1. DiskOK /\ SoundInv /\ AddressingInv
    BY DEF StoreInv, DiskInv, RunInv
  <2>2. ASSUME sound, Unique(Range(OnDisk))
        PROVE  Exact
    <3>1. CASE seen.loaded
      BY <2>1, <2>2, <3>1 DEF SoundInv, Ready
    <3>2. CASE ~seen.loaded
      BY <2>1, <2>2, <3>2, NothingIsExact DEF SoundInv, NotLooked
    <3> QED
      BY <3>1, <3>2
  <2>3. \A r \in Response : <<r, "zeep">> \in received =>
          (Flawless(r) <=> \A v \in wsa : v[1] # r)
    BY <2>1, AddressingIsExact
  <2> QED
    BY <2>2, <2>3 DEF SinkIsExact, Exact
<1> QED
  BY <1>1, StoreStays, RunInvariant, PTL
==============================================================================
