----------------------------- MODULE MountProofs ----------------------------
(***************************************************************************)
(* What holds of Mount for every server, repository, naming and bound: its *)
(* types and the shape of the tree, that the listing of a server misses    *)
(* nothing that stays, that the listing of a directory is whole, that      *)
(* /public has what was listed and nothing else, that a cloned repository  *)
(* is shown, once, and that the user's directories and files are what      *)
(* DriveService promises.                                                  *)
(*                                                                         *)
(* The tree is what recursive functions of Tree compute, one entry after   *)
(* another; each such function is unfolded by a lemma of Induction, and    *)
(* what one Add keeps is then kept by any number of them.                  *)
(***************************************************************************)
EXTENDS Mount, Induction, SequenceTheorems, TLAPS

-----------------------------------------------------------------------------
(* Types.                                                                  *)

Contents == Blobs \union {Static, Local, None}

Nodes == [kind : {"dir", "file"}, name : AllNames, parent : Nat,
          children : Seq(Nat), lazy : BOOLEAN, content : Contents]

Trees == {t \in Seq(Nodes) : TreeShape(t)}

\* What the add_ functions are given: a node that has no children yet.
Fresh == {x \in Nodes : x.children = <<>> /\ (x.kind = "file" => ~x.lazy)}

Tags == [tag : {"folder", "x"}, path : Seq(AllNames) \ {<<>>}, content : Contents]

\* Names that sanitising leaves as they are.
Pure == {n \in AllNames : San[n] = n}

\* u has what t has, and the directories of t may list nodes that t has not, whose
\* names are sanitised.
Grows(t, u) ==
  /\ Len(t) <= Len(u)
  /\ \A i \in Len(t) + 1 .. Len(u) : u[i].name \in Pure
  /\ \A i \in 1 .. Len(t) :
       /\ u[i].kind = t[i].kind /\ u[i].name = t[i].name
       /\ u[i].parent = t[i].parent /\ u[i].lazy = t[i].lazy
       /\ u[i].content = t[i].content
       /\ Len(t[i].children) <= Len(u[i].children)
       /\ \A k \in 1 .. Len(t[i].children) : u[i].children[k] = t[i].children[k]
       /\ \A k \in Len(t[i].children) + 1 .. Len(u[i].children) : u[i].children[k] > Len(t)

-----------------------------------------------------------------------------
(* Trees and what is added to them.                                        *)

\* What a tree is made of.
LEMMA TreeParts ==
  ASSUME NEW t \in Trees
  PROVE  /\ t \in Seq(Nodes) /\ Len(t) \in Nat /\ DOMAIN t = 1 .. Len(t)
         /\ \A i \in 1 .. Len(t) :
              /\ t[i] \in Nodes
              /\ t[i].kind \in {"dir", "file"} /\ t[i].name \in AllNames
              /\ t[i].parent \in Nat /\ t[i].parent < i
              /\ t[i].children \in Seq(Nat) /\ t[i].lazy \in BOOLEAN
              /\ t[i].content \in Contents
              /\ Len(t[i].children) \in Nat
              /\ DOMAIN t[i].children = 1 .. Len(t[i].children)
              /\ t[i].kind = "file" => t[i].children = <<>> /\ ~t[i].lazy
              /\ IsInjective(t[i].children)
              /\ \A k \in 1 .. Len(t[i].children) :
                   /\ t[i].children[k] \in 1 .. Len(t)
                   /\ t[t[i].children[k]].parent = i
<1>1. t \in Seq(Nodes) /\ TreeShape(t)
  BY DEF Trees
<1>2. Len(t) \in Nat /\ DOMAIN t = 1 .. Len(t) /\ \A i \in 1 .. Len(t) : t[i] \in Nodes
  BY <1>1
<1>3. ASSUME NEW i \in 1 .. Len(t)
      PROVE  /\ t[i].kind \in {"dir", "file"} /\ t[i].name \in AllNames
             /\ t[i].parent \in Nat /\ t[i].children \in Seq(Nat)
             /\ t[i].lazy \in BOOLEAN /\ t[i].content \in Contents
  BY <1>2 DEF Nodes
<1>4. ASSUME NEW i \in 1 .. Len(t)
      PROVE  /\ Len(t[i].children) \in Nat
             /\ DOMAIN t[i].children = 1 .. Len(t[i].children)
  BY <1>3
<1>5. ASSUME NEW i \in 1 .. Len(t), NEW k \in 1 .. Len(t[i].children)
      PROVE  t[i].children[k] \in 1 .. Len(t) /\ t[t[i].children[k]].parent = i
  <2>1. t[i].children[k] \in Range(t[i].children)
    BY <1>4 DEF Range
  <2>2. QED  BY <1>1, <1>2, <2>1 DEF TreeShape
<1>6. ASSUME NEW i \in 1 .. Len(t)
      PROVE  /\ t[i].parent < i
             /\ t[i].kind = "file" => t[i].children = <<>> /\ ~t[i].lazy
             /\ IsInjective(t[i].children)
  BY <1>1, <1>2 DEF TreeShape
<1>7. QED  BY <1>1, <1>2, <1>3, <1>4, <1>5, <1>6

\* A sequence of nodes that has the shape is a tree.
LEMMA TreeIs ==
  ASSUME NEW t \in Seq(Nodes),
         \A i \in 1 .. Len(t) :
           /\ t[i].parent < i
           /\ t[i].kind = "file" => t[i].children = <<>> /\ ~t[i].lazy
           /\ IsInjective(t[i].children)
           /\ \A k \in 1 .. Len(t[i].children) :
                /\ t[i].children[k] \in 1 .. Len(t)
                /\ t[t[i].children[k]].parent = i
  PROVE  t \in Trees
<1>1. DOMAIN t = 1 .. Len(t)
  OBVIOUS
<1>2. ASSUME NEW i \in 1 .. Len(t), NEW c \in Range(t[i].children)
      PROVE  c \in 1 .. Len(t) /\ t[c].parent = i
  <2>1. t[i] \in Nodes
    OBVIOUS
  <2>2. t[i].children \in Seq(Nat)
    BY <2>1 DEF Nodes
  <2>3. PICK k \in 1 .. Len(t[i].children) : c = t[i].children[k]
    BY <2>2 DEF Range
  <2>4. QED  BY <2>3
<1>3. TreeShape(t)
  BY <1>1, <1>2 DEF TreeShape
<1>4. QED  BY <1>3 DEF Trees

\* Adding makes one node, the last, that its directory lists last.
LEMMA AddIs ==
  ASSUME NEW t \in Trees, NEW x \in Fresh
  PROVE  LET u == Add(t, x) IN
         /\ u \in Seq(Nodes) /\ Len(u) = Len(t) + 1
         /\ /\ u[Len(u)].kind = x.kind /\ u[Len(u)].name = San[x.name]
            /\ u[Len(u)].parent = x.parent /\ u[Len(u)].children = <<>>
            /\ u[Len(u)].lazy = x.lazy /\ u[Len(u)].content = x.content
         /\ \A i \in 1 .. Len(t) :
              /\ u[i].kind = t[i].kind /\ u[i].name = t[i].name
              /\ u[i].parent = t[i].parent /\ u[i].lazy = t[i].lazy
              /\ u[i].content = t[i].content
              /\ u[i].children = IF i = x.parent /\ t[i].kind = "dir"
                                 THEN Append(t[i].children, Len(u)) ELSE t[i].children
<1> DEFINE y == [x EXCEPT !.name = San[@]]
           more == Append(t, y)
           p == x.parent
<1>1. t \in Seq(Nodes) /\ Len(t) \in Nat /\ DOMAIN t = 1 .. Len(t)
      /\ \A i \in 1 .. Len(t) : t[i] \in Nodes /\ t[i].children \in Seq(Nat)
  BY TreeParts
<1>2. x \in Nodes /\ x.children = <<>>
  BY DEF Fresh
<1>3. San[x.name] \in AllNames
  BY <1>2, NameAssumption DEF Nodes
<1>4. /\ y \in Nodes /\ y.kind = x.kind /\ y.name = San[x.name] /\ y.parent = p
      /\ y.children = <<>> /\ y.lazy = x.lazy /\ y.content = x.content
  BY <1>2, <1>3 DEF Nodes
<1> HIDE DEF y
<1>5. /\ more \in Seq(Nodes) /\ Len(more) = Len(t) + 1 /\ more[Len(t) + 1] = y
      /\ \A i \in 1 .. Len(t) : more[i] = t[i]
  BY <1>1, <1>4
<1>6. CASE ~IsDir(t, p)
  <2>1. Add(t, x) = more
    BY <1>6 DEF Add, y
  <2>2. \A i \in 1 .. Len(t) : ~(i = p /\ t[i].kind = "dir")
    BY <1>1, <1>6 DEF IsDir
  <2> HIDE DEF more, p
  <2>3. Len(t) + 1 \in 1 .. Len(t) + 1 /\ Len(t) + 1 \notin 1 .. Len(t)
    BY <1>1
  <2>4. QED  BY <1>4, <1>5, <2>1, <2>2, <2>3 DEF p
<1>7. CASE IsDir(t, p)
  <2> DEFINE u == [more EXCEPT ![p].children = Append(@, Len(more))]
  <2>1. Add(t, x) = u
    BY <1>7 DEF Add, y
  <2>2. p \in 1 .. Len(t) /\ t[p].kind = "dir"
    BY <1>1, <1>7 DEF IsDir
  <2> HIDE DEF more, p
  <2> DEFINE z == [more[p] EXCEPT !.children = Append(@, Len(more))]
  <2>3. more[p] \in Nodes /\ more[p] = t[p] /\ Len(more) \in Nat
    BY <1>1, <1>5, <2>2
  <2>4. /\ z \in Nodes /\ z.kind = t[p].kind /\ z.name = t[p].name
        /\ z.parent = t[p].parent /\ z.lazy = t[p].lazy /\ z.content = t[p].content
        /\ z.children = Append(t[p].children, Len(more))
    <3> DEFINE w == Append(t[p].children, Len(more))
    <3>1. t[p] \in Nodes /\ t[p].children \in Seq(Nat)
      BY <1>1, <2>2
    <3>2. w \in Seq(Nat)
      BY <2>3, <3>1
    <3>3. z = [t[p] EXCEPT !.children = w]
      BY <2>3
    <3> HIDE DEF w, z
    <3>4. /\ z \in Nodes /\ z.kind = t[p].kind /\ z.name = t[p].name
          /\ z.parent = t[p].parent /\ z.lazy = t[p].lazy /\ z.content = t[p].content
          /\ z.children = w
      BY <3>1, <3>2, <3>3 DEF Nodes
    <3>5. QED  BY <3>4 DEF w
  <2>5. u = [more EXCEPT ![p] = z]
    OBVIOUS
  <2> HIDE DEF z, u
  <2>6. /\ u \in Seq(Nodes) /\ Len(u) = Len(more) /\ u[p] = z
        /\ \A i \in 1 .. Len(more) : i # p => u[i] = more[i]
    BY <1>5, <2>2, <2>4, <2>5
  <2>7. Len(more) \in 1 .. Len(more) /\ Len(more) # p
    BY <1>1, <1>5, <2>2
  <2>8. u[Len(u)] = y
    BY <1>5, <2>6, <2>7
  <2>9. \A i \in 1 .. Len(t) : i \in 1 .. Len(more)
    BY <1>1, <1>5
  <2>10. \A i \in 1 .. Len(t) : i # p => u[i] = t[i]
    BY <1>5, <2>6, <2>9
  <2>11. QED  BY <1>4, <1>5, <2>1, <2>2, <2>4, <2>6, <2>8, <2>10 DEF p
<1>8. QED  BY <1>6, <1>7

\* Every tree grows from itself, and from what one of its ancestors grew from.
LEMMA GrowsOn ==
  ASSUME NEW t \in Trees, NEW u \in Trees, NEW v \in Trees, Grows(t, u), Grows(u, v)
  PROVE  Grows(t, t) /\ Grows(t, v)
<1>1. Len(t) \in Nat /\ Len(u) \in Nat /\ Len(v) \in Nat
  BY TreeParts
<1>2. Len(t) <= Len(u) /\ Len(u) <= Len(v)
  BY DEF Grows
<1>3. Len(t) <= Len(v) /\ \A i \in 1 .. Len(t) : i \in 1 .. Len(u) /\ i \in 1 .. Len(v)
  BY <1>1, <1>2
<1>4. ASSUME NEW i \in 1 .. Len(t)
      PROVE  /\ v[i].kind = t[i].kind /\ v[i].name = t[i].name
             /\ v[i].parent = t[i].parent /\ v[i].lazy = t[i].lazy
             /\ v[i].content = t[i].content
  BY <1>3 DEF Grows
<1>5. ASSUME NEW i \in 1 .. Len(t)
      PROVE  /\ Len(t[i].children) <= Len(v[i].children)
             /\ \A k \in 1 .. Len(t[i].children) : v[i].children[k] = t[i].children[k]
             /\ \A k \in Len(t[i].children) + 1 .. Len(v[i].children) :
                  v[i].children[k] > Len(t)
  <2> DEFINE a == Len(t[i].children)  b == Len(u[i].children)  c == Len(v[i].children)
  <2>1. a \in Nat /\ b \in Nat /\ c \in Nat
    BY <1>3, TreeParts
  <2>2. a <= b /\ b <= c
    BY <1>3 DEF Grows
  <2>3. /\ \A k \in 1 .. a : u[i].children[k] = t[i].children[k]
        /\ \A k \in a + 1 .. b : u[i].children[k] > Len(t)
    BY DEF Grows
  <2>4. /\ \A k \in 1 .. b : v[i].children[k] = u[i].children[k]
        /\ \A k \in b + 1 .. c : v[i].children[k] > Len(u)
    BY <1>3 DEF Grows
  <2>5. \A k \in 1 .. c : v[i].children[k] \in Nat
    BY <1>3, TreeParts
  <2> HIDE DEF a, b, c
  <2>6. \A k \in 1 .. a : k \in 1 .. b
    BY <2>1, <2>2
  <2>7. \A k \in 1 .. a : v[i].children[k] = t[i].children[k]
    BY <2>3, <2>4, <2>6
  <2>8. ASSUME NEW k \in a + 1 .. c
        PROVE  v[i].children[k] > Len(t)
    <3>1. CASE k \in 1 .. b
      BY <2>1, <2>3, <2>4, <3>1
    <3>2. CASE k \in b + 1 .. c
      <4>1. v[i].children[k] > Len(u) /\ v[i].children[k] \in Nat
        BY <2>1, <2>4, <2>5, <3>2
      <4>2. QED  BY <1>1, <1>2, <4>1
    <3>3. QED  BY <2>1, <2>2, <3>1, <3>2
  <2>9. QED  BY <2>1, <2>2, <2>7, <2>8 DEF a, b, c
<1>6. ASSUME NEW i \in Len(t) + 1 .. Len(v)
      PROVE  v[i].name \in Pure
  <2>1. CASE i \in 1 .. Len(u)
    <3>1. i \in Len(t) + 1 .. Len(u)
      BY <1>1, <2>1
    <3>2. v[i].name = u[i].name /\ u[i].name \in Pure
      BY <2>1, <3>1 DEF Grows
    <3>3. QED  BY <3>2
  <2>2. CASE i \in Len(u) + 1 .. Len(v)
    BY <2>2 DEF Grows
  <2>3. QED  BY <1>1, <1>2, <2>1, <2>2
<1>7. Grows(t, v)
  BY <1>3, <1>4, <1>5, <1>6 DEF Grows
<1>8. Grows(t, t)
  <2>1. \A i \in 1 .. Len(t) : Len(t[i].children) \in Nat
    BY TreeParts
  <2>2. QED  BY <1>1, <2>1 DEF Grows
<1>9. QED  BY <1>7, <1>8

\* Every tree grows from itself.
LEMMA GrowsSelf ==
  ASSUME NEW t \in Trees
  PROVE  Grows(t, t)
<1>1. Len(t) \in Nat /\ \A i \in 1 .. Len(t) : Len(t[i].children) \in Nat
  BY TreeParts
<1>2. QED  BY <1>1 DEF Grows

\* A node added below one of its ancestors makes a tree.
LEMMA AddGrows ==
  ASSUME NEW t \in Trees, NEW x \in Fresh, x.parent <= Len(t)
  PROVE  Add(t, x) \in Trees /\ Grows(t, Add(t, x)) /\ Len(Add(t, x)) = Len(t) + 1
<1> DEFINE u == Add(t, x)  n == Len(t)
<1>1. /\ u \in Seq(Nodes) /\ Len(u) = n + 1
      /\ /\ u[Len(u)].kind = x.kind /\ u[Len(u)].name = San[x.name]
         /\ u[Len(u)].parent = x.parent /\ u[Len(u)].children = <<>>
         /\ u[Len(u)].lazy = x.lazy /\ u[Len(u)].content = x.content
      /\ \A i \in 1 .. n :
           /\ u[i].kind = t[i].kind /\ u[i].name = t[i].name
           /\ u[i].parent = t[i].parent /\ u[i].lazy = t[i].lazy
           /\ u[i].content = t[i].content
           /\ u[i].children = IF i = x.parent /\ t[i].kind = "dir"
                              THEN Append(t[i].children, Len(u)) ELSE t[i].children
  BY AddIs
<1>2. n \in Nat /\ \A i \in 1 .. n : /\ t[i].children \in Seq(Nat)
                                    /\ Len(t[i].children) \in Nat
  BY TreeParts
<1> HIDE DEF u, n
<1>3. \A i \in 1 .. Len(u) : i = n + 1 \/ i \in 1 .. n
  BY <1>1, <1>2
<1>4. x.parent \in Nat /\ (x.kind = "file" => ~x.lazy)
  BY DEF Fresh, Nodes
<1>5. ASSUME NEW i \in 1 .. n
      PROVE  /\ Len(t[i].children) <= Len(u[i].children)
             /\ \A k \in 1 .. Len(t[i].children) : u[i].children[k] = t[i].children[k]
             /\ \A k \in Len(t[i].children) + 1 .. Len(u[i].children) :
                  /\ u[i].children[k] = n + 1 /\ k = Len(t[i].children) + 1
                  /\ k = Len(u[i].children) /\ i = x.parent
  <2>1. CASE i = x.parent /\ t[i].kind = "dir"
    <3> DEFINE s == t[i].children
               m == Len(s)
    <3>1. u[i].children = Append(s, n + 1) /\ s \in Seq(Nat) /\ m \in Nat
      BY <1>1, <1>2, <2>1
    <3> HIDE DEF s
    <3>2. /\ Len(Append(s, n + 1)) = m + 1 /\ Append(s, n + 1)[m + 1] = n + 1
          /\ \A k \in 1 .. m : Append(s, n + 1)[k] = s[k]
      BY <3>1
    <3> HIDE DEF m
    <3>3. /\ Len(u[i].children) = m + 1 /\ u[i].children[m + 1] = n + 1
          /\ \A k \in 1 .. m : u[i].children[k] = s[k]
      BY <3>1, <3>2
    <3>4. \A k \in m + 1 .. m + 1 : k = m + 1
      BY <3>1
    <3>5. m <= m + 1
      BY <3>1
    <3>6. QED  BY <2>1, <3>3, <3>4, <3>5 DEF m, s
  <2>2. CASE ~(i = x.parent /\ t[i].kind = "dir")
    <3>1. u[i].children = t[i].children
      BY <1>1, <2>2
    <3>2. QED  BY <1>2, <3>1
  <2>3. QED  BY <2>1, <2>2
<1>6. ASSUME NEW i \in 1 .. n
      PROVE  /\ u[i].parent < i
             /\ u[i].kind = "file" => u[i].children = <<>> /\ ~u[i].lazy
  <2>1. u[i].kind = "file" => u[i].children = t[i].children
    BY <1>1
  <2>2. QED  BY <1>1, <2>1, TreeParts DEF n
<1>7. ASSUME NEW i \in 1 .. n, NEW k \in 1 .. Len(u[i].children)
      PROVE  /\ u[i].children[k] \in 1 .. Len(u)
             /\ u[u[i].children[k]].parent = i
             /\ k \in 1 .. Len(t[i].children) => u[i].children[k] \in 1 .. n
  <2>1. CASE k \in 1 .. Len(t[i].children)
    <3>1. u[i].children[k] = t[i].children[k]
      BY <1>5, <2>1
    <3>2. t[i].children[k] \in 1 .. n /\ t[t[i].children[k]].parent = i
      BY <2>1, TreeParts DEF n
    <3> DEFINE c == t[i].children[k]
    <3> HIDE DEF c
    <3>3. u[c].parent = i /\ c \in 1 .. Len(u)
      <4>1. c \in 1 .. n /\ t[c].parent = i
        BY <3>2 DEF c
      <4>2. u[c].parent = t[c].parent
        BY <1>1, <4>1
      <4>3. 1 .. n \subseteq 1 .. Len(u)
        BY <1>1, <1>2
      <4>4. QED  BY <4>1, <4>2, <4>3
    <3>4. QED  BY <3>1, <3>2, <3>3 DEF c
  <2>2. CASE k \notin 1 .. Len(t[i].children)
    <3>1. k \in Len(t[i].children) + 1 .. Len(u[i].children)
      BY <1>2, <1>5, <2>2
    <3>2. u[i].children[k] = n + 1 /\ i = x.parent
      BY <1>5, <3>1
    <3>3. QED  BY <1>1, <1>2, <2>2, <3>2
  <2>3. QED  BY <2>1, <2>2
<1>8. ASSUME NEW i \in 1 .. n
      PROVE  IsInjective(u[i].children)
  <2>1. DOMAIN u[i].children = 1 .. Len(u[i].children) /\ Len(u[i].children) \in Nat
    <3>1. u[i] \in Nodes
      BY <1>1, <1>2
    <3>2. QED  BY <3>1 DEF Nodes
  <2>2. ASSUME NEW k \in 1 .. Len(u[i].children), NEW l \in 1 .. Len(u[i].children),
               u[i].children[k] = u[i].children[l]
        PROVE  k = l
    <3> DEFINE a == Len(t[i].children)  b == Len(u[i].children)
    <3>1. a \in Nat /\ b \in Nat
      BY <1>2, <2>1
    <3>2. \A j \in 1 .. b : j \in 1 .. a \/ j \in a + 1 .. b
      BY <3>1
    <3>3. \A j \in a + 1 .. b : u[i].children[j] = n + 1 /\ j = b
      BY <1>5
    <3>4. \A j \in 1 .. a : u[i].children[j] = t[i].children[j]
      BY <1>5
    <3>5. \A j \in 1 .. a : t[i].children[j] \in 1 .. n
      BY TreeParts DEF n
    <3>6. \A j, m \in 1 .. a : t[i].children[j] = t[i].children[m] => j = m
      <4>1. IsInjective(t[i].children)
        BY TreeParts DEF n
      <4>2. DOMAIN t[i].children = 1 .. a
        BY TreeParts DEF n
      <4> HIDE DEF a
      <4>3. QED  BY <4>1, <4>2 DEF IsInjective
    <3> HIDE DEF a, b
    <3>7. k \in 1 .. b /\ l \in 1 .. b
      BY DEF b
    <3>8. n + 1 \notin 1 .. n
      BY <1>2
    <3>9. QED
      <4>1. CASE k \in 1 .. a /\ l \in 1 .. a
        BY <2>2, <3>4, <3>6, <4>1
      <4>2. CASE k \in a + 1 .. b /\ l \in a + 1 .. b
        BY <3>3, <4>2
      <4>3. CASE k \in 1 .. a /\ l \in a + 1 .. b
        BY <2>2, <3>3, <3>4, <3>5, <3>8, <4>3
      <4>4. CASE k \in a + 1 .. b /\ l \in 1 .. a
        BY <2>2, <3>3, <3>4, <3>5, <3>8, <4>4
      <4>5. QED  BY <3>2, <3>7, <4>1, <4>2, <4>3, <4>4
  <2>3. QED  BY <2>1, <2>2 DEF IsInjective
<1>9. u \in Trees
  <2>1. ASSUME NEW i \in 1 .. Len(u)
        PROVE  /\ u[i].parent < i
               /\ u[i].kind = "file" => u[i].children = <<>> /\ ~u[i].lazy
               /\ IsInjective(u[i].children)
               /\ \A k \in 1 .. Len(u[i].children) :
                    /\ u[i].children[k] \in 1 .. Len(u)
                    /\ u[u[i].children[k]].parent = i
    <3>1. CASE i = n + 1
      <4>1. u[i].children = <<>> /\ u[i].parent <= n /\ u[i].kind = x.kind /\ u[i].lazy = x.lazy
        BY <1>1, <3>1 DEF n
      <4>2. IsInjective(<<>>) /\ Len(<<>>) = 0
        BY DEF IsInjective
      <4>3. u[i].parent < i
        BY <1>1, <1>2, <1>4, <3>1, <4>1
      <4>4. QED  BY <1>4, <4>1, <4>2, <4>3
    <3>2. CASE i \in 1 .. n
      BY <1>6, <1>7, <1>8, <3>2
    <3>3. QED  BY <1>3, <3>1, <3>2
  <2>2. QED  BY <1>1, <2>1, TreeIs
<1>10. Grows(t, u)
  <2>1. \A i \in 1 .. n : \A k \in Len(t[i].children) + 1 .. Len(u[i].children) :
          u[i].children[k] > n
    BY <1>2, <1>5
  <2>2. n <= Len(u)
    BY <1>1, <1>2
  <2>3. \A i \in n + 1 .. Len(u) : u[i].name \in Pure
    <3>1. San[x.name] \in Pure
      BY NameAssumption, CleanAssumption DEF Fresh, Nodes, Pure
    <3>2. QED  BY <1>1, <1>2, <3>1
  <2>4. QED  BY <1>1, <1>5, <2>1, <2>2, <2>3 DEF Grows, n
<1>11. QED  BY <1>1, <1>9, <1>10 DEF u, n

\* What an operation on a tree may do to it.
Extends(t, u) == u \in Trees /\ Grows(t, u)

\* Growing twice is growing.
LEMMA ExtendsOn ==
  ASSUME NEW t \in Trees, NEW u, NEW v, Extends(t, u), Extends(u, v)
  PROVE  Extends(t, v)
BY GrowsOn DEF Extends

\* The contents and the words of tree.rs are some.
LEMMA Words ==
  /\ {None, Static, Local} \subseteq Contents /\ Blobs \subseteq Contents
  /\ {"public", "host", "by-sha256", "by-type", "by-date", "git", "repo",
      "INFO.md", "README.txt", "CLONE_FAILED.txt"} \subseteq AllNames
BY NameAssumption DEF Contents

\* Directories and files before they are added.
LEMMA NewNodes ==
  ASSUME NEW p \in Nat, NEW n \in AllNames, NEW c \in Contents
  PROVE  /\ Dir(p, n) \in Fresh /\ Dir(p, n).parent = p
         /\ File(p, n, c) \in Fresh /\ File(p, n, c).parent = p
         /\ [Dir(p, n) EXCEPT !.lazy = TRUE] \in Fresh
         /\ [Dir(p, n) EXCEPT !.lazy = TRUE].parent = p
<1>1. Dir(p, n) \in Nodes /\ File(p, n, c) \in Nodes
  BY Words DEF Dir, File, Nodes
<1>2. [Dir(p, n) EXCEPT !.lazy = TRUE] \in Nodes
  BY <1>1 DEF Nodes
<1>3. QED  BY <1>1, <1>2 DEF Fresh, Dir, File

\* Each of the add_ functions makes the tree grow by one node.
LEMMA AddersGrow ==
  ASSUME NEW t \in Trees, NEW p \in 0 .. Len(t), NEW n \in AllNames, NEW c \in Contents
  PROVE  /\ Extends(t, AddDirectory(t, p, n)) /\ Len(AddDirectory(t, p, n)) = Len(t) + 1
         /\ Extends(t, AddStaticFile(t, p, n)) /\ Len(AddStaticFile(t, p, n)) = Len(t) + 1
         /\ Extends(t, AddRemoteFile(t, p, n, c))
         /\ Len(AddRemoteFile(t, p, n, c)) = Len(t) + 1
         /\ Extends(t, AddLocalFile(t, p, n)) /\ Len(AddLocalFile(t, p, n)) = Len(t) + 1
         /\ Extends(t, AddFileToDir(t, p, n)) /\ Len(AddFileToDir(t, p, n)) = Len(t) + 1
         /\ Extends(t, AddLazyDir(t, p, n)) /\ Len(AddLazyDir(t, p, n)) = Len(t) + 1
<1>1. p \in Nat /\ p <= Len(t)
  BY TreeParts
<1>2. Static \in Contents /\ Local \in Contents
  BY Words
<1>3. ASSUME NEW x \in Fresh, x.parent = p
      PROVE  Extends(t, Add(t, x)) /\ Len(Add(t, x)) = Len(t) + 1
  BY <1>1, <1>3, AddGrows DEF Extends
<1>4. /\ Dir(p, n) \in Fresh /\ Dir(p, n).parent = p
      /\ [Dir(p, n) EXCEPT !.lazy = TRUE] \in Fresh
      /\ [Dir(p, n) EXCEPT !.lazy = TRUE].parent = p
  BY <1>1, <1>2, NewNodes
<1>5. \A d \in Contents : File(p, n, d) \in Fresh /\ File(p, n, d).parent = p
  BY <1>1, NewNodes
<1>6. Extends(t, AddDirectory(t, p, n)) /\ Len(AddDirectory(t, p, n)) = Len(t) + 1
  BY <1>3, <1>4 DEF AddDirectory
<1>7. Extends(t, AddLazyDir(t, p, n)) /\ Len(AddLazyDir(t, p, n)) = Len(t) + 1
  BY <1>3, <1>4 DEF AddLazyDir
<1>8. \A d \in Contents : Extends(t, Add(t, File(p, n, d)))
                          /\ Len(Add(t, File(p, n, d))) = Len(t) + 1
  BY <1>3, <1>5
<1>9. QED
  BY <1>2, <1>6, <1>7, <1>8 DEF AddStaticFile, AddRemoteFile, AddLocalFile, AddFileToDir

\* lookup() finds a node of that name that the directory lists, or nothing when
\* it lists none.
LEMMA LookupIs ==
  ASSUME NEW t \in Trees, NEW p, NEW n
  PROVE  \/ /\ Lookup(t, p, n) = 0
            /\ ~IsDir(t, p) \/ \A c \in Range(t[p].children) : t[c].name # n
         \/ /\ Lookup(t, p, n) \in DOMAIN t /\ IsDir(t, p)
            /\ Lookup(t, p, n) \in Range(t[p].children)
            /\ t[Lookup(t, p, n)].name = n /\ t[Lookup(t, p, n)].parent = p
<1> DEFINE list  == t[p].children
           named == {k \in DOMAIN list : t[list[k]].name = n}
<1>1. CASE IsDir(t, p) /\ named # {}
  <2>1. p \in 1 .. Len(t)
    BY <1>1, TreeParts DEF IsDir
  <2>2. DOMAIN list = 1 .. Len(list) /\ Len(list) \in Nat
    BY <2>1, TreeParts
  <2>3. Min(named) \in named
    <3>1. named \in SUBSET Nat
      BY <2>2
    <3> HIDE DEF named
    <3>2. QED  BY <1>1, <3>1, MinIs
  <2>4. Lookup(t, p, n) = list[Min(named)]
    BY <1>1 DEF Lookup
  <2> DEFINE k == Min(named)
  <2>5. k \in DOMAIN list /\ t[list[k]].name = n
    BY <2>3
  <2> HIDE DEF k
  <2>6. list[k] \in 1 .. Len(t) /\ t[list[k]].parent = p
    BY <2>1, <2>2, <2>5, TreeParts
  <2>7. list[k] \in Range(list)
    BY <2>5 DEF Range
  <2>8. DOMAIN t = 1 .. Len(t)
    BY TreeParts
  <2>9. QED  BY <1>1, <2>4, <2>5, <2>6, <2>7, <2>8 DEF k
<1>2. CASE ~(IsDir(t, p) /\ named # {})
  <2>1. Lookup(t, p, n) = 0
    BY <1>2 DEF Lookup
  <2>2. IsDir(t, p) => \A c \in Range(list) : t[c].name # n
    BY <1>2 DEF Range
  <2>3. QED  BY <2>1, <2>2
<1>3. QED  BY <1>1, <1>2

\* get_or_create_dir makes the tree grow and goes on with a node of it.
LEMMA GetOrCreateGrows ==
  ASSUME NEW t \in Trees, NEW p \in 0 .. Len(t), NEW n \in AllNames
  PROVE  /\ Extends(t, GetOrCreateDir(t, p, n).tree)
         /\ GetOrCreateDir(t, p, n).ino \in 1 .. Len(GetOrCreateDir(t, p, n).tree)
<1>1. CASE Lookup(t, p, n) # 0
  <2>1. Lookup(t, p, n) \in 1 .. Len(t)
    BY <1>1, LookupIs, TreeParts
  <2>2. GetOrCreateDir(t, p, n) = [tree |-> t, ino |-> Lookup(t, p, n)]
    BY <1>1 DEF GetOrCreateDir
  <2>3. QED  BY <2>1, <2>2, GrowsSelf DEF Extends
<1>2. CASE Lookup(t, p, n) = 0
  <2>1. GetOrCreateDir(t, p, n) = [tree |-> AddDirectory(t, p, n), ino |-> Len(t) + 1]
    BY <1>2 DEF GetOrCreateDir
  <2>2. Extends(t, AddDirectory(t, p, n)) /\ Len(AddDirectory(t, p, n)) = Len(t) + 1
    BY AddersGrow, Words
  <2>3. Len(t) + 1 \in 1 .. Len(t) + 1
    BY TreeParts
  <2>4. QED  BY <2>1, <2>2, <2>3
<1>3. QED  BY <1>1, <1>2

-----------------------------------------------------------------------------
(* What is built and restored.                                             *)

\* A tree and a node of it that extend t.
Places(t) == {v \in [tree : Trees, ino : Nat] : v.ino \in 0 .. Len(v.tree) /\ Grows(t, v.tree)}

\* The places on the way down a path from p.
Leads(t, p, path, at) ==
  /\ at[0] = [tree |-> t, ino |-> p]
  /\ \A k \in 1 .. Len(path) :
       at[k] = GetOrCreateDir(at[k - 1].tree, at[k - 1].ino, path[k])
  /\ \A k \in 0 .. Len(path) : at[k] \in Places(t)
  /\ GetOrCreateFrom(t, p, path) = at[Len(path)]

\* Going down a path makes the tree grow, name by name.
LEMMA PathSteps ==
  ASSUME NEW t \in Trees, NEW p \in 0 .. Len(t), NEW path \in Seq(AllNames)
  PROVE  \E at : Leads(t, p, path, at)
<1> DEFINE n == Len(path)
           X == Places(t)
           base == [tree |-> t, ino |-> p]
           Step(v, k) == GetOrCreateDir(v.tree, v.ino, path[k])
           G == [k \in 1 .. n |-> [v \in X |-> Step(v, k)]]
           Eq(f) == f = [k \in 0 .. n |-> IF k = 0 THEN base ELSE Step(f[k - 1], k)]
           at == CHOOSE f : Eq(f)
<1>1. GetOrCreateFrom(t, p, path) = at[n]
  BY DEF GetOrCreateFrom
<1>2. n \in Nat /\ \A k \in 1 .. n : path[k] \in AllNames
  OBVIOUS
<1>3. base \in X
  BY GrowsSelf, TreeParts DEF Places
<1> HIDE DEF n, X, base
<1>4. ASSUME NEW k \in 1 .. n, NEW v \in X
      PROVE  Step(v, k) \in X
  <2>1. v.tree \in Trees /\ v.ino \in 0 .. Len(v.tree) /\ Grows(t, v.tree)
    BY DEF X, Places
  <2> DEFINE w == GetOrCreateDir(v.tree, v.ino, path[k])
  <2>2. Extends(v.tree, w.tree) /\ w.ino \in 1 .. Len(w.tree)
    BY <1>2, <2>1, GetOrCreateGrows
  <2>3. Extends(t, w.tree)
    BY <2>1, <2>2, ExtendsOn DEF Extends
  <2>4. w = [tree |-> w.tree, ino |-> w.ino]
    BY DEF GetOrCreateDir
  <2> HIDE DEF w
  <2>5. w.tree \in Trees /\ w.ino \in 0 .. Len(w.tree) /\ Grows(t, w.tree) /\ w.ino \in Nat
    BY <2>2, <2>3, TreeParts DEF Extends
  <2>6. w \in Places(t)
    BY <2>4, <2>5 DEF Places
  <2>7. QED  BY <2>6 DEF w, X
<1> HIDE DEF Step
<1>5. \E g : Eq(g)
  <2>1. G \in [1 .. n -> [X -> X]]
    BY <1>4
  <2>2. PICK g : Iteration(n, X, base, G, g)
    <3> HIDE DEF G
    <3> QED BY <1>2, <1>3, <2>1, Iterates
  <2>3. ASSUME NEW k \in 1 .. n
        PROVE  g[k] = Step(g[k - 1], k)
    <3>1. k - 1 \in 0 .. n
      BY <1>2
    <3>2. QED  BY <2>2, <3>1 DEF Iteration
  <2>4. \A k \in 0 .. n : k = 0 \/ k \in 1 .. n
    BY <1>2
  <2>5. \A k \in 0 .. n : g[k] = IF k = 0 THEN base ELSE Step(g[k - 1], k)
    BY <2>2, <2>3, <2>4 DEF Iteration
  <2>6. QED  BY <2>2, <2>5 DEF Iteration
<1>6. Eq(at)
  <2> HIDE DEF Eq
  <2> QED BY <1>5
<1>7. at[0] = base /\ \A k \in 1 .. n : at[k] = Step(at[k - 1], k)
  <2> HIDE DEF at
  <2> QED BY <1>2, <1>6
<1> HIDE DEF at
<1> DEFINE R == {k \in 0 .. n : at[k] \in X}
<1>8. 0 \in R
  BY <1>2, <1>3, <1>7
<1>9. \A k \in 1 .. n : k - 1 \in R => k \in R
  BY <1>2, <1>4, <1>7
<1>10. 0 .. n \subseteq R
  <2> HIDE DEF R
  <2> QED BY <1>2, <1>8, <1>9, IntervalInduction
<1>11. Leads(t, p, path, at)
  BY <1>1, <1>7, <1>10 DEF X, n, base, Step, Leads
<1>12. QED  BY <1>11

\* Where a path leads the tree has grown.
LEMMA PathGrows ==
  ASSUME NEW t \in Trees, NEW p \in 0 .. Len(t), NEW path \in Seq(AllNames)
  PROVE  GetOrCreateFrom(t, p, path) \in Places(t)
<1>1. PICK at : Leads(t, p, path, at)
  BY PathSteps
<1>2. Len(path) \in 0 .. Len(path)
  OBVIOUS
<1>3. QED  BY <1>1, <1>2 DEF Leads

\* add_descriptor makes the tree grow.
LEMMA DescriptorGrows ==
  ASSUME NEW t \in Trees, NEW dirs \in [sha : 0 .. Len(t), type : 0 .. Len(t), date : 0 .. Len(t)],
         NEW b \in Blobs
  PROVE  Extends(t, AddDescriptor(t, dirs, b))
<1> DEFINE one == IF Seen(t, dirs.sha, b) THEN t ELSE AddRemoteFile(t, dirs.sha, NameOf[b], b)
           ty  == GetOrCreateDir(one, dirs.type, TypeOf[b])
           two == AddRemoteFile(ty.tree, ty.ino, NameOf[b], b)
           day == GetOrCreateFrom(two, dirs.date, DayOf[b])
           end == AddRemoteFile(day.tree, day.ino, NameOf[b], b)
<1>1. AddDescriptor(t, dirs, b) = end
  BY DEF AddDescriptor
<1>2. /\ b \in Contents /\ TypeOf[b] \in AllNames /\ NameOf[b] \in AllNames
      /\ DayOf[b] \in Seq(AllNames)
  BY BlobAssumption, Words
<1>3. \A u : Extends(t, u) => u \in Trees /\ 0 .. Len(t) \subseteq 0 .. Len(u)
  BY TreeParts DEF Extends, Grows
<1>4. Extends(t, one)
  BY <1>2, AddersGrow, GrowsSelf DEF Extends
<1> HIDE DEF one
<1>5. Extends(one, ty.tree) /\ ty.ino \in 0 .. Len(ty.tree)
  <2>1. Extends(one, ty.tree) /\ ty.ino \in 1 .. Len(ty.tree)
    BY <1>2, <1>3, <1>4, GetOrCreateGrows
  <2> HIDE DEF ty
  <2>2. QED  BY <2>1
<1> HIDE DEF ty
<1>6. Extends(ty.tree, two)
  BY <1>2, <1>5, AddersGrow DEF Extends
<1> HIDE DEF two
<1>7. Extends(t, two)
  BY <1>4, <1>5, <1>6, ExtendsOn DEF Extends
<1>8. day \in Places(two)
  BY <1>2, <1>3, <1>7, PathGrows
<1> HIDE DEF day
<1>9. Extends(two, day.tree) /\ day.ino \in 0 .. Len(day.tree)
  BY <1>8 DEF Places, Extends
<1>10. Extends(day.tree, end)
  BY <1>2, <1>9, AddersGrow DEF Extends
<1> HIDE DEF end
<1>11. QED  BY <1>1, <1>7, <1>9, <1>10, ExtendsOn DEF Extends

\* What makes a tree grow step by step makes it grow.
LEMMA StepsGrow ==
  ASSUME NEW t \in Trees, NEW n \in Nat, NEW f, Extends(t, f[0]),
         \A k \in 1 .. n : Extends(t, f[k - 1]) => Extends(f[k - 1], f[k])
  PROVE  Extends(t, f[n])
<1> DEFINE R == {k \in 0 .. n : Extends(t, f[k])}
<1>1. 0 \in R
  OBVIOUS
<1>2. \A k \in 1 .. n : k - 1 \in R => k \in R
  BY ExtendsOn DEF Extends
<1>3. 0 .. n \subseteq R
  <2> HIDE DEF R
  <2> QED BY <1>1, <1>2, IntervalInduction
<1>4. QED  BY <1>3

\* The trees that extend t.
Growths(t) == {u \in Trees : Grows(t, u)}

\* The directories of build_from_descriptors, and the tree with them.
Views(t) == [sha |-> Len(t) + 1, type |-> Len(t) + 2, date |-> Len(t) + 3]
Emptied(t, p) ==
  AddDirectory(AddDirectory(AddDirectory(t, p, "by-sha256"), p, "by-type"), p, "by-date")

\* The trees it makes, one descriptor after the other.
Builds(t, p, blobs, add) ==
  /\ add[0] = Emptied(t, p)
  /\ \A k \in 1 .. Len(blobs) : add[k] = AddDescriptor(add[k - 1], Views(t), blobs[k])
  /\ \A k \in 0 .. Len(blobs) : Extends(t, add[k])
  /\ BuildFromDescriptors(t, p, blobs) = add[Len(blobs)]

\* build_from_descriptors makes the tree grow, descriptor by descriptor.
LEMMA BuildSteps ==
  ASSUME NEW t \in Trees, NEW p \in 0 .. Len(t), NEW blobs \in Seq(Blobs)
  PROVE  \E add : Builds(t, p, blobs, add)
<1> DEFINE dirs == [sha |-> Len(t) + 1, type |-> Len(t) + 2, date |-> Len(t) + 3]
           base == AddDirectory(AddDirectory(AddDirectory(t, p, "by-sha256"), p, "by-type"),
                       p, "by-date")
<1>1. Extends(t, base) /\ Len(base) = Len(t) + 3
  <2> DEFINE one == AddDirectory(t, p, "by-sha256")
             two == AddDirectory(one, p, "by-type")
  <2>1. Extends(t, one) /\ Len(one) = Len(t) + 1
    BY Words, AddersGrow
  <2> HIDE DEF one
  <2>2. p \in 0 .. Len(one)
    BY <2>1, TreeParts
  <2>3. Extends(one, two) /\ Len(two) = Len(one) + 1
    BY <2>1, <2>2, Words, AddersGrow DEF Extends
  <2> HIDE DEF two
  <2>4. p \in 0 .. Len(two)
    BY <2>1, <2>2, <2>3, TreeParts DEF Extends
  <2>5. Extends(two, base) /\ Len(base) = Len(two) + 1
    BY <2>3, <2>4, Words, AddersGrow DEF Extends, one, two
  <2> HIDE DEF base
  <2>6. Extends(t, two)
    BY <2>1, <2>3, ExtendsOn
  <2>7. Extends(t, base)
    BY <2>5, <2>6, ExtendsOn
  <2>8. Len(t) \in Nat
    BY TreeParts
  <2>9. QED  BY <2>1, <2>3, <2>5, <2>7, <2>8
<1>2. dirs \in [sha : 0 .. Len(base), type : 0 .. Len(base), date : 0 .. Len(base)]
  <2>1. Len(t) \in Nat
    BY TreeParts
  <2> HIDE DEF base
  <2>2. QED  BY <1>1, <2>1
<1> DEFINE n == Len(blobs)
           X == Growths(base)
           Step(v, k) == AddDescriptor(v, dirs, blobs[k])
           G == [k \in 1 .. n |-> [v \in X |-> Step(v, k)]]
           Eq(f) == f = [k \in 0 .. n |-> IF k = 0 THEN base ELSE Step(f[k - 1], k)]
           add == CHOOSE f : Eq(f)
<1>4. BuildFromDescriptors(t, p, blobs) = add[n]
  BY DEF BuildFromDescriptors
<1>5. n \in Nat /\ \A k \in 1 .. n : blobs[k] \in Blobs
  OBVIOUS
<1>6. base \in X
  BY <1>1, GrowsSelf DEF Extends, Growths
<1> HIDE DEF n, base, dirs
<1>7. ASSUME NEW k \in 1 .. n, NEW v \in X
      PROVE  Extends(v, Step(v, k))
  <2>1. v \in Trees /\ 0 .. Len(base) \subseteq 0 .. Len(v)
    BY <1>1, TreeParts DEF X, Growths, Grows, Extends
  <2>2. QED  BY <1>2, <1>5, <2>1, DescriptorGrows
<1>8. \A k \in 1 .. n : \A v \in X : Step(v, k) \in X
  <2> HIDE DEF Step
  <2> QED BY <1>1, <1>7, ExtendsOn DEF Extends, Growths
<1> HIDE DEF Step, X
<1>9. \E g : Eq(g)
  <2>1. G \in [1 .. n -> [X -> X]]
    BY <1>8
  <2>2. PICK g : Iteration(n, X, base, G, g)
    <3> HIDE DEF G
    <3> QED BY <1>5, <1>6, <2>1, Iterates
  <2>3. ASSUME NEW k \in 1 .. n
        PROVE  g[k] = Step(g[k - 1], k)
    <3>1. k - 1 \in 0 .. n
      BY <1>5
    <3>2. QED  BY <2>2, <3>1 DEF Iteration
  <2>4. \A k \in 0 .. n : k = 0 \/ k \in 1 .. n
    BY <1>5
  <2>5. \A k \in 0 .. n : g[k] = IF k = 0 THEN base ELSE Step(g[k - 1], k)
    BY <2>2, <2>3, <2>4 DEF Iteration
  <2>6. QED  BY <2>2, <2>5 DEF Iteration
<1>10. Eq(add)
  <2> HIDE DEF Eq
  <2> QED BY <1>9
<1>11. add[0] = base /\ \A k \in 1 .. n : add[k] = Step(add[k - 1], k)
  <2> HIDE DEF add
  <2> QED BY <1>5, <1>10
<1> HIDE DEF add
<1>12. \A k \in 1 .. n : Extends(base, add[k - 1]) => Extends(add[k - 1], add[k])
  BY <1>7, <1>11 DEF Extends, X, Growths
<1>13. ASSUME NEW m \in 0 .. n
       PROVE  Extends(t, add[m])
  <2>1. m \in Nat /\ \A k \in 1 .. m : k \in 1 .. n
    BY <1>5
  <2>2. Extends(base, add[m])
    BY <1>1, <1>11, <1>12, <2>1, GrowsSelf, StepsGrow DEF Extends
  <2>3. QED  BY <1>1, <2>2, ExtendsOn
<1>14. Builds(t, p, blobs, add)
  BY <1>4, <1>11, <1>13 DEF Builds, n, base, dirs, Emptied, Views, Step
<1>15. QED  BY <1>14

\* build_from_descriptors makes the tree grow.
LEMMA BuildGrows ==
  ASSUME NEW t \in Trees, NEW p \in 0 .. Len(t), NEW blobs \in Seq(Blobs)
  PROVE  Extends(t, BuildFromDescriptors(t, p, blobs))
<1>1. PICK add : Builds(t, p, blobs, add)
  BY BuildSteps
<1>2. Len(blobs) \in 0 .. Len(blobs)
  OBVIOUS
<1>3. QED  BY <1>1, <1>2 DEF Builds

\* The node under which walk_repo_tree puts the children of entry k, and the
\* trees it makes, one entry after the other.
Walked(t, d, k) == IF k = 0 THEN d ELSE Len(t) + k
Walks(t, d, walk) ==
  /\ walk[0] = t
  /\ \A k \in 1 .. Len(Repo) :
       walk[k] = IF Repo[k].kind = "dir"
                 THEN AddDirectory(walk[k - 1], Walked(t, d, Repo[k].up), Repo[k].name)
                 ELSE AddLocalFile(walk[k - 1], Walked(t, d, Repo[k].up), Repo[k].name)
  /\ \A k \in 0 .. Len(Repo) : Extends(t, walk[k]) /\ Len(walk[k]) = Len(t) + k
  /\ WalkRepo(t, d) = walk[Len(Repo)]

\* walk_repo_tree makes the tree grow by a node for each entry, one by one.
LEMMA WalkSteps ==
  ASSUME NEW t \in Trees, NEW d \in 1 .. Len(t)
  PROVE  \E walk : Walks(t, d, walk)
<1> DEFINE n == Len(Repo)
           X == Growths(t)
           ino(k) == IF k = 0 THEN d ELSE Len(t) + k
           Step(v, k) == IF Repo[k].kind = "dir"
                         THEN AddDirectory(v, ino(Repo[k].up), Repo[k].name)
                         ELSE AddLocalFile(v, ino(Repo[k].up), Repo[k].name)
           Full(v, k) == v \in X /\ Len(v) = Len(t) + k
           G == [k \in 1 .. n |-> [v \in X |-> IF Full(v, k - 1) THEN Step(v, k) ELSE v]]
           Eq(f) == f = [k \in 0 .. n |-> IF k = 0 THEN t ELSE Step(f[k - 1], k)]
           walk == CHOOSE f : Eq(f)
<1>1. WalkRepo(t, d) = walk[n]
  BY DEF WalkRepo
<1>2. n \in Nat /\ Len(t) \in Nat /\ d \in Nat
  BY RepoAssumption, TreeParts
<1>3. \A k \in 1 .. n : Repo[k].name \in AllNames /\ Repo[k].up \in 0 .. k - 1
  <2> DEFINE E == [kind : {"dir", "file"}, name : AllNames, up : Nat]
  <2>0. Repo \in Seq(E) /\ \A k \in DOMAIN Repo : Repo[k].up < k
    BY RepoAssumption
  <2>1. \A k \in 1 .. n : Repo[k] \in E /\ Repo[k].up < k
    <3> HIDE DEF E
    <3> QED BY <2>0
  <2>2. \A k \in 1 .. n : Repo[k].name \in AllNames /\ Repo[k].up \in Nat /\ Repo[k].up < k
    BY <2>1
  <2>3. QED  BY <2>2
<1>4. t \in X
  BY GrowsSelf DEF Growths
<1> HIDE DEF n
<1>5. ASSUME NEW k \in 1 .. n, NEW v, Full(v, k - 1)
      PROVE  Full(Step(v, k), k)
  <2>1. v \in Trees /\ Grows(t, v) /\ Len(v) = Len(t) + (k - 1)
    BY <1>5 DEF Growths
  <2>2. ino(Repo[k].up) \in 0 .. Len(v)
    BY <1>2, <1>3, <2>1
  <2>3. Repo[k].name \in AllNames
    BY <1>3
  <2> HIDE DEF ino
  <2>4. Extends(v, Step(v, k)) /\ Len(Step(v, k)) = Len(v) + 1
    BY <2>1, <2>2, <2>3, Words, AddersGrow
  <2> HIDE DEF Step
  <2>5. Extends(t, Step(v, k))
    BY <2>1, <2>4, ExtendsOn DEF Extends
  <2>6. Len(Step(v, k)) = Len(t) + k
    BY <1>2, <2>1, <2>4
  <2>7. QED  BY <2>5, <2>6 DEF Extends, Growths
<1> HIDE DEF Step, X
<1>6. \E g : Eq(g)
  <2>1. G \in [1 .. n -> [X -> X]]
    BY <1>5
  <2>2. PICK g : Iteration(n, X, t, G, g)
    <3> HIDE DEF G
    <3> QED BY <1>2, <1>4, <2>1, Iterates
  <2>3. \A k \in 1 .. n : g[k - 1] \in X /\ g[k] = IF Full(g[k - 1], k - 1) THEN Step(g[k - 1], k) ELSE g[k - 1]
    <3>1. \A k \in 1 .. n : k - 1 \in 0 .. n
      BY <1>2
    <3> HIDE DEF Full
    <3>2. QED  BY <2>2, <3>1 DEF Iteration
  <2> DEFINE R == {k \in 0 .. n : Full(g[k], k)}
  <2>4. 0 \in R
    BY <1>2, <1>4, <2>2 DEF Iteration
  <2>5. \A k \in 1 .. n : k - 1 \in R => k \in R
    <3> HIDE DEF Full
    <3> QED BY <1>2, <1>5, <2>3
  <2>6. 0 .. n \subseteq R
    <3> HIDE DEF R
    <3> QED BY <1>2, <2>4, <2>5, IntervalInduction
  <2>7. \A k \in 1 .. n : g[k] = Step(g[k - 1], k)
    <3>1. \A k \in 1 .. n : k - 1 \in 0 .. n
      BY <1>2
    <3> HIDE DEF Full
    <3>2. QED  BY <2>3, <2>6, <3>1
  <2>8. \A k \in 0 .. n : k = 0 \/ k \in 1 .. n
    BY <1>2
  <2>9. \A k \in 0 .. n : g[k] = IF k = 0 THEN t ELSE Step(g[k - 1], k)
    BY <2>2, <2>7, <2>8 DEF Iteration
  <2>10. QED  BY <2>2, <2>9 DEF Iteration
<1>7. Eq(walk)
  <2> HIDE DEF Eq
  <2> QED BY <1>6
<1>8. walk[0] = t /\ \A k \in 1 .. n : walk[k] = Step(walk[k - 1], k)
  <2> HIDE DEF walk
  <2> QED BY <1>2, <1>7
<1> HIDE DEF walk
<1> DEFINE R == {k \in 0 .. n : Full(walk[k], k)}
<1>9. 0 \in R
  BY <1>2, <1>4, <1>8
<1>10. \A k \in 1 .. n : k - 1 \in R => k \in R
  <2> HIDE DEF Full
  <2> QED BY <1>2, <1>5, <1>8
<1>11. 0 .. n \subseteq R
  <2> HIDE DEF R
  <2> QED BY <1>2, <1>9, <1>10, IntervalInduction
<1>12. \A k \in 0 .. n : Extends(t, walk[k]) /\ Len(walk[k]) = Len(t) + k
  BY <1>11 DEF X, Growths, Extends
<1>13. Walks(t, d, walk)
  BY <1>1, <1>8, <1>12 DEF Walks, n, Step, Walked
<1>14. QED  BY <1>13

\* walk_repo_tree makes the tree grow by a node for each entry.
LEMMA WalkGrows ==
  ASSUME NEW t \in Trees, NEW d \in 1 .. Len(t)
  PROVE  Extends(t, WalkRepo(t, d)) /\ Len(WalkRepo(t, d)) = Len(t) + Len(Repo)
<1>1. PICK walk : Walks(t, d, walk)
  BY WalkSteps
<1>2. Len(Repo) \in 0 .. Len(Repo)
  BY RepoAssumption
<1>3. QED  BY <1>1, <1>2 DEF Walks

\* A new tree is its root.
LEMMA NewTreeIs ==
  NewTree \in Trees /\ Len(NewTree) = 1 /\ NewTree[1] = Dir(0, "/")
<1> DEFINE new == NewTree
<1>1. Dir(0, "/") \in Nodes /\ Dir(0, "/").parent = 0 /\ Dir(0, "/").children = <<>>
      /\ Dir(0, "/").lazy = FALSE
  BY NameAssumption, Words DEF Dir, Nodes
<1>2. new = <<Dir(0, "/")>>
  BY DEF NewTree
<1> HIDE DEF new
<1>3. new \in Seq(Nodes) /\ Len(new) = 1 /\ new[1] = Dir(0, "/")
  BY <1>1, <1>2
<1>4. IsInjective(<<>>)
  BY DEF IsInjective
<1>5. ASSUME NEW i \in 1 .. Len(new)
      PROVE  /\ new[i].parent < i
             /\ new[i].kind = "file" => new[i].children = <<>> /\ ~new[i].lazy
             /\ IsInjective(new[i].children)
             /\ \A k \in 1 .. Len(new[i].children) :
                  /\ new[i].children[k] \in 1 .. Len(new)
                  /\ new[new[i].children[k]].parent = i
  <2>1. new[i] = Dir(0, "/") /\ 0 < i
    BY <1>3
  <2>2. QED  BY <1>1, <1>4, <2>1
<1>6. new \in Trees
  BY <1>3, <1>5, TreeIs
<1>7. QED  BY <1>3, <1>6 DEF new

\* The tree a mount begins with is a tree.
LEMMA BuiltIsTree ==
  ASSUME all \in Seq(Blobs)
  PROVE  BuiltTree \in Trees /\ Len(BuiltTree) > 0 /\ Extends(NewTree, BuiltTree)
<1> DEFINE new    == NewTree
           public == AddDirectory(new, Root, "public")
           host   == AddDirectory(public, 2, "host")
           blobs  == BuildFromDescriptors(host, 3, all)
           git    == AddDirectory(blobs, Root, "git")
           repo   == AddLazyDir(git, Len(git), "repo")
           info   == AddStaticFile(repo, Len(repo), "INFO.md")
           end    == AddStaticFile(info, Root, "README.txt")
<1>1. BuiltTree = end
  BY DEF BuiltTree
<1>2. new \in Trees /\ Len(new) = 1
  BY NewTreeIs
<1> HIDE DEF new
<1>3. Extends(new, public) /\ Len(public) = 2
  <2>1. Root \in 0 .. Len(new)
    BY <1>2 DEF Root
  <2>2. Extends(new, public) /\ Len(public) = Len(new) + 1
    BY <1>2, <2>1, Words, AddersGrow
  <2>3. QED  BY <1>2, <2>2
<1> HIDE DEF public
<1>4. Extends(new, host) /\ Len(host) = 3
  <2> DEFINE p == 2
  <2>1. p \in 0 .. Len(public) /\ public \in Trees
    BY <1>3 DEF Extends
  <2> HIDE DEF p
  <2>2. /\ Extends(public, AddDirectory(public, p, "host"))
        /\ Len(AddDirectory(public, p, "host")) = Len(public) + 1
    BY <2>1, Words, AddersGrow
  <2>3. QED  BY <1>2, <1>3, <2>2, ExtendsOn DEF p
<1> HIDE DEF host
<1>5. Extends(new, blobs) /\ Len(blobs) \in Nat /\ Len(blobs) >= 3
  <2>0. 3 \in 0 .. Len(host) /\ host \in Trees
    BY <1>4 DEF Extends
  <2>1. Extends(host, blobs)
    BY <2>0, BuildGrows
  <2> HIDE DEF blobs
  <2>2. blobs \in Trees /\ Len(host) <= Len(blobs)
    BY <2>1 DEF Extends, Grows
  <2>3. Len(blobs) \in Nat
    BY <2>2, TreeParts
  <2>4. QED  BY <1>2, <1>4, <2>1, <2>2, <2>3, ExtendsOn
<1> HIDE DEF blobs
<1>6. Extends(new, git) /\ Len(git) = Len(blobs) + 1
  <2>1. Root \in 0 .. Len(blobs) /\ blobs \in Trees
    BY <1>5 DEF Root, Extends
  <2>2. Extends(blobs, git) /\ Len(git) = Len(blobs) + 1
    BY <2>1, Words, AddersGrow
  <2>3. QED  BY <1>2, <1>5, <2>2, ExtendsOn
<1> HIDE DEF git
<1>7. Extends(new, repo) /\ Len(repo) = Len(git) + 1
  <2>1. Len(git) \in 0 .. Len(git) /\ git \in Trees
    BY <1>5, <1>6 DEF Extends
  <2>2. Extends(git, repo) /\ Len(repo) = Len(git) + 1
    BY <2>1, Words, AddersGrow
  <2>3. QED  BY <1>2, <1>6, <2>2, ExtendsOn
<1> HIDE DEF repo
<1>8. Extends(new, info) /\ Len(info) = Len(repo) + 1
  <2>1. Len(repo) \in 0 .. Len(repo) /\ repo \in Trees
    BY <1>5, <1>6, <1>7 DEF Extends
  <2>2. Extends(repo, info) /\ Len(info) = Len(repo) + 1
    BY <2>1, Words, AddersGrow
  <2>3. QED  BY <1>2, <1>7, <2>2, ExtendsOn
<1> HIDE DEF info
<1>9. Extends(new, end) /\ Len(end) > 0
  <2>1. Root \in 0 .. Len(info) /\ Len(info) \in Nat /\ info \in Trees
    BY <1>5, <1>6, <1>7, <1>8 DEF Root, Extends
  <2>2. Extends(info, end) /\ Len(end) = Len(info) + 1
    BY <2>1, Words, AddersGrow
  <2> HIDE DEF end
  <2>3. QED  BY <1>2, <1>8, <2>1, <2>2, ExtendsOn
<1>10. QED  BY <1>1, <1>9 DEF Extends, new

\* A tag that is restored makes the tree grow.
LEMMA ApplyTagGrows ==
  ASSUME NEW t \in Trees, Len(t) > 0, NEW tag \in Tags
  PROVE  Extends(t, ApplyTag(t, tag))
<1>1. /\ tag.tag \in {"folder", "x"} /\ tag.content \in Contents
      /\ tag.path \in Seq(AllNames) /\ tag.path # <<>>
  BY DEF Tags
<1>3. ASSUME NEW path \in Seq(AllNames)
      PROVE  GetOrCreatePath(t, path) \in Places(t)
  <2>1. Root \in 0 .. Len(t)
    BY TreeParts DEF Root
  <2>2. QED  BY <2>1, PathGrows DEF GetOrCreatePath
<1>4. CASE tag.tag = "folder"
  BY <1>1, <1>3, <1>4 DEF ApplyTag, Places, Extends
<1>5. CASE tag.tag = "x"
  <2> DEFINE dir == GetOrCreatePath(t, Front(tag.path))
             n   == Last(tag.path)
  <2>1. Front(tag.path) \in Seq(AllNames) /\ n \in AllNames
    BY <1>1 DEF Front, Last
  <2>2. dir \in Places(t)
    BY <1>3, <2>1
  <2>3. ApplyTag(t, tag) = IF n = "" \/ Lookup(dir.tree, dir.ino, n) # 0 THEN dir.tree
                           ELSE AddRemoteFile(dir.tree, dir.ino, n, tag.content)
    BY <1>5 DEF ApplyTag
  <2> HIDE DEF dir, n
  <2>4. dir.tree \in Trees /\ dir.ino \in 0 .. Len(dir.tree) /\ Extends(t, dir.tree)
    BY <2>2 DEF Places, Extends
  <2>5. Extends(dir.tree, AddRemoteFile(dir.tree, dir.ino, n, tag.content))
    BY <1>1, <2>1, <2>4, AddersGrow
  <2>6. Extends(t, AddRemoteFile(dir.tree, dir.ino, n, tag.content))
    BY <2>4, <2>5, ExtendsOn
  <2>7. QED  BY <2>3, <2>4, <2>6
<1>6. QED  BY <1>1, <1>4, <1>5

\* The tags apply_persisted goes through, and the trees it makes.
Restores(t, tags, todo, apply) ==
  /\ todo \in Seq(Tags) /\ Range(todo) = Range(tags)
  /\ apply[0] = t
  /\ \A k \in 1 .. Len(todo) : apply[k] = ApplyTag(apply[k - 1], todo[k])
  /\ \A k \in 0 .. Len(todo) : Extends(t, apply[k])
  /\ ApplyPersisted(t, tags) = apply[Len(todo)]

\* Restoring a published structure makes the tree grow, tag by tag.
LEMMA PersistedSteps ==
  ASSUME NEW t \in Trees, Len(t) > 0, NEW tags \in Seq(Tags)
  PROVE  \E todo, apply : Restores(t, tags, todo, apply)
<1> DEFINE is(kind) == Only(tags, {g \in Range(tags) : g.tag = kind})
           todo == is("folder") \o is("x")
<1>1. Len(t) \in Nat
  BY TreeParts
<1>2. todo \in Seq(Tags) /\ Range(todo) = Range(tags)
  <2>1. ASSUME NEW kind
        PROVE  /\ is(kind) \in Seq(Tags)
               /\ Range(is(kind)) = Range(tags) \cap {g \in Range(tags) : g.tag = kind}
    <3> DEFINE K == {g \in Range(tags) : g.tag = kind}
    <3> HIDE DEF K
    <3>1. Only(tags, K) \in Seq(Tags) /\ Range(Only(tags, K)) = Range(tags) \cap K
      BY OnlyKeeps
    <3>2. QED  BY <3>1 DEF K
  <2>2. \A g \in Range(tags) : g.tag \in {"folder", "x"}
    <3>1. \A g \in Range(tags) : g \in Tags
      BY DEF Range
    <3>2. QED  BY <3>1 DEF Tags
  <2> HIDE DEF is
  <2>3. Range(todo) = Range(is("folder")) \union Range(is("x"))
    BY <2>1, RangeConcatenation
  <2>4. QED  BY <2>1, <2>2, <2>3
<1> DEFINE n == Len(todo)
           X == Growths(t)
           Step(v, k) == ApplyTag(v, todo[k])
           G == [k \in 1 .. n |-> [v \in X |-> Step(v, k)]]
           Eq(f) == f = [k \in 0 .. n |-> IF k = 0 THEN t ELSE Step(f[k - 1], k)]
           apply == CHOOSE f : Eq(f)
<1>3. ApplyPersisted(t, tags) = apply[n]
  BY DEF ApplyPersisted
<1>4. n \in Nat /\ \A k \in 1 .. n : todo[k] \in Tags
  <2> HIDE DEF todo
  <2> QED BY <1>2
<1>5. t \in X
  BY GrowsSelf DEF Growths
<1> HIDE DEF n, todo
<1>6. ASSUME NEW k \in 1 .. n, NEW v \in X
      PROVE  Extends(v, Step(v, k))
  <2>1. v \in Trees /\ Len(v) > 0
    BY <1>1, TreeParts DEF X, Growths, Grows
  <2>2. QED  BY <1>4, <2>1, ApplyTagGrows
<1>7. \A k \in 1 .. n : \A v \in X : Step(v, k) \in X
  <2> HIDE DEF Step
  <2> QED BY <1>6, ExtendsOn DEF Extends, Growths
<1> HIDE DEF Step, X
<1>8. \E g : Eq(g)
  <2>1. G \in [1 .. n -> [X -> X]]
    BY <1>7
  <2>2. PICK g : Iteration(n, X, t, G, g)
    <3> HIDE DEF G
    <3> QED BY <1>4, <1>5, <2>1, Iterates
  <2>3. ASSUME NEW k \in 1 .. n
        PROVE  g[k] = Step(g[k - 1], k)
    <3>1. k - 1 \in 0 .. n
      BY <1>4
    <3>2. QED  BY <2>2, <3>1 DEF Iteration
  <2>4. \A k \in 0 .. n : k = 0 \/ k \in 1 .. n
    BY <1>4
  <2>5. \A k \in 0 .. n : g[k] = IF k = 0 THEN t ELSE Step(g[k - 1], k)
    BY <2>2, <2>3, <2>4 DEF Iteration
  <2>6. QED  BY <2>2, <2>5 DEF Iteration
<1>9. Eq(apply)
  <2> HIDE DEF Eq
  <2> QED BY <1>8
<1>10. apply[0] = t /\ \A k \in 1 .. n : apply[k] = Step(apply[k - 1], k)
  <2> HIDE DEF apply
  <2> QED BY <1>4, <1>9
<1> HIDE DEF apply
<1>11. \A k \in 1 .. n : Extends(t, apply[k - 1]) => Extends(apply[k - 1], apply[k])
  BY <1>6, <1>10 DEF Extends, X, Growths
<1>12. ASSUME NEW m \in 0 .. n
       PROVE  Extends(t, apply[m])
  <2>1. m \in Nat /\ \A k \in 1 .. m : k \in 1 .. n
    BY <1>4
  <2>2. QED  BY <1>10, <1>11, <2>1, GrowsSelf, StepsGrow DEF Extends
<1>13. Restores(t, tags, todo, apply)
  BY <1>2, <1>3, <1>10, <1>12 DEF Restores, n, Step
<1>14. QED  BY <1>13

\* Restoring a published structure makes the tree grow.
LEMMA PersistedGrows ==
  ASSUME NEW t \in Trees, Len(t) > 0, NEW tags \in Seq(Tags)
  PROVE  Extends(t, ApplyPersisted(t, tags))
<1>1. PICK todo, apply : Restores(t, tags, todo, apply)
  BY PersistedSteps
<1>2. Len(todo) \in 0 .. Len(todo)
  BY <1>1 DEF Restores
<1>3. QED  BY <1>1, <1>2 DEF Restores

-----------------------------------------------------------------------------
(* What is published.                                                      *)

\* The path of a node is that of its parent and its name.
LEMMA PathIs ==
  ASSUME NEW t \in Trees
  PROVE  /\ PathOf(t) \in [0 .. Len(t) -> Seq(AllNames)]
         /\ \A i \in 0 .. Len(t) :
              PathOf(t)[i] = IF i <= Root THEN <<>>
                             ELSE Append(PathOf(t)[t[i].parent], t[i].name)
<1> DEFINE n == Len(t)
           D == 0 .. n
           X == Seq(AllNames)
           none == <<>>
           Body(g, i) == IF i <= Root THEN none ELSE Append(g[t[i].parent], t[i].name)
           G == [i \in D |-> [g \in [D -> X] |-> Body(g, i)]]
           Eq(f) == f = [i \in D |-> Body(f, i)]
           path == CHOOSE f : Eq(f)
           r == [i \in D |-> i]
<1>1. PathOf(t) = path
  BY DEF PathOf
<1>2. n \in Nat /\ none \in X /\ Root = 1
  BY TreeParts DEF Root
<1>3. ASSUME NEW i \in D, ~(i <= Root)
      PROVE  t[i].parent \in D /\ t[i].name \in AllNames /\ t[i].parent < i
  <2>1. i \in 1 .. n
    BY <1>2, <1>3
  <2>2. t[i].parent \in Nat /\ t[i].parent < i /\ t[i].name \in AllNames
    BY <2>1, TreeParts
  <2>3. QED  BY <1>2, <2>2
<1>4. ASSUME NEW i \in D, NEW g, i <= Root \/ g[t[i].parent] \in X
      PROVE  Body(g, i) \in X
  BY <1>2, <1>3, <1>4
<1> HIDE DEF n, X, none
<1>5. G \in [D -> [[D -> X] -> X]]
  <2>1. \A i \in D : \A g \in [D -> X] : Body(g, i) \in X
    <3> HIDE DEF D, Body
    <3> QED BY <1>3, <1>4
  <2> HIDE DEF D, Body
  <2>2. QED  BY <2>1
<1>6. ASSUME NEW i \in D, NEW g \in [D -> X], NEW h \in [D -> X],
             \A j \in D : r[j] < r[i] => g[j] = h[j]
      PROVE  G[i][g] = G[i][h]
  <2>1. Body(g, i) = Body(h, i)
    <3>1. CASE i <= Root
      BY <3>1
    <3>2. CASE ~(i <= Root)
      <4>1. t[i].parent \in D /\ r[t[i].parent] < r[i]
        BY <1>3, <3>2
      <4>2. g[t[i].parent] = h[t[i].parent]
        BY <1>6, <4>1
      <4>3. QED  BY <3>2, <4>2
    <3>3. QED  BY <3>1, <3>2
  <2> HIDE DEF D, Body
  <2>2. QED  BY <2>1
<1>7. r \in [D -> 0 .. n]
  OBVIOUS
<1>8. PICK g : Recursive(D, X, G, g)
  <2>1. X # {}
    BY <1>2
  <2>2. Founded(D, X, G, r)
    <3> HIDE DEF G, D, r
    <3> QED BY <1>6, Zenon DEF Founded
  <2>3. n \in Nat
    BY <1>2
  <2> HIDE DEF G, D, r
  <2>4. QED  BY <1>5, <1>7, <2>1, <2>2, <2>3, Recursion
<1>9. Eq(g)
  <2> HIDE DEF D, Body
  <2> QED BY <1>8 DEF Recursive
<1>10. Eq(path)
  <2> HIDE DEF Eq
  <2> QED BY <1>9
<1>11. \A i \in D : path[i] = Body(path, i)
  <2> HIDE DEF path, D, Body
  <2> QED BY <1>10
<1>12. D \subseteq {i \in D : path[i] \in X}
  <2> DEFINE S == {i \in D : path[i] \in X}
  <2> HIDE DEF path
  <2>1. ASSUME NEW i \in D, \A j \in D : j < i => j \in S
        PROVE  i \in S
    <3>1. i <= Root \/ path[t[i].parent] \in X
      BY <1>3, <2>1
    <3>2. Body(path, i) \in X
      BY <1>4, <3>1
    <3>3. QED  BY <1>11, <3>2
  <2>2. D \in SUBSET Nat
    BY <1>2
  <2> HIDE DEF S, D
  <2>3. QED  BY <2>1, <2>2, StrongInduction DEF S
<1>13. path \in [D -> X]
  <2> HIDE DEF path, D, Body
  <2> QED BY <1>10, <1>12
<1>14. QED
  <2> HIDE DEF path
  <2> QED BY <1>1, <1>11, <1>13 DEF n, X, none

\* A node's own tag, that the root has not, and the children whose tags follow.
OwnTag(t, i) ==
  IF t[i].kind = "dir"
  THEN <<[tag |-> "folder", path |-> PathOf(t)[i], content |-> None]>>
  ELSE IF t[i].content \in {Static, Local} THEN <<>>
  ELSE <<[tag |-> "x", path |-> PathOf(t)[i], content |-> t[i].content]>>
FirstTag(t, i) == IF i = Root THEN <<>> ELSE OwnTag(t, i)
Sub(t, i) ==
  Only(t[i].children, {c \in Range(t[i].children) : PathOf(t)[c][1] \notin Published})

\* What collect_persist returns for each node.
Collects(t, below) ==
  /\ \A i \in 1 .. Len(t) :
       below[i] = FirstTag(t, i)
                    \o FlattenSeq([k \in 1 .. Len(Sub(t, i)) |-> below[Sub(t, i)[k]]])
  /\ PersistTags(t) = below[Root]

\* A node's own tag is one.
LEMMA FirstTagIs ==
  ASSUME NEW t \in Trees, NEW i \in 1 .. Len(t)
  PROVE  FirstTag(t, i) \in Seq(Tags)
<1> DEFINE path == PathOf(t)
           n == Len(t)
           X == Seq(Tags)
<1>0. n \in Nat /\ Root = 1
  BY TreeParts DEF Root
<1>1. CASE i = Root
  BY <1>1 DEF FirstTag
<1>2. CASE i # Root
  <2>1. t[i].content \in Contents /\ None \in Contents /\ t[i].kind \in {"dir", "file"}
    BY TreeParts, Words
  <2>2. path[i] \in Seq(AllNames) \ {<<>>}
    <3>1. /\ i \in 0 .. n /\ ~(i <= Root) /\ t[i].parent \in 0 .. n
          /\ t[i].name \in AllNames
      BY <1>0, <1>2, TreeParts
    <3>2. /\ path \in [0 .. n -> Seq(AllNames)]
          /\ path[i] = Append(path[t[i].parent], t[i].name)
      BY <3>1, PathIs
    <3> HIDE DEF path, n
    <3>3. path[t[i].parent] \in Seq(AllNames)
      BY <3>1, <3>2
    <3>4. QED  BY <3>1, <3>2, <3>3
  <2> HIDE DEF path
  <2>3. /\ [tag |-> "folder", path |-> path[i], content |-> None] \in Tags
        /\ [tag |-> "x", path |-> path[i], content |-> t[i].content] \in Tags
    BY <2>1, <2>2 DEF Tags
  <2>4. OwnTag(t, i) \in Seq(Tags)
    BY <2>3 DEF OwnTag, path
  <2>5. QED  BY <1>2, <2>4 DEF FirstTag
<1>3. QED  BY <1>1, <1>2

\* The children whose tags follow are nodes that come later.
LEMMA SubIs ==
  ASSUME NEW t \in Trees, NEW i \in 1 .. Len(t)
  PROVE  /\ Len(Sub(t, i)) \in Nat
         /\ \A k \in 1 .. Len(Sub(t, i)) :
              /\ Sub(t, i)[k] \in 1 .. Len(t) /\ i < Sub(t, i)[k]
              /\ Sub(t, i)[k] \in Range(t[i].children)
              /\ PathOf(t)[Sub(t, i)[k]][1] \notin Published
<1> DEFINE n == Len(t)
           D == 1 .. n
<1>0. n \in Nat
  BY TreeParts
<1>1. t[i].children \in Seq(Nat)
  BY TreeParts
<1>2. /\ Sub(t, i) \in Seq(Nat) /\ Range(Sub(t, i)) \subseteq Range(t[i].children)
      /\ \A c \in Range(Sub(t, i)) : PathOf(t)[c][1] \notin Published
  BY <1>1, OnlyKeeps DEF Sub
<1>7. \A k \in 1 .. Len(Sub(t, i)) : PathOf(t)[Sub(t, i)[k]][1] \notin Published
  <2>1. \A k \in 1 .. Len(Sub(t, i)) : Sub(t, i)[k] \in Range(Sub(t, i))
    BY <1>2 DEF Range
  <2>2. QED  BY <1>2, <2>1
<1>3. \A k \in 1 .. Len(Sub(t, i)) : Sub(t, i)[k] \in Range(t[i].children)
  <2>1. \A k \in 1 .. Len(Sub(t, i)) : Sub(t, i)[k] \in Range(Sub(t, i))
    BY <1>2 DEF Range
  <2>2. QED  BY <1>2, <2>1
<1>4. ASSUME NEW c \in Range(t[i].children)
      PROVE  c \in D /\ i < c
  <2>1. PICK k \in 1 .. Len(t[i].children) : c = t[i].children[k]
    <3> DEFINE s == t[i].children
    <3>1. DOMAIN s = 1 .. Len(s) /\ c \in Range(s)
      BY <1>1
    <3> HIDE DEF s
    <3>2. \E k \in 1 .. Len(s) : c = s[k]
      BY <3>1 DEF Range
    <3>3. QED  BY <3>2 DEF s
  <2>2. c \in 1 .. n /\ t[c].parent = i
    BY <2>1, TreeParts
  <2>3. t[c].parent < c
    BY <2>2, TreeParts
  <2>4. QED  BY <2>2, <2>3
<1>5. \A k \in 1 .. Len(Sub(t, i)) : Sub(t, i)[k] \in D /\ i < Sub(t, i)[k]
  BY <1>3, <1>4
<1>6. QED  BY <1>0, <1>2, <1>3, <1>5, <1>7

\* collect_persist's recursion.
LEMMA TagsSteps ==
  ASSUME NEW t \in Trees, Len(t) > 0
  PROVE  \E below : Collects(t, below)
<1> DEFINE path == PathOf(t)
           own(i) == OwnTag(t, i)
           first(i) == IF i = Root THEN <<>> ELSE own(i)
           sub(i) == Only(t[i].children,
                          {c \in Range(t[i].children) : path[c][1] \notin Published})
           n == Len(t)
           D == 1 .. n
           X == Seq(Tags)
           Rest(g, i) == [k \in 1 .. Len(sub(i)) |-> g[sub(i)[k]]]
           Body(g, i) == first(i) \o FlattenSeq(Rest(g, i))
           G == [i \in D |-> [g \in [D -> X] |-> Body(g, i)]]
           Eq(f) == f = [i \in D |-> Body(f, i)]
           below == CHOOSE f : Eq(f)
           r == [i \in D |-> n - i]
<1>1. PersistTags(t) = below[Root]
  BY DEF PersistTags, OwnTag
<1>2. n \in Nat /\ Root = 1 /\ Root \in D
  BY TreeParts DEF Root
<1>3. \A i \in D : first(i) \in X
  BY FirstTagIs DEF FirstTag
<1>4. \A i \in D : /\ Len(sub(i)) \in Nat
                   /\ \A k \in 1 .. Len(sub(i)) : sub(i)[k] \in D /\ r[sub(i)[k]] < r[i]
  <2>1. \A i \in D : sub(i) = Sub(t, i)
    BY DEF Sub
  <2> HIDE DEF sub
  <2>2. \A i \in D : /\ Len(sub(i)) \in Nat
                     /\ \A k \in 1 .. Len(sub(i)) : sub(i)[k] \in D /\ i < sub(i)[k]
    BY <2>1, SubIs
  <2>3. QED  BY <1>2, <2>2
<1>5. ASSUME NEW i \in D, NEW g, \A k \in 1 .. Len(sub(i)) : g[sub(i)[k]] \in X
      PROVE  Body(g, i) \in X
  <2>1. Rest(g, i) \in Seq(X)
    <3> HIDE DEF sub, X
    <3> QED BY <1>4, <1>5
  <2>2. FlattenSeq(Rest(g, i)) \in X
    <3> HIDE DEF Rest
    <3> QED BY <2>1, FlatType
  <2> HIDE DEF first, Rest
  <2>3. QED  BY <1>3, <2>2
<1> HIDE DEF n, X, first, sub, path
<1>6. G \in [D -> [[D -> X] -> X]]
  <2>1. \A i \in D : \A g \in [D -> X] : Body(g, i) \in X
    <3>1. \A i \in D : \A g \in [D -> X] : \A k \in 1 .. Len(sub(i)) : g[sub(i)[k]] \in X
      BY <1>4
    <3> HIDE DEF D, Body
    <3> QED BY <1>5, <3>1
  <2> HIDE DEF D, Body
  <2>2. QED  BY <2>1
<1>7. Founded(D, X, G, r)
  <2>1. ASSUME NEW i \in D, NEW g \in [D -> X], NEW h \in [D -> X],
               \A j \in D : r[j] < r[i] => g[j] = h[j]
        PROVE  G[i][g] = G[i][h]
    <3>1. \A k \in 1 .. Len(sub(i)) : g[sub(i)[k]] = h[sub(i)[k]]
      <4> HIDE DEF D, r
      <4> QED BY <1>4, <2>1
    <3>2. Rest(g, i) = Rest(h, i)
      BY <3>1
    <3>3. Body(g, i) = Body(h, i)
      <4> HIDE DEF Rest
      <4> QED BY <3>2
    <3> HIDE DEF D, Body
    <3>4. QED  BY <3>3
  <2> HIDE DEF G, D, r
  <2>2. QED  BY <2>1, Zenon DEF Founded
<1>8. r \in [D -> 0 .. n]
  BY <1>2
<1>9. PICK g : Recursive(D, X, G, g)
  <2>1. X # {}
    BY <1>2, <1>3
  <2> HIDE DEF G, D, r
  <2>2. QED  BY <1>2, <1>6, <1>7, <1>8, <2>1, Recursion
<1>10. Eq(g)
  <2> HIDE DEF D, Body
  <2> QED BY <1>9 DEF Recursive
<1>11. Eq(below)
  <2> HIDE DEF Eq
  <2> QED BY <1>10
<1>12. \A i \in D : below[i] = Body(below, i)
  <2> HIDE DEF below, D, Body
  <2> QED BY <1>11
<1> HIDE DEF below
<1>13. Collects(t, below)
  <2>1. \A i \in D : sub(i) = Sub(t, i) /\ first(i) = FirstTag(t, i)
    BY DEF Sub, FirstTag, sub, first, path
  <2>2. ASSUME NEW i \in D
        PROVE  below[i] = FirstTag(t, i)
                 \o FlattenSeq([k \in 1 .. Len(Sub(t, i)) |-> below[Sub(t, i)[k]]])
    BY <1>12, <2>1
  <2>3. QED  BY <1>1, <2>2 DEF Collects, n
<1>14. QED  BY <1>13

\* What is published has a property that each node's own tag has, of those nodes
\* that the recursion comes to.
LEMMA TagsBelow ==
  ASSUME NEW t \in Trees, Len(t) > 0, NEW below, Collects(t, below), NEW U,
         NEW J \in SUBSET (1 .. Len(t)), Root \in J,
         \A i \in J : FirstTag(t, i) \in Seq(U),
         \A i \in J : \A c \in Range(t[i].children) :
           PathOf(t)[c][1] \notin Published => c \in J
  PROVE  \A i \in J : below[i] \in Seq(U)
<1> DEFINE n == Len(t)
<1>2. n \in Nat /\ Root = 1 /\ J \subseteq 1 .. n
  BY TreeParts DEF Root
<1> DEFINE S == {m \in 0 .. n : \A i \in J : n - i < m => below[i] \in Seq(U)}
<1>3. 0 \in S
  <2>1. \A i \in J : ~(n - i < 0)
    BY <1>2
  <2>2. 0 \in 0 .. n
    BY <1>2
  <2>3. QED  BY <2>1, <2>2
<1>4. ASSUME NEW m \in 1 .. n, m - 1 \in S
      PROVE  m \in S
  <2>1. ASSUME NEW i \in J, n - i < m
        PROVE  below[i] \in Seq(U)
    <3> DEFINE rest == [k \in 1 .. Len(Sub(t, i)) |-> below[Sub(t, i)[k]]]
    <3>1. ASSUME NEW k \in 1 .. Len(Sub(t, i))
          PROVE  below[Sub(t, i)[k]] \in Seq(U)
      <4> DEFINE c == Sub(t, i)[k]
      <4>0. /\ c \in 1 .. n /\ i < c /\ c \in Range(t[i].children)
            /\ PathOf(t)[c][1] \notin Published
        BY <1>2, SubIs
      <4>1. c \in 1 .. n /\ i < c /\ c \in J
        <5> HIDE DEF c
        <5> QED BY <4>0
      <4>2. n - Sub(t, i)[k] < m - 1
        BY <1>2, <2>1, <4>1
      <4>3. QED  BY <1>4, <4>1, <4>2
    <3>2. rest \in Seq(Seq(U))
      BY <1>2, <3>1, SubIs
    <3>3. FlattenSeq(rest) \in Seq(U)
      <4> HIDE DEF rest
      <4> QED BY <3>2, FlatType
    <3>4. below[i] = FirstTag(t, i) \o FlattenSeq(rest)
      BY <1>2 DEF Collects
    <3> HIDE DEF rest
    <3>5. QED  BY <3>3, <3>4
  <2>2. m \in 0 .. n
    BY <1>2
  <2>3. QED  BY <2>1, <2>2
<1>5. 0 .. n \subseteq S
  <2> HIDE DEF S
  <2> QED BY <1>2, <1>3, <1>4, IntervalInduction
<1>6. n \in S
  <2> HIDE DEF S
  <2> QED BY <1>2, <1>5
<1>7. \A i \in J : n - i < n
  BY <1>2
<1>8. QED  BY <1>6, <1>7

\* The whole of it has that property.
LEMMA TagsFrom ==
  ASSUME NEW t \in Trees, Len(t) > 0, NEW U, NEW J \in SUBSET (1 .. Len(t)), Root \in J,
         \A i \in J : FirstTag(t, i) \in Seq(U),
         \A i \in J : \A c \in Range(t[i].children) :
           PathOf(t)[c][1] \notin Published => c \in J
  PROVE  PersistTags(t) \in Seq(U)
<1>1. PICK below : Collects(t, below)
  BY TagsSteps
<1>2. below[Root] \in Seq(U)
  BY <1>1, TagsBelow
<1>3. QED  BY <1>1, <1>2 DEF Collects

\* What is published are tags.
LEMMA PublishedTags ==
  ASSUME NEW t \in Trees, Len(t) > 0
  PROVE  PersistTags(t) \in Seq(Tags)
<1> DEFINE J == 1 .. Len(t)
<1>1. J \in SUBSET (1 .. Len(t)) /\ Root \in J
  BY TreeParts DEF Root
<1>2. ASSUME NEW i \in J, NEW c \in Range(t[i].children)
      PROVE  c \in J
  <2>1. t[i].children \in Seq(Nat)
    BY TreeParts
  <2>2. PICK k \in 1 .. Len(t[i].children) : c = t[i].children[k]
    BY <2>1 DEF Range
  <2>3. QED  BY <2>2, TreeParts
<1>3. \A i \in J : FirstTag(t, i) \in Seq(Tags)
  BY FirstTagIs
<1> HIDE DEF J
<1>4. QED  BY <1>1, <1>2, <1>3, TagsFrom

-----------------------------------------------------------------------------
(* What is taken away and written over.                                    *)

\* A directory may lose entries, a node may have other contents.
LEMMA RetouchedIs ==
  ASSUME NEW t \in Trees, NEW i \in 1 .. Len(t), NEW y \in Nodes,
         y.kind = t[i].kind, y.parent = t[i].parent, y.lazy => t[i].lazy,
         IsInjective(y.children), Range(y.children) \subseteq Range(t[i].children),
         y.kind = "file" => y.children = <<>>
  PROVE  /\ [t EXCEPT ![i] = y] \in Trees
         /\ Len([t EXCEPT ![i] = y]) = Len(t)
         /\ [t EXCEPT ![i] = y][i] = y
         /\ \A j \in 1 .. Len(t) : j # i => [t EXCEPT ![i] = y][j] = t[j]
         /\ \A j \in 1 .. Len(t) : [t EXCEPT ![i] = y][j].kind = t[j].kind
<1> DEFINE u == [t EXCEPT ![i] = y]
<1>1. /\ t \in Seq(Nodes) /\ Len(t) \in Nat
      /\ t[i].children \in Seq(Nat)
  BY TreeParts
<1>2. /\ u \in Seq(Nodes) /\ Len(u) = Len(t) /\ u[i] = y
      /\ \A j \in 1 .. Len(t) : j # i => u[j] = t[j]
  BY <1>1
<1> HIDE DEF u
<1>3. \A j \in 1 .. Len(t) : u[j].kind = t[j].kind /\ u[j].parent = t[j].parent
  BY <1>2
<1>4. ASSUME NEW k \in 1 .. Len(y.children)
      PROVE  y.children[k] \in 1 .. Len(t) /\ t[y.children[k]].parent = i
  <2>1. y.children \in Seq(Nat)
    BY DEF Nodes
  <2>2. y.children[k] \in Range(y.children)
    BY <2>1 DEF Range
  <2>3. y.children[k] \in Range(t[i].children)
    BY <2>2
  <2>4. PICK l \in 1 .. Len(t[i].children) : y.children[k] = t[i].children[l]
    <3> DEFINE c == y.children[k]
    <3>1. c \in Range(t[i].children)
      BY <2>3
    <3> HIDE DEF c
    <3>2. \E l \in 1 .. Len(t[i].children) : c = t[i].children[l]
      BY <1>1, <3>1 DEF Range
    <3>3. QED  BY <3>2 DEF c
  <2>5. QED  BY <2>4, TreeParts
<1>5. ASSUME NEW j \in 1 .. Len(u)
      PROVE  /\ u[j].parent < j
             /\ u[j].kind = "file" => u[j].children = <<>> /\ ~u[j].lazy
             /\ IsInjective(u[j].children)
             /\ \A k \in 1 .. Len(u[j].children) :
                  /\ u[j].children[k] \in 1 .. Len(u)
                  /\ u[u[j].children[k]].parent = j
  <2>1. CASE j = i
    <3>1. /\ u[j].parent < j
          /\ u[j].kind = "file" => u[j].children = <<>> /\ ~u[j].lazy
      BY <1>2, <2>1, TreeParts
    <3>2. \A k \in 1 .. Len(y.children) :
            y.children[k] \in 1 .. Len(u) /\ u[y.children[k]].parent = i
      BY <1>2, <1>3, <1>4
    <3>3. QED  BY <1>2, <2>1, <3>1, <3>2
  <2>2. CASE j # i
    <3>1. u[j] = t[j] /\ j \in 1 .. Len(t)
      BY <1>2, <2>2
    <3>2. \A k \in 1 .. Len(t[j].children) :
            /\ t[j].children[k] \in 1 .. Len(t)
            /\ t[t[j].children[k]].parent = j
      BY <3>1, TreeParts
    <3>3. \A k \in 1 .. Len(t[j].children) :
            /\ t[j].children[k] \in 1 .. Len(u)
            /\ u[t[j].children[k]].parent = j
      BY <1>2, <1>3, <3>2
    <3>4. /\ t[j].parent < j
          /\ t[j].kind = "file" => t[j].children = <<>> /\ ~t[j].lazy
          /\ IsInjective(t[j].children)
      BY <3>1, TreeParts
    <3>5. QED  BY <3>1, <3>3, <3>4
  <2>3. QED  BY <2>1, <2>2
<1>6. u \in Trees
  BY <1>2, <1>5, TreeIs
<1>7. QED  BY <1>2, <1>3, <1>6 DEF u

\* u has the nodes of t, perhaps with others after them.
Keeps(t, u) ==
  /\ u \in Trees /\ Len(t) <= Len(u)
  /\ \A i \in 1 .. Len(t) : u[i].kind = t[i].kind

\* u is t but for c in directory p.
Dropped(t, p, c, u) ==
  /\ \A i \in 1 .. Len(t) : i # p => u[i] = t[i]
  /\ u[p].children = Only(t[p].children, Range(t[p].children) \ {c})
  /\ Len(u) = Len(t)

\* A directory that loses an entry loses that one.
LEMMA DropKeeps ==
  ASSUME NEW t \in Trees, NEW p \in 1 .. Len(t), NEW c
  PROVE  Keeps(t, Drop(t, p, c)) /\ Dropped(t, p, c, Drop(t, p, c))
<1> DEFINE o == Only(t[p].children, Range(t[p].children) \ {c})
           y == [t[p] EXCEPT !.children = o]
           u == [t EXCEPT ![p] = y]
<1>1. /\ Len(t) \in Nat /\ t[p] \in Nodes /\ t[p].children \in Seq(Nat)
      /\ IsInjective(t[p].children)
      /\ t[p].kind = "file" => t[p].children = <<>> /\ ~t[p].lazy
  BY TreeParts
<1>2. /\ o \in Seq(Nat) /\ IsInjective(o)
      /\ Range(o) \subseteq Range(t[p].children)
      /\ Len(o) <= Len(t[p].children)
  BY <1>1, OnlyKeeps
<1>3. Drop(t, p, c) = u
  BY DEF Drop
<1> HIDE DEF o
<1>4. /\ y \in Nodes /\ y.kind = t[p].kind /\ y.parent = t[p].parent
      /\ y.lazy = t[p].lazy /\ y.children = o
  BY <1>1, <1>2 DEF Nodes
<1> HIDE DEF y
<1>5. y.kind = "file" => y.children = <<>>
  <2>1. y.kind = "file" => Len(o) = 0
    BY <1>1, <1>2, <1>4
  <2>2. QED  BY <1>2, <1>4, <2>1
<1>6. /\ u \in Trees /\ Len(u) = Len(t) /\ u[p] = y
      /\ \A j \in 1 .. Len(t) : j # p => u[j] = t[j]
      /\ \A j \in 1 .. Len(t) : u[j].kind = t[j].kind
  BY <1>2, <1>4, <1>5, RetouchedIs
<1> HIDE DEF u
<1>7. QED  BY <1>1, <1>3, <1>4, <1>6 DEF Keeps, Dropped, o

\* The directories of u list what those of t do.
SameLists(t, u) ==
  Len(u) = Len(t) /\ \A j \in 1 .. Len(t) : u[j].children = t[j].children

\* A node that is given other contents, or its mark taken, is what it was but
\* for that.
LEMMA MarkKeeps ==
  ASSUME NEW t \in Trees, NEW i \in 1 .. Len(t), NEW c \in Contents
  PROVE  /\ Keeps(t, SetContent(t, i, c)) /\ Keeps(t, [t EXCEPT ![i].lazy = FALSE])
         /\ SameLists(t, SetContent(t, i, c)) /\ SameLists(t, [t EXCEPT ![i].lazy = FALSE])
<1> DEFINE y == [t[i] EXCEPT !.content = c]
           z == [t[i] EXCEPT !.lazy = FALSE]
<1>1. /\ Len(t) \in Nat /\ t[i] \in Nodes /\ IsInjective(t[i].children)
      /\ t[i].kind = "file" => t[i].children = <<>> /\ ~t[i].lazy
  BY TreeParts
<1>2. /\ y \in Nodes /\ y.kind = t[i].kind /\ y.parent = t[i].parent
      /\ y.lazy = t[i].lazy /\ y.children = t[i].children
      /\ z \in Nodes /\ z.kind = t[i].kind /\ z.parent = t[i].parent
      /\ ~z.lazy /\ z.children = t[i].children
  BY <1>1 DEF Nodes
<1>3. SetContent(t, i, c) = [t EXCEPT ![i] = y] /\ [t EXCEPT ![i].lazy = FALSE] = [t EXCEPT ![i] = z]
  BY DEF SetContent
<1> HIDE DEF y, z
<1>4. ASSUME NEW x \in {y, z}
      PROVE  Keeps(t, [t EXCEPT ![i] = x]) /\ SameLists(t, [t EXCEPT ![i] = x])
  <2> DEFINE u == [t EXCEPT ![i] = x]
  <2>1. /\ x \in Nodes /\ x.kind = t[i].kind /\ x.parent = t[i].parent
        /\ (x.lazy => t[i].lazy) /\ x.children = t[i].children
    BY <1>2
  <2>2. /\ u \in Trees /\ Len(u) = Len(t) /\ u[i] = x
        /\ \A j \in 1 .. Len(t) : j # i => u[j] = t[j]
        /\ \A j \in 1 .. Len(t) : u[j].kind = t[j].kind
    BY <1>1, <2>1, RetouchedIs
  <2> HIDE DEF u
  <2>3. \A j \in 1 .. Len(t) : u[j].children = t[j].children
    BY <2>1, <2>2
  <2>4. QED  BY <1>1, <2>2, <2>3 DEF Keeps, SameLists, u
<1>5. QED  BY <1>3, <1>4

-----------------------------------------------------------------------------
(* Pages.                                                                  *)

\* Where a page begins: after the cursor.
From == IF cursor = None THEN 1 ELSE SelectInSeq(srv, LAMBDA b : b = cursor) + 1

\* The position after the cursor's is one of the server's, or the next.
LEMMA FromIs ==
  ASSUME srv \in Seq(Blobs), cursor = None \/ cursor \in Range(srv)
  PROVE  /\ From \in 1 .. Len(srv) + 1
         /\ cursor # None => From \in 2 .. Len(srv) + 1 /\ srv[From - 1] = cursor
<1> DEFINE I == {i \in 1 .. Len(srv) : srv[i] = cursor}
<1>1. Len(srv) \in Nat /\ DOMAIN srv = 1 .. Len(srv)
  OBVIOUS
<1>2. CASE cursor = None
  BY <1>1, <1>2 DEF From
<1>3. CASE cursor # None
  <2>1. I # {}
    BY <1>1, <1>3 DEF Range
  <2>2. Min(I) \in I
    <3>1. I \in SUBSET Nat
      BY <1>1
    <3> HIDE DEF I
    <3>2. QED  BY <2>1, <3>1, MinIs
  <2>3. From = Min(I) + 1
    BY <1>3, <2>1 DEF From, SelectInSeq
  <2> DEFINE m == Min(I)
  <2>4. m \in 1 .. Len(srv) /\ srv[m] = cursor
    BY <2>2
  <2> HIDE DEF m
  <2>5. From = m + 1
    BY <2>3 DEF m
  <2>6. QED  BY <1>1, <2>4, <2>5
<1>4. QED  BY <1>2, <1>3

\* A page has the server's blobs from there on, as many as it takes; a full
\* one is followed by another after its last.
LEMMA PageIs ==
  ASSUME srv \in Seq(Blobs), cursor = None \/ cursor \in Range(srv)
  PROVE  /\ Page \in Seq(Blobs) /\ Len(Page) \in 0 .. PageSize
         /\ From + Len(Page) - 1 <= Len(srv)
         /\ \A i \in 1 .. Len(Page) : Page[i] = srv[From + i - 1]
         /\ \/ /\ NextCursor = None /\ From + Len(Page) - 1 = Len(srv)
            \/ /\ NextCursor = srv[From + Len(Page) - 1] /\ NextCursor \in Blobs
               /\ Len(Page) = PageSize /\ From + Len(Page) - 1 \in 1 .. Len(srv)
<1> DEFINE n == Len(srv)
           to == IF From + PageSize - 1 < n THEN From + PageSize - 1 ELSE n
<1>1. n \in Nat /\ PageSize \in Nat /\ PageSize > 0 /\ From \in 1 .. n + 1
  BY FromIs, MountAssumption
<1>2. Page = SubSeq(srv, From, to)
  BY DEF Page, From
<1>3. to \in From - 1 .. n /\ to - From + 1 \in 0 .. PageSize
  BY <1>1
<1>4. (to - From + 1 < PageSize) => to = n
  BY <1>1
<1> HIDE DEF to, n
<1>5. /\ Page \in Seq(Blobs) /\ Len(Page) = to - From + 1
      /\ \A i \in 1 .. Len(Page) : Page[i] = srv[From + i - 1]
  <2>1. \A i \in From .. to : srv[i] \in Blobs
    BY <1>1, <1>3 DEF n
  <2>2. QED  BY <1>1, <1>2, <1>3, <2>1 DEF n
<1>6. From + Len(Page) - 1 = to /\ Len(Page) \in 0 .. PageSize
  BY <1>1, <1>3, <1>5
<1>7. CASE Len(Page) >= PageSize
  <2>1. NextCursor = Page[Len(Page)] /\ Len(Page) \in 1 .. Len(Page) /\ Len(Page) = PageSize
    BY <1>1, <1>6, <1>7 DEF NextCursor, Last
  <2>2. NextCursor = srv[to] /\ to \in 1 .. n
    BY <1>1, <1>3, <1>5, <1>6, <2>1
  <2>3. srv[to] \in Blobs
    BY <2>2 DEF n
  <2>4. QED  BY <1>3, <1>5, <1>6, <2>1, <2>2, <2>3 DEF n
<1>8. CASE ~(Len(Page) >= PageSize)
  <2>1. NextCursor = None
    BY <1>8 DEF NextCursor
  <2>2. to = n
    BY <1>1, <1>3, <1>4, <1>5, <1>8
  <2>3. QED  BY <1>3, <1>5, <1>6, <2>1, <2>2 DEF n
<1>9. QED  BY <1>7, <1>8

-----------------------------------------------------------------------------
(* The types and the shape of the tree.                                    *)

Handles == [dir : Nat, offset : Nat, seen : Seq(Nat), start : SUBSET Nat,
            intact : BOOLEAN, done : BOOLEAN]

\* The listing of the server: it has each blob once, and there are pages left
\* to ask for while it lasts.
ListInv ==
  /\ phase \in {"down", "list", "listed", "up"}
  /\ srv \in Seq(Blobs) /\ IsInjective(srv) /\ all \in Seq(Blobs)
  /\ cursor \in Blobs \union {None}
  /\ pages \in 0 .. MaxPages /\ (phase = "list" => pages < MaxPages)
  /\ max \in Limits \union {0}
  /\ steady \subseteq Blobs
  /\ ops \in 0 .. MaxOps /\ mounts \in 0 .. MaxMounts

\* The tree is there when mounted, and a clone or a listing is of one of its
\* directories.
TreeInv ==
  /\ tree \in Trees
  /\ phase = "up" => Len(tree) > 0
  /\ phase # "up" => cloning = 0 /\ handle = NoHandle
  /\ cloning \in {0} \union {d \in DOMAIN tree : IsDir(tree, d)}
  /\ disk \in {"none", "partial", "whole"}
  /\ handle \in Handles /\ handle.dir \in {0} \union DOMAIN tree
  /\ handle.dir = 0 => handle = NoHandle
  /\ event \in Seq(Tags)

TypeInv == ListInv /\ TreeInv

\* The empty sequence is a tree.
LEMMA NoTree == <<>> \in Trees
<1> DEFINE t == <<>>
<1>1. t \in Seq(Nodes) /\ 1 .. Len(t) = {}
  OBVIOUS
<1> HIDE DEF t
<1>2. t \in Trees
  BY <1>1, TreeIs
<1>3. QED  BY <1>2 DEF t

\* Nothing is mounted or listed at first.
LEMMA TypeInit == Init => TypeInv
<1> SUFFICES ASSUME Init PROVE TypeInv
  OBVIOUS
<1>1. MaxPages \in Nat /\ MaxOps \in Nat /\ MaxMounts \in Nat
  BY MountAssumption
<1>2. IsInjective(<<>>)
  BY DEF IsInjective
<1>3. NoHandle \in Handles /\ NoHandle.dir = 0
  BY DEF NoHandle, Handles
<1>4. ListInv
  BY <1>1, <1>2 DEF Init, ListInv
<1>5. TreeInv
  BY <1>3, NoTree DEF Init, TreeInv
<1>6. QED  BY <1>4, <1>5 DEF TypeInv

\* What every step of the listing keeps.
LEMMA ListSteps ==
  ASSUME TypeInv, Next
  PROVE  ListInv'
<1>1. /\ MaxPages \in Nat /\ MaxPages > 0 /\ Limits \subseteq Nat
      /\ MaxOps \in Nat /\ MaxMounts \in Nat
  BY MountAssumption
<1>2. /\ phase \in {"down", "list", "listed", "up"}
      /\ srv \in Seq(Blobs) /\ IsInjective(srv) /\ all \in Seq(Blobs)
      /\ cursor \in Blobs \union {None}
      /\ pages \in 0 .. MaxPages /\ (phase = "list" => pages < MaxPages)
      /\ max \in Limits \union {0} /\ steady \subseteq Blobs
      /\ ops \in 0 .. MaxOps /\ mounts \in 0 .. MaxMounts
  BY DEF TypeInv, ListInv
<1>3. IsInjective(<<>>) /\ <<>> \in Seq(Blobs)
  BY DEF IsInjective
<1>4. CASE StartMount
  <2>1. srv' \in Seq(Blobs) /\ IsInjective(srv')
    BY <1>4, BlobAssumption DEF StartMount
  <2>2. steady' \subseteq Blobs
    <3>1. steady' = Range(srv')
      BY <1>4 DEF StartMount
    <3>2. QED  BY <2>1, <3>1 DEF Range
  <2>3. mounts' \in 0 .. MaxMounts
    BY <1>1, <1>2, <1>4 DEF StartMount
  <2>4. QED  BY <1>1, <1>2, <1>3, <1>4, <2>1, <2>2, <2>3 DEF StartMount, ListInv, treeVars
<1>5. ASSUME NEW b \in Blobs, Arrives(b)
      PROVE  ListInv'
  <2>1. srv' = <<b>> \o srv /\ b \notin Range(srv)
    BY <1>5 DEF Arrives
  <2>2. srv' \in Seq(Blobs) /\ DOMAIN srv' = 1 .. Len(srv) + 1 /\ Len(srv) \in Nat
    BY <1>2, <2>1
  <2>3. srv'[1] = b /\ \A i \in 2 .. Len(srv) + 1 : srv'[i] = srv[i - 1]
    BY <1>2, <2>1
  <2>4. IsInjective(srv')
    <3>1. \A i \in 1 .. Len(srv) : srv[i] # b
      BY <1>2, <2>1 DEF Range
    <3>2. \A i, j \in 1 .. Len(srv) : srv[i] = srv[j] => i = j
      BY <1>2 DEF IsInjective
    <3>3. \A i \in 1 .. Len(srv) + 1 : i = 1 \/ (i \in 2 .. Len(srv) + 1 /\ i - 1 \in 1 .. Len(srv))
      BY <2>2
    <3>4. \A i, j \in 1 .. Len(srv) + 1 : srv'[i] = srv'[j] => i = j
      <4>1. \A i, j \in 2 .. Len(srv) + 1 : srv'[i] = srv'[j] => i = j
        BY <2>2, <2>3, <3>2
      <4>2. \A i \in 2 .. Len(srv) + 1 : srv'[i] # srv'[1]
        BY <2>2, <2>3, <3>1
      <4>3. QED  BY <3>3, <4>1, <4>2
    <3>5. QED  BY <2>2, <3>4 DEF IsInjective
  <2>5. QED  BY <1>2, <1>5, <2>2, <2>4 DEF Arrives, ListInv
<1>6. ASSUME NEW b \in Blobs, Vanishes(b)
      PROVE  ListInv'
  <2>1. srv' = Only(srv, Range(srv) \ {b})
    BY <1>6 DEF Vanishes
  <2>2. srv' \in Seq(Blobs) /\ IsInjective(srv')
    BY <1>2, <2>1, OnlyKeeps
  <2>3. QED  BY <1>2, <1>6, <2>2 DEF Vanishes, ListInv
<1>7. CASE ListPage
  <2> DEFINE got == all \o Page
  <2>1. Page \in Seq(Blobs) /\ NextCursor \in Blobs \union {None}
    <3>1. cursor = None \/ cursor \in Range(srv)
      BY <1>7 DEF ListPage
    <3>2. QED  BY <1>2, <3>1, PageIs
  <2>2. got \in Seq(Blobs)
    BY <1>2, <2>1
  <2>3. pages' = pages + 1 /\ cursor' = NextCursor /\ phase = "list"
    BY <1>7 DEF ListPage
  <2>4. all' \in Seq(Blobs) /\ phase' \in {"list", "listed"} /\ (phase' = "list" => pages' # MaxPages)
    <3>1. CASE max > 0 /\ Len(got) >= max
      <4>1. all' = SubSeq(got, 1, max) /\ phase' = "listed"
        BY <1>7, <3>1 DEF ListPage
      <4> HIDE DEF got
      <4>2. SubSeq(got, 1, max) \in Seq(Blobs)
        BY <1>1, <1>2, <2>2, <3>1
      <4>3. QED  BY <4>1, <4>2
    <3>2. CASE ~(max > 0 /\ Len(got) >= max)
      <4>1. all' = got /\ phase' = IF NextCursor = None \/ pages' = MaxPages THEN "listed" ELSE "list"
        BY <1>7, <3>2 DEF ListPage
      <4> HIDE DEF got
      <4>2. QED  BY <2>2, <4>1
    <3>3. QED  BY <3>1, <3>2
  <2>5. pages' \in 0 .. MaxPages /\ (phase' = "list" => pages' < MaxPages)
    BY <1>1, <1>2, <2>3, <2>4
  <2>6. QED  BY <1>2, <1>7, <2>1, <2>3, <2>4, <2>5 DEF ListPage, ListInv
<1>8. CASE ListFails
  BY <1>2, <1>3, <1>8 DEF ListFails, ListInv
<1>9. CASE MountUp
  BY <1>1, <1>2, <1>3, <1>9 DEF MountUp, ListInv
<1>10. CASE Unmount \/ Kill
  <2>1. /\ phase' = "down" /\ srv' = <<>> /\ all' = <<>> /\ cursor' = None
        /\ pages' = 0 /\ max' = 0 /\ steady' = {} /\ UNCHANGED <<ops, mounts>>
    BY <1>10 DEF Unmount, Kill, Down
  <2>2. QED  BY <1>1, <1>2, <1>3, <2>1 DEF ListInv
<1>11. CASE UNCHANGED <<phase, listVars, mounts>> /\ (ops' = ops \/ UserOp)
  <2>1. ops' \in 0 .. MaxOps
    BY <1>1, <1>2, <1>11 DEF UserOp
  <2>2. QED  BY <1>2, <1>11, <2>1 DEF listVars, ListInv
<1>12. ASSUME NEW d, NEW n, Mkdir(d, n) \/ Create(d, n) \/ Unlink(d, n) \/ Rmdir(d, n)
       PROVE  ListInv'
  <2>1. UNCHANGED <<phase, listVars, mounts>> /\ UserOp
    BY <1>12 DEF Mkdir, Create, Unlink, Rmdir
  <2>2. QED  BY <1>11, <2>1
<1>13. ASSUME NEW d, Opendir(d) \/ TakeLazy(d) \/ \E b \in Blobs : Uploaded(d, b)
       PROVE  ListInv'
  <2>1. UNCHANGED <<phase, listVars, mounts>> /\ (ops' = ops \/ UserOp)
    BY <1>13 DEF Opendir, TakeLazy, Uploaded
  <2>2. QED  BY <1>11, <2>1
<1>14. CASE Cloned \/ CloneFails \/ Readdir \/ Closedir
  <2>1. UNCHANGED <<phase, listVars, mounts>> /\ ops' = ops
    BY <1>14 DEF Cloned, CloneFails, Readdir, Closedir
  <2>2. QED  BY <1>11, <2>1
<1>15. QED  BY <1>4, <1>5, <1>6, <1>7, <1>8, <1>9, <1>10, <1>12, <1>13, <1>14 DEF Next

\* What the user is given to work in are directories of the tree.
LEMMA UserDirsAre ==
  ASSUME tree \in Trees, NEW d \in UserDirs
  PROVE  d \in 1 .. Len(tree) /\ IsDir(tree, d)
BY DEF UserDirs, Linked

\* A tree that keeps its nodes keeps what clones and listings are of.
LEMMA TreeKept ==
  ASSUME TreeInv, Keeps(tree, tree'), phase = "up", phase' = "up",
         cloning' \in {cloning, 0} \/ (cloning' \in DOMAIN tree /\ IsDir(tree, cloning')),
         disk' \in {"none", "partial", "whole"}, handle' \in Handles,
         handle'.dir = handle.dir, handle.dir = 0 => handle' = NoHandle, event' = event
  PROVE  TreeInv'
<1>1. /\ tree \in Trees /\ Len(tree) > 0
      /\ cloning \in {0} \union {d \in DOMAIN tree : IsDir(tree, d)}
      /\ handle.dir \in {0} \union DOMAIN tree /\ event \in Seq(Tags)
  BY DEF TreeInv
<1>2. /\ tree' \in Trees /\ Len(tree) <= Len(tree')
      /\ \A i \in 1 .. Len(tree) : tree'[i].kind = tree[i].kind
  BY DEF Keeps
<1>3. /\ Len(tree) \in Nat /\ DOMAIN tree = 1 .. Len(tree)
      /\ Len(tree') \in Nat /\ DOMAIN tree' = 1 .. Len(tree')
  BY <1>1, <1>2, TreeParts
<1>4. \A d \in DOMAIN tree : d \in DOMAIN tree'
  BY <1>2, <1>3
<1>5. \A d \in DOMAIN tree : IsDir(tree, d) => IsDir(tree', d)
  BY <1>2, <1>3, <1>4 DEF IsDir
<1>6. cloning' \in {0} \union {d \in DOMAIN tree' : IsDir(tree', d)}
  BY <1>1, <1>4, <1>5
<1>7. handle'.dir \in {0} \union DOMAIN tree'
  BY <1>1, <1>4
<1>8. Len(tree') > 0
  BY <1>1, <1>2, <1>3
<1>9. QED  BY <1>1, <1>2, <1>6, <1>7, <1>8 DEF TreeInv

\* Growing keeps nodes.
LEMMA GrowsKeeps ==
  ASSUME NEW t \in Trees, NEW u, Extends(t, u)
  PROVE  Keeps(t, u)
BY DEF Extends, Grows, Keeps

\* What every step of the mounted tree keeps.
LEMMA TreeSteps ==
  ASSUME TypeInv, Next
  PROVE  TreeInv'
<1>1. TreeInv /\ ListInv
  BY DEF TypeInv
<1>2. /\ tree \in Trees /\ (phase = "up" => Len(tree) > 0)
      /\ (phase # "up" => cloning = 0 /\ handle = NoHandle)
      /\ cloning \in {0} \union {d \in DOMAIN tree : IsDir(tree, d)}
      /\ disk \in {"none", "partial", "whole"}
      /\ handle \in Handles /\ handle.dir \in {0} \union DOMAIN tree
      /\ (handle.dir = 0 => handle = NoHandle)
      /\ event \in Seq(Tags)
  BY <1>1 DEF TreeInv
<1>3. NoHandle \in Handles /\ NoHandle.dir = 0
  BY DEF NoHandle, Handles
<1>4. DOMAIN tree = 1 .. Len(tree) /\ Len(tree) \in Nat
  BY <1>2, TreeParts
<1>5. CASE UNCHANGED <<treeVars, event>> /\ phase # "up" /\ phase' # "up"
  BY <1>2, <1>5 DEF treeVars, TreeInv
<1>6. CASE \/ StartMount \/ ListPage \/ ListFails
           \/ \E b \in Blobs : Arrives(b) \/ Vanishes(b)
  <2>1. UNCHANGED <<treeVars, event>> /\ phase # "up" /\ phase' # "up"
    BY <1>6 DEF StartMount, ListPage, ListFails, Arrives, Vanishes
  <2>2. QED  BY <1>5, <2>1
<1>7. CASE MountUp
  <2>1. phase = "listed" /\ phase' = "up" /\ UNCHANGED <<cloning, disk, handle, event>>
    BY <1>7 DEF MountUp
  <2>2. cloning = 0 /\ handle = NoHandle
    BY <1>2, <2>1
  <2>3. tree' \in Trees /\ Len(tree') > 0
    <3>1. all \in Seq(Blobs)
      BY <1>1 DEF ListInv
    <3>2. BuiltTree \in Trees /\ Len(BuiltTree) > 0
      BY <3>1, BuiltIsTree
    <3>3. Extends(BuiltTree, ApplyPersisted(BuiltTree, event))
      BY <1>2, <3>2, PersistedGrows
    <3>4. ApplyPersisted(BuiltTree, event) \in Trees /\ Len(ApplyPersisted(BuiltTree, event)) > 0
      BY <3>2, <3>3, TreeParts DEF Extends, Grows
    <3>5. tree' \in {ApplyPersisted(BuiltTree, event), BuiltTree}
      BY <1>7 DEF MountUp
    <3>6. QED  BY <3>2, <3>4, <3>5
  <2>4. QED  BY <1>2, <1>3, <2>1, <2>2, <2>3 DEF TreeInv
<1>8. CASE Unmount
  <2>1. event' \in Seq(Tags)
    <3>1. Len(tree) > 0
      BY <1>2, <1>8 DEF Unmount
    <3>2. QED  BY <1>2, <1>8, <3>1, PublishedTags DEF Unmount
  <2>2. phase' = "down" /\ tree' = <<>> /\ cloning' = 0 /\ handle' = NoHandle /\ disk' = disk
    BY <1>8 DEF Unmount, Down
  <2>3. QED  BY <1>2, <1>3, <2>1, <2>2, NoTree DEF TreeInv
<1>9. CASE Kill
  <2>1. /\ phase' = "down" /\ tree' = <<>> /\ cloning' = 0 /\ handle' = NoHandle
        /\ event' = event /\ disk' \in {"none", "partial", disk}
    BY <1>9 DEF Kill, Down
  <2>2. QED  BY <1>2, <1>3, <2>1, NoTree DEF TreeInv
<1>10. ASSUME NEW d \in DOMAIN tree, TakeLazy(d)
       PROVE  TreeInv'
  <2>1. /\ phase = "up" /\ phase' = "up" /\ IsDir(tree, d) /\ cloning' = d
        /\ tree' = [tree EXCEPT ![d].lazy = FALSE] /\ UNCHANGED <<disk, handle, event>>
    BY <1>10 DEF TakeLazy
  <2>2. Keeps(tree, tree')
    BY <1>2, <1>4, <2>1, Words, MarkKeeps
  <2>3. QED  BY <1>1, <1>2, <2>1, <2>2, TreeKept
<1>11. CASE Cloned
  <2>1. phase = "up"
    BY <1>2, <1>11 DEF Cloned
  <2>2. /\ phase' = "up" /\ cloning' = 0 /\ handle' = handle /\ event' = event
        /\ disk' \in {"whole", disk} /\ cloning \in 1 .. Len(tree)
        /\ tree' \in {WalkRepo(tree, cloning), tree}
    BY <1>2, <1>4, <1>11, <2>1 DEF Cloned
  <2>3. Keeps(tree, tree')
    <3>1. Keeps(tree, WalkRepo(tree, cloning))
      BY <1>2, <2>2, WalkGrows, GrowsKeeps
    <3>2. Keeps(tree, tree)
      BY <1>2, <1>4 DEF Keeps
    <3>3. QED  BY <2>2, <3>1, <3>2
  <2>4. QED  BY <1>1, <1>2, <2>1, <2>2, <2>3, TreeKept
<1>12. CASE CloneFails
  <2>1. phase = "up"
    BY <1>2, <1>12 DEF CloneFails
  <2>2. /\ phase' = "up" /\ cloning' = 0 /\ UNCHANGED <<disk, handle, event>>
        /\ cloning \in 0 .. Len(tree)
        /\ tree' = AddStaticFile(tree, cloning, "CLONE_FAILED.txt")
    BY <1>2, <1>4, <1>12, <2>1 DEF CloneFails
  <2>3. Keeps(tree, tree')
    BY <1>2, <2>2, Words, AddersGrow, GrowsKeeps
  <2>4. QED  BY <1>1, <1>2, <2>1, <2>2, <2>3, TreeKept
<1>13. ASSUME NEW d \in UserDirs, NEW n \in UserNames, Mkdir(d, n) \/ Create(d, n)
       PROVE  TreeInv'
  <2>1. d \in 0 .. Len(tree) /\ n \in AllNames
    BY <1>2, <1>4, UserDirsAre, NameAssumption
  <2>2. /\ phase = "up" /\ phase' = "up" /\ UNCHANGED <<cloning, disk, handle, event>>
        /\ tree' \in {AddDirectory(tree, d, n), AddFileToDir(tree, d, n)}
    BY <1>13 DEF Mkdir, Create, UserOp
  <2>3. Keeps(tree, tree')
    BY <1>2, <2>1, <2>2, Words, AddersGrow, GrowsKeeps
  <2>4. QED  BY <1>1, <1>2, <2>2, <2>3, TreeKept
<1>14. ASSUME NEW d \in UserDirs, NEW n \in UserNames, Unlink(d, n) \/ Rmdir(d, n)
       PROVE  TreeInv'
  <2>1. d \in 1 .. Len(tree)
    BY <1>2, UserDirsAre
  <2>2. /\ phase = "up" /\ phase' = "up" /\ UNCHANGED <<cloning, disk, event>>
        /\ tree' = Drop(tree, d, Lookup(tree, d, n)) /\ Disturb(d)
    BY <1>14 DEF Unlink, Rmdir, UserOp
  <2>3. Keeps(tree, tree')
    BY <1>2, <2>1, <2>2, DropKeeps
  <2>4. /\ handle' \in Handles /\ handle'.dir = handle.dir
        /\ handle.dir = 0 => handle' = NoHandle
    <3>1. handle' = [handle EXCEPT !.intact = @ /\ handle.dir # d]
      BY <2>2 DEF Disturb
    <3>2. handle' \in Handles /\ handle'.dir = handle.dir
      BY <1>2, <3>1 DEF Handles
    <3>3. handle.dir = 0 => handle' = NoHandle
      <4>1. SUFFICES ASSUME handle.dir = 0
                     PROVE  handle' = NoHandle
        OBVIOUS
      <4>2. handle = NoHandle /\ 0 # d
        BY <1>2, <2>1, <4>1
      <4>3. QED  BY <3>1, <4>2 DEF NoHandle
    <3>4. QED  BY <3>2, <3>3
  <2>5. QED  BY <1>1, <1>2, <2>2, <2>3, <2>4, TreeKept
<1>15. ASSUME NEW d \in UserDirs, Opendir(d)
       PROVE  TreeInv'
  <2>1. d \in 1 .. Len(tree) /\ tree[d].children \in Seq(Nat)
    BY <1>2, UserDirsAre, TreeParts
  <2>2. /\ handle' = [NoHandle EXCEPT !.dir = d, !.start = Range(tree[d].children)]
        /\ UNCHANGED <<phase, tree, cloning, disk, event>> /\ phase = "up"
    BY <1>15 DEF Opendir, UserOp
  <2>3. Range(tree[d].children) \subseteq Nat
    <3> DEFINE c == tree[d].children
    <3>1. \A i \in DOMAIN c : c[i] \in Nat
      BY <2>1
    <3>2. QED  BY <3>1 DEF Range
  <2>4. handle' \in Handles /\ handle'.dir = d /\ d # 0
    <3> DEFINE R == Range(tree[d].children)
    <3>1. /\ handle' = [NoHandle EXCEPT !.dir = d, !.start = R]
          /\ R \in SUBSET Nat /\ d \in Nat /\ d # 0
      BY <1>4, <2>1, <2>2, <2>3
    <3> HIDE DEF R
    <3>2. QED  BY <1>3, <3>1 DEF Handles
  <2>5. QED  BY <1>2, <1>4, <2>1, <2>2, <2>4 DEF TreeInv
<1>16. ASSUME NEW i \in DOMAIN tree, NEW b \in Blobs, Uploaded(i, b)
       PROVE  TreeInv'
  <2>1. /\ phase = "up" /\ phase' = "up" /\ tree' = SetContent(tree, i, b)
        /\ UNCHANGED <<cloning, disk, handle, event>>
    BY <1>16 DEF Uploaded
  <2>2. Keeps(tree, tree')
    BY <1>2, <1>4, <2>1, Words, MarkKeeps
  <2>3. QED  BY <1>1, <1>2, <2>1, <2>2, TreeKept
<1>17. CASE Readdir
  <2> DEFINE last == IF handle.offset + Chunk < Len(Entries) THEN handle.offset + Chunk
                     ELSE Len(Entries)
  <2>1. /\ handle # NoHandle /\ UNCHANGED <<phase, tree, cloning, disk, event>>
        /\ handle' = IF handle.offset >= Len(Entries) THEN [handle EXCEPT !.done = TRUE]
                     ELSE [handle EXCEPT !.offset = last,
                             !.seen = @ \o SubSeq(Entries, handle.offset + 1, last)]
    BY <1>17 DEF Readdir
  <2>2. phase = "up" /\ handle.dir \in 1 .. Len(tree)
    BY <1>2, <1>4, <2>1
  <2>3. Entries \in Seq(Nat) /\ Len(Entries) \in Nat
    BY <1>2, <2>2, TreeParts DEF Entries
  <2>4. handle.offset \in Nat /\ handle.seen \in Seq(Nat) /\ Chunk \in Nat
    BY <1>2, MountAssumption DEF Handles
  <2>5. handle' \in Handles /\ handle'.dir = handle.dir
    <3>1. CASE handle.offset >= Len(Entries)
      BY <1>2, <2>1, <3>1 DEF Handles
    <3>2. CASE ~(handle.offset >= Len(Entries))
      <4>1. last \in handle.offset .. Len(Entries)
        BY <2>3, <2>4, <3>2
      <4> HIDE DEF last
      <4>2. SubSeq(Entries, handle.offset + 1, last) \in Seq(Nat)
        BY <2>3, <2>4, <4>1
      <4> DEFINE more == handle.seen \o SubSeq(Entries, handle.offset + 1, last)
      <4>3. more \in Seq(Nat) /\ last \in Nat
        BY <2>3, <2>4, <4>1, <4>2
      <4>4. handle' = [handle EXCEPT !.offset = last, !.seen = more]
        BY <2>1, <3>2
      <4> HIDE DEF more
      <4>5. QED  BY <1>2, <4>3, <4>4 DEF Handles
    <3>3. QED  BY <3>1, <3>2
  <2>6. QED  BY <1>2, <2>1, <2>2, <2>5 DEF TreeInv
<1>18. CASE Closedir
  BY <1>2, <1>3, <1>18 DEF Closedir, TreeInv
<1>19. QED  BY <1>6, <1>7, <1>8, <1>9, <1>10, <1>11, <1>12, <1>13, <1>14, <1>15, <1>16, <1>17,
     <1>18 DEF Next

\* A step that changes nothing keeps what holds.
LEMMA TypeStutters ==
  ASSUME TypeInv, UNCHANGED vars
  PROVE  TypeInv'
BY DEF vars, listVars, treeVars, TypeInv, ListInv, TreeInv

\* The inductive invariant implies the one that TLC checks.
LEMMA TypeImplies ==
  ASSUME TypeInv
  PROVE  TypeOK
<1>1. TreeInv /\ ListInv
  BY DEF TypeInv
<1>2. TreeShape(tree)
  BY <1>1 DEF TreeInv, Trees
<1>3. QED  BY <1>1, <1>2 DEF TreeInv, ListInv, TypeOK

\* The inductive invariant holds.
LEMMA TypeInvHolds == Spec => []TypeInv
<1>1. TypeInv /\ [Next]_vars => TypeInv'
  <2>1. TypeInv /\ Next => TypeInv'
    BY ListSteps, TreeSteps DEF TypeInv
  <2>2. QED  BY <2>1, TypeStutters
<1>2. QED  BY <1>1, TypeInit, PTL DEF Spec

\* The server's listing, the tree, the clone, the listing of a directory and
\* what is published are what they should be, and the mounted tree keeps the
\* shape of tree.rs through every directory operation, clone, restore and crash.
THEOREM TypesHold == Spec => []TypeOK
<1>1. TypeInv => TypeOK
  BY TypeImplies
<1>2. QED  BY <1>1, TypeInvHolds, PTL

-----------------------------------------------------------------------------
(* The listing of the server.                                              *)

\* The server has b, and the cursor's blob, if it has that still, before it.
Ahead(b) ==
  \E i \in 1 .. Len(srv) : /\ srv[i] = b
                           /\ \A j \in 1 .. Len(srv) : srv[j] = cursor => j < i

\* What stayed on the server is listed or still to come.
ListedInv ==
  /\ phase = "list" =>
       /\ steady \subseteq Range(srv)
       /\ max > 0 => Len(all) < max
       /\ \A b \in steady : b \in Range(all) \/ Ahead(b)
  /\ ListingComplete

\* An upload comes before what the server has, in front of the cursor.
LEMMA ArrivesAhead ==
  ASSUME NEW b \in Blobs, srv \in Seq(Blobs), srv' = <<b>> \o srv, cursor' = cursor,
         NEW s, Ahead(s)
  PROVE  Ahead(s)'
<1>1. Len(srv) \in Nat /\ Len(srv') = Len(srv) + 1
  OBVIOUS
<1>2. srv'[1] = b /\ \A i \in 2 .. Len(srv) + 1 : srv'[i] = srv[i - 1]
  OBVIOUS
<1>3. PICK i \in 1 .. Len(srv) : srv[i] = s /\ \A j \in 1 .. Len(srv) : srv[j] = cursor => j < i
  BY DEF Ahead
<1>4. i + 1 \in 1 .. Len(srv') /\ srv'[i + 1] = s
  BY <1>1, <1>2, <1>3
<1>5. ASSUME NEW j \in 1 .. Len(srv'), srv'[j] = cursor
      PROVE  j < i + 1
  <2>1. CASE j = 1
    BY <1>1, <2>1
  <2>2. CASE j # 1
    <3>1. j - 1 \in 1 .. Len(srv) /\ j \in 2 .. Len(srv) + 1
      BY <1>1, <2>2
    <3>2. srv[j - 1] = cursor
      BY <1>2, <1>5, <3>1
    <3>3. QED  BY <1>3, <3>1, <3>2
  <2>3. QED  BY <2>1, <2>2
<1>6. QED  BY <1>4, <1>5 DEF Ahead

\* A blob that goes leaves the others in their order.
LEMMA VanishesAhead ==
  ASSUME srv \in Seq(Blobs), NEW b, srv' = Only(srv, Range(srv) \ {b}), cursor' = cursor,
         NEW s, s # b, Ahead(s)
  PROVE  Ahead(s)'
<1>1. PICK pick : Picks(srv, Range(srv) \ {b}, srv', Len(srv), pick)
  BY OnlyPicks
<1>2. srv' \in Seq(Blobs) /\ Len(srv') \in Nat /\ Len(srv) \in Nat
  BY OnlyPicks
<1>3. PICK i \in 1 .. Len(srv) : srv[i] = s /\ \A j \in 1 .. Len(srv) : srv[j] = cursor => j < i
  BY DEF Ahead
<1>4. PICK k \in 1 .. Len(srv') : pick[k] = i
  <2>1. srv[i] \in Range(srv) \ {b}
    BY <1>3 DEF Range
  <2>2. QED  BY <1>1, <2>1 DEF Picks
<1>5. srv'[k] = s
  BY <1>1, <1>3, <1>4 DEF Picks
<1>6. ASSUME NEW j \in 1 .. Len(srv'), srv'[j] = cursor
      PROVE  j < k
  <2>1. pick[j] \in 1 .. Len(srv) /\ srv[pick[j]] = cursor
    BY <1>1, <1>6 DEF Picks
  <2>2. pick[j] < pick[k]
    BY <1>3, <1>4, <2>1
  <2>3. k < j => pick[k] < pick[j]
    BY <1>1 DEF Picks
  <2>4. k < j \/ k = j \/ j < k
    BY <1>2
  <2>5. QED  BY <1>4, <2>1, <2>2, <2>3, <2>4
<1>7. QED  BY <1>4, <1>5, <1>6 DEF Ahead

\* A page lists what is next of what stayed, and the cursor moves on behind it.
LEMMA PageAhead ==
  ASSUME srv \in Seq(Blobs), IsInjective(srv), all \in Seq(Blobs), srv' = srv,
         cursor = None \/ cursor \in Range(srv), cursor' = NextCursor,
         NEW s, s \in Range(all) \/ Ahead(s)
  PROVE  /\ s \in Range(all \o Page) \/ Ahead(s)'
         /\ NextCursor = None => s \in Range(all \o Page)
<1> DEFINE to == From + Len(Page) - 1
<1>1. /\ Page \in Seq(Blobs) /\ Len(Page) \in Nat /\ to <= Len(srv)
      /\ \A i \in 1 .. Len(Page) : Page[i] = srv[From + i - 1]
      /\ \/ NextCursor = None /\ to = Len(srv)
         \/ NextCursor = srv[to] /\ to \in 1 .. Len(srv)
  BY PageIs, MountAssumption
<1>2. /\ From \in 1 .. Len(srv) + 1
      /\ cursor # None => From - 1 \in 1 .. Len(srv) /\ srv[From - 1] = cursor
      /\ cursor = None => From = 1
  <2>1. /\ From \in 1 .. Len(srv) + 1
        /\ cursor # None => From \in 2 .. Len(srv) + 1 /\ srv[From - 1] = cursor
    BY FromIs
  <2>2. cursor = None => From = 1
    BY DEF From
  <2>3. QED  BY <2>1, <2>2
<1>3. Range(all \o Page) = Range(all) \union Range(Page)
  <2> DEFINE c == all \o Page
  <2>1. /\ DOMAIN c = 1 .. Len(all) + Len(Page) /\ Len(all) \in Nat /\ Len(Page) \in Nat
        /\ DOMAIN all = 1 .. Len(all) /\ DOMAIN Page = 1 .. Len(Page)
        /\ \A i \in 1 .. Len(all) : c[i] = all[i]
        /\ \A i \in 1 .. Len(Page) : c[Len(all) + i] = Page[i]
    BY <1>1
  <2> HIDE DEF c
  <2>2. ASSUME NEW x \in Range(c)
        PROVE  x \in Range(all) \union Range(Page)
    <3>1. PICK i \in 1 .. Len(all) + Len(Page) : x = c[i]
      BY <2>1 DEF Range
    <3>2. CASE i \in 1 .. Len(all)
      BY <2>1, <3>1, <3>2 DEF Range
    <3>3. CASE i \notin 1 .. Len(all)
      <4>1. i - Len(all) \in 1 .. Len(Page) /\ Len(all) + (i - Len(all)) = i
        BY <2>1, <3>3
      <4>2. x = Page[i - Len(all)]
        BY <2>1, <3>1, <4>1
      <4>3. QED  BY <2>1, <4>1, <4>2 DEF Range
    <3>4. QED  BY <3>2, <3>3
  <2>3. ASSUME NEW x \in Range(all)
        PROVE  x \in Range(c)
    <3>1. PICK i \in 1 .. Len(all) : x = all[i]
      BY <2>1 DEF Range
    <3>2. i \in DOMAIN c /\ c[i] = x
      BY <2>1, <3>1
    <3>3. QED  BY <3>2 DEF Range
  <2>4. ASSUME NEW x \in Range(Page)
        PROVE  x \in Range(c)
    <3>1. PICK i \in 1 .. Len(Page) : x = Page[i]
      BY <2>1 DEF Range
    <3>2. Len(all) + i \in DOMAIN c /\ c[Len(all) + i] = x
      BY <2>1, <3>1
    <3>3. QED  BY <3>2 DEF Range
  <2>5. QED  BY <2>2, <2>3, <2>4 DEF c
<1> HIDE DEF to
<1>4. CASE s \in Range(all)
  BY <1>3, <1>4
<1>5. CASE Ahead(s)
  <2>1. PICK i \in 1 .. Len(srv) : srv[i] = s /\ \A j \in 1 .. Len(srv) : srv[j] = cursor => j < i
    BY <1>5 DEF Ahead
  <2>2. i >= From
    <3>1. CASE cursor = None
      BY <1>2, <3>1
    <3>2. CASE cursor # None
      <4>1. From - 1 < i
        BY <1>2, <2>1, <3>2
      <4>2. QED  BY <1>2, <4>1
    <3>3. QED  BY <3>1, <3>2
  <2>3. CASE i <= to
    <3>1. i - From + 1 \in 1 .. Len(Page) /\ From + (i - From + 1) - 1 = i
      BY <1>1, <1>2, <2>2, <2>3 DEF to
    <3>2. Page[i - From + 1] = s
      BY <1>1, <2>1, <3>1
    <3>3. s \in Range(Page)
      BY <1>1, <3>1, <3>2 DEF Range
    <3>4. QED  BY <1>3, <3>3
  <2>4. CASE i > to
    <3>1. NextCursor # None /\ NextCursor = srv[to] /\ to \in 1 .. Len(srv)
      <4>1. to # Len(srv)
        BY <2>4
      <4>2. NextCursor = srv[to] /\ to \in 1 .. Len(srv)
        BY <1>1, <4>1
      <4>3. srv[to] \in Blobs
        BY <4>2
      <4>4. QED  BY <4>2, <4>3, BlobAssumption
    <3>2. \A j \in 1 .. Len(srv) : srv[j] = srv[to] => j = to
      BY <3>1 DEF IsInjective
    <3>3. \A j \in 1 .. Len(srv) : srv[j] = NextCursor => j < i
      BY <2>4, <3>1, <3>2
    <3>4. Ahead(s)'
      <4>1. srv' = srv /\ cursor' = NextCursor
        OBVIOUS
      <4>2. \E k \in 1 .. Len(srv) :
              srv[k] = s /\ \A j \in 1 .. Len(srv) : srv[j] = NextCursor => j < k
        BY <2>1, <3>3
      <4>3. QED  BY <4>1, <4>2 DEF Ahead
    <3>5. QED  BY <3>1, <3>4
  <2>5. QED  BY <1>1, <1>2, <2>3, <2>4 DEF to
<1>6. QED  BY <1>4, <1>5

\* The steps of a listing keep what it has listed and has yet to.
LEMMA ListedSteps ==
  ASSUME TypeInv, ListedInv, Next
  PROVE  ListedInv'
<1>1. /\ srv \in Seq(Blobs) /\ IsInjective(srv) /\ all \in Seq(Blobs)
      /\ cursor \in Blobs \union {None} /\ steady \subseteq Blobs
      /\ max \in Nat /\ pages \in Nat
  <2>1. ListInv
    BY DEF TypeInv
  <2>2. QED  BY <2>1, MountAssumption DEF ListInv
<1>2. /\ steady \subseteq Range(srv) \/ phase # "list"
      /\ phase = "list" => (max > 0 => Len(all) < max)
      /\ phase = "list" => \A b \in steady : b \in Range(all) \/ Ahead(b)
      /\ ListingComplete
  BY DEF ListedInv
<1>3. CASE phase' # "list" /\ phase' # "listed"
  BY <1>3 DEF ListedInv, ListingComplete
<1>4. CASE StartMount
  <2>1. srv' \in Seq(Blobs)
    BY <1>4, BlobAssumption DEF StartMount
  <2>2. /\ phase' = "list" /\ steady' = Range(srv') /\ all' = <<>> /\ cursor' = None
        /\ max' \in Nat
    BY <1>4, MountAssumption DEF StartMount
  <2>3. max' > 0 => Len(all') < max'
    BY <2>2
  <2>4. ASSUME NEW b \in steady'
        PROVE  Ahead(b)'
    <3>1. PICK i \in 1 .. Len(srv') : srv'[i] = b
      BY <2>1, <2>2 DEF Range
    <3>2. \A j \in 1 .. Len(srv') : srv'[j] # None
      BY <2>1, BlobAssumption
    <3>3. QED  BY <2>2, <3>1, <3>2 DEF Ahead
  <2>5. QED  BY <2>2, <2>3, <2>4 DEF ListedInv, ListingComplete
<1>5. ASSUME NEW b \in Blobs, Arrives(b)
      PROVE  ListedInv'
  <2>1. /\ phase = "list" /\ srv' = <<b>> \o srv
        /\ UNCHANGED <<phase, all, cursor, max, steady>>
    BY <1>5 DEF Arrives
  <2>2. Range(srv) \subseteq Range(srv')
    <3>1. /\ Len(srv) \in Nat /\ DOMAIN srv = 1 .. Len(srv) /\ DOMAIN srv' = 1 .. Len(srv) + 1
          /\ \A i \in 1 .. Len(srv) : srv'[i + 1] = srv[i] /\ i + 1 \in 1 .. Len(srv) + 1
      BY <1>1, <2>1
    <3>2. QED  BY <3>1 DEF Range
  <2>3. \A s \in steady : s \in Range(all) \/ Ahead(s)'
    BY <1>1, <1>2, <2>1, ArrivesAhead
  <2>4. QED  BY <1>2, <2>1, <2>2, <2>3 DEF ListedInv, ListingComplete
<1>6. ASSUME NEW b \in Blobs, Vanishes(b)
      PROVE  ListedInv'
  <2>1. /\ phase = "list" /\ srv' = Only(srv, Range(srv) \ {b}) /\ steady' = steady \ {b}
        /\ UNCHANGED <<phase, all, cursor, max>>
    BY <1>6 DEF Vanishes
  <2>2. Range(srv') = Range(srv) \cap (Range(srv) \ {b})
    BY <1>1, <2>1, OnlyKeeps
  <2>3. steady' \subseteq Range(srv')
    BY <1>2, <2>1, <2>2
  <2>4. \A s \in steady' : s \in Range(all) \/ Ahead(s)'
    BY <1>1, <1>2, <2>1, VanishesAhead
  <2>5. QED  BY <1>2, <2>1, <2>3, <2>4 DEF ListedInv, ListingComplete
<1>7. CASE ListPage
  <2> DEFINE got == all \o Page
  <2>1. /\ phase = "list" /\ (cursor = None \/ cursor \in Range(srv))
        /\ cursor' = NextCursor /\ UNCHANGED <<srv, max, steady>>
    BY <1>7 DEF ListPage
  <2>2. Page \in Seq(Blobs) /\ got \in Seq(Blobs)
    BY <1>1, <2>1, PageIs
  <2>3. \A s \in steady : /\ s \in Range(got) \/ Ahead(s)'
                          /\ NextCursor = None => s \in Range(got)
    BY <1>1, <1>2, <2>1, PageAhead
  <2>4. CASE max > 0 /\ Len(got) >= max
    <3>1. all' = SubSeq(got, 1, max) /\ phase' = "listed"
      BY <1>7, <2>4 DEF ListPage
    <3> HIDE DEF got
    <3>2. Len(all') = max
      BY <1>1, <2>2, <2>4, <3>1
    <3>3. QED  BY <2>1, <2>4, <3>1, <3>2 DEF ListedInv, ListingComplete
  <2>5. CASE ~(max > 0 /\ Len(got) >= max)
    <3>1. /\ all' = got
          /\ phase' = IF NextCursor = None \/ pages' = MaxPages THEN "listed" ELSE "list"
      BY <1>7, <2>5 DEF ListPage
    <3>2. max > 0 => Len(got) < max
      BY <1>1, <2>2, <2>5
    <3> HIDE DEF got
    <3>3. CASE phase' = "list"
      BY <1>2, <2>1, <2>3, <3>1, <3>2, <3>3 DEF ListedInv, ListingComplete
    <3>4. CASE phase' = "listed"
      <4>1. NextCursor = None \/ pages' = MaxPages
        BY <3>1, <3>4
      <4>2. NextCursor = None => steady' \subseteq Range(all')
        BY <2>1, <2>3, <3>1
      <4>3. QED  BY <3>4, <4>1, <4>2 DEF ListedInv, ListingComplete
    <3>5. QED  BY <3>1, <3>3, <3>4
  <2>6. QED  BY <2>4, <2>5
<1>8. CASE ListFails
  BY <1>8 DEF ListFails, ListedInv, ListingComplete
<1>9. CASE MountUp \/ Unmount \/ Kill
  <2>1. phase' # "list" /\ phase' # "listed"
    BY <1>9 DEF MountUp, Unmount, Kill, Down
  <2>2. QED  BY <1>3, <2>1
<1>10. CASE UNCHANGED <<phase, listVars>>
  BY <1>10 DEF listVars, ListedInv, ListingComplete, Ahead
<1>11. ASSUME NEW d, NEW n, \/ Mkdir(d, n) \/ Create(d, n) \/ Unlink(d, n) \/ Rmdir(d, n)
                            \/ Opendir(d) \/ TakeLazy(d) \/ Uploaded(d, n)
       PROVE  ListedInv'
  <2>1. UNCHANGED <<phase, listVars>>
    BY <1>11 DEF Mkdir, Create, Unlink, Rmdir, Opendir, TakeLazy, Uploaded
  <2>2. QED  BY <1>10, <2>1
<1>12. CASE Cloned \/ CloneFails \/ Readdir \/ Closedir
  <2>1. UNCHANGED <<phase, listVars>>
    BY <1>12 DEF Cloned, CloneFails, Readdir, Closedir
  <2>2. QED  BY <1>10, <2>1
<1>13. QED  BY <1>4, <1>5, <1>6, <1>7, <1>8, <1>9, <1>11, <1>12 DEF Next

\* list_all_blobs: what was on the server from the first page to the last is in
\* the listing, whatever was uploaded and deleted meanwhile and however the
\* cursor moved, unless a limit ended it.
THEOREM ListingIsComplete == Spec => []ListingComplete
<1>1. Init => ListedInv
  BY DEF Init, ListedInv, ListingComplete
<1>2. TypeInv /\ ListedInv /\ [Next]_vars => ListedInv'
  <2>1. TypeInv /\ ListedInv /\ Next => ListedInv'
    BY ListedSteps
  <2>2. ListedInv /\ UNCHANGED vars => ListedInv'
    BY DEF vars, listVars, ListedInv, ListingComplete, Ahead
  <2>3. QED  BY <2>1, <2>2
<1>3. ListedInv => ListingComplete
  BY DEF ListedInv
<1>4. QED  BY <1>1, <1>2, <1>3, TypeInvHolds, PTL DEF Spec

-----------------------------------------------------------------------------
(* The listing of a directory.                                             *)

\* What a listing has returned are entries the directory has, or had, before
\* the offset; while none is removed, they are all of those.
Shown(t, h) ==
  LET e == t[h.dir].children IN
  /\ IsInjective(h.seen) /\ Range(h.seen) \subseteq 1 .. Len(t)
  /\ \A k \in 1 .. Len(e) : k > h.offset => e[k] \notin Range(h.seen)
  /\ h.intact => /\ h.offset <= Len(e)
                 /\ \A k \in 1 .. Len(e) : k <= h.offset => e[k] \in Range(h.seen)
                 /\ h.start \subseteq Range(e)
  /\ h.done /\ h.intact => h.start \subseteq Range(h.seen)

HandleInv == handle.dir # 0 => Shown(tree, handle)

\* Nothing else begins with what has been seen.
LEMMA ShownWhole ==
  ASSUME TypeInv, HandleInv
  PROVE  ListingWhole
<1>1. CASE handle.dir = 0
  <2>1. handle = NoHandle
    BY <1>1 DEF TypeInv, TreeInv
  <2>2. QED  BY <2>1 DEF NoHandle, ListingWhole, IsInjective
<1>2. CASE handle.dir # 0
  BY <1>2 DEF HandleInv, Shown, ListingWhole
<1>3. QED  BY <1>1, <1>2

\* Entries that are added come after those there were, and are new.
LEMMA GrowsShown ==
  ASSUME NEW t \in Trees, NEW u \in Trees, Grows(t, u),
         NEW h \in Handles, h.dir \in 1 .. Len(t), Shown(t, h)
  PROVE  Shown(u, h)
<1> DEFINE e == t[h.dir].children  f == u[h.dir].children
<1>1. /\ Len(t) \in Nat /\ Len(u) \in Nat /\ Len(t) <= Len(u)
      /\ Len(e) \in Nat /\ Len(f) \in Nat /\ Len(e) <= Len(f) /\ h.offset \in Nat
      /\ DOMAIN e = 1 .. Len(e) /\ DOMAIN f = 1 .. Len(f)
  <2>1. Len(t) \in Nat /\ Len(u) \in Nat /\ Len(t) <= Len(u)
    BY TreeParts DEF Grows
  <2>2. h.dir \in 1 .. Len(u)
    BY <2>1
  <2>3. QED  BY <2>1, <2>2, TreeParts DEF Grows, Handles
<1>2. /\ \A k \in 1 .. Len(e) : f[k] = e[k]
      /\ \A k \in Len(e) + 1 .. Len(f) : f[k] > Len(t)
  BY DEF Grows
<1>3. /\ IsInjective(h.seen) /\ Range(h.seen) \subseteq 1 .. Len(t)
      /\ \A k \in 1 .. Len(e) : k > h.offset => e[k] \notin Range(h.seen)
      /\ h.intact => /\ h.offset <= Len(e)
                     /\ \A k \in 1 .. Len(e) : k <= h.offset => e[k] \in Range(h.seen)
                     /\ h.start \subseteq Range(e)
      /\ h.done /\ h.intact => h.start \subseteq Range(h.seen)
  BY DEF Shown
<1> HIDE DEF e, f
<1>4. \A k \in 1 .. Len(f) : k \in 1 .. Len(e) \/ k \in Len(e) + 1 .. Len(f)
  BY <1>1
<1>5. Range(h.seen) \subseteq 1 .. Len(u)
  BY <1>1, <1>3
<1>6. \A k \in 1 .. Len(f) : k > h.offset => f[k] \notin Range(h.seen)
  <2>1. \A x \in Range(h.seen) : ~(x > Len(t))
    BY <1>1, <1>3
  <2>2. QED  BY <1>2, <1>3, <1>4, <2>1
<1>7. Range(e) \subseteq Range(f)
  <2>1. 1 .. Len(e) \subseteq 1 .. Len(f)
    BY <1>1
  <2>2. QED  BY <1>1, <1>2, <2>1 DEF Range
<1>8. h.intact => /\ h.offset <= Len(f)
                  /\ \A k \in 1 .. Len(f) : k <= h.offset => f[k] \in Range(h.seen)
                  /\ h.start \subseteq Range(f)
  <2>1. SUFFICES ASSUME h.intact
                 PROVE  /\ h.offset <= Len(f)
                        /\ \A k \in 1 .. Len(f) : k <= h.offset => f[k] \in Range(h.seen)
                        /\ h.start \subseteq Range(f)
    OBVIOUS
  <2>2. \A k \in 1 .. Len(f) : k <= h.offset => k \in 1 .. Len(e)
    BY <1>1, <1>3, <2>1
  <2>3. h.offset <= Len(f)
    BY <1>1, <1>3, <2>1
  <2>4. \A k \in 1 .. Len(e) : k <= h.offset => e[k] \in Range(h.seen)
    BY <1>3, <2>1
  <2>5. \A k \in 1 .. Len(f) : k <= h.offset => f[k] \in Range(h.seen)
    BY <1>2, <2>2, <2>4
  <2>6. h.start \subseteq Range(e)
    BY <1>3, <2>1
  <2>7. QED  BY <1>7, <2>3, <2>5, <2>6
<1>9. QED  BY <1>3, <1>5, <1>6, <1>8 DEF Shown, f

\* An entry that goes moves the others forward, perhaps before the offset.
LEMMA DropShown ==
  ASSUME NEW t \in Trees, NEW p \in 1 .. Len(t), NEW c,
         NEW h \in Handles, h.dir \in 1 .. Len(t), Shown(t, h)
  PROVE  Shown(Drop(t, p, c), [h EXCEPT !.intact = @ /\ h.dir # p])
<1> DEFINE u == Drop(t, p, c)
           g == [h EXCEPT !.intact = @ /\ h.dir # p]
           e == t[h.dir].children
           f == u[h.dir].children
<1>1. /\ \A i \in 1 .. Len(t) : i # p => u[i] = t[i]
      /\ u[p].children = Only(t[p].children, Range(t[p].children) \ {c})
      /\ Len(u) = Len(t)
  <2>1. Dropped(t, p, c, u)
    BY DropKeeps
  <2>2. QED  BY <2>1 DEF Dropped
<1> HIDE DEF u
<1>2. /\ g.dir = h.dir /\ g.offset = h.offset /\ g.seen = h.seen /\ g.start = h.start
      /\ g.done = h.done /\ g.intact = (h.intact /\ h.dir # p)
  BY DEF Handles
<1> HIDE DEF g
<1>3. CASE h.dir # p
  <2>1. u[h.dir] = t[h.dir] /\ g.intact = h.intact
    BY <1>1, <1>2, <1>3 DEF Handles
  <2>2. QED  BY <1>1, <1>2, <2>1 DEF Shown, u, g
<1>4. CASE h.dir = p
  <2>1. /\ e \in Seq(Nat) /\ Len(e) \in Nat /\ DOMAIN e = 1 .. Len(e) /\ h.offset \in Nat
    BY TreeParts DEF Handles
  <2>2. f = Only(e, Range(e) \ {c})
    BY <1>1, <1>4
  <2> HIDE DEF e, f
  <2>3. f \in Seq(Nat) /\ Len(f) \in Nat
    BY <2>1, <2>2, OnlyPicks
  <2>4. PICK pick : Picks(e, Range(e) \ {c}, f, Len(e), pick)
    BY <2>1, <2>2, OnlyPicks
  <2>5. \A k \in 1 .. Len(f) : pick[k] \in 1 .. Len(e) /\ f[k] = e[pick[k]]
    BY <2>4 DEF Picks
  <2>6. \A k \in 1 .. Len(f) : k <= pick[k]
    BY <2>1, <2>3, <2>4, PicksAdvance
  <2>7. /\ IsInjective(h.seen) /\ Range(h.seen) \subseteq 1 .. Len(t)
        /\ \A k \in 1 .. Len(e) : k > h.offset => e[k] \notin Range(h.seen)
    BY DEF Shown, e
  <2>8. \A k \in 1 .. Len(f) : k > h.offset => pick[k] > h.offset
    BY <2>1, <2>3, <2>5, <2>6
  <2>9. \A k \in 1 .. Len(f) : k > h.offset => f[k] \notin Range(h.seen)
    BY <2>5, <2>7, <2>8
  <2>10. ~g.intact
    BY <1>2, <1>4
  <2>11. Shown(u, g)
    BY <1>1, <1>2, <2>7, <2>9, <2>10 DEF Shown, f
  <2>12. QED  BY <2>11 DEF u, g
<1>5. QED  BY <1>3, <1>4 DEF u, g

\* A node that keeps its entries keeps what a listing has of them.
LEMMA SameShown ==
  ASSUME NEW t, NEW u, Len(u) = Len(t), NEW h,
         u[h.dir].children = t[h.dir].children, Shown(t, h)
  PROVE  Shown(u, h)
BY DEF Shown


\* A reply has entries not seen yet, and what comes after it has not been.
LEMMA ReaddirShown ==
  ASSUME NEW t \in Trees, NEW h \in Handles, h.dir \in 1 .. Len(t), Shown(t, h),
         NEW last \in Nat, h.offset < last, last <= Len(t[h.dir].children),
         NEW more, more = h.seen \o SubSeq(t[h.dir].children, h.offset + 1, last),
         ~h.done
  PROVE  Shown(t, [h EXCEPT !.offset = last, !.seen = more])
<1> DEFINE e == t[h.dir].children
           a == h.offset
           g == [h EXCEPT !.offset = last, !.seen = more]
<1>1. /\ e \in Seq(Nat) /\ Len(e) \in Nat /\ IsInjective(e)
      /\ \A k \in 1 .. Len(e) : e[k] \in 1 .. Len(t)
  BY TreeParts
<1>2. a \in Nat /\ h.seen \in Seq(Nat)
  BY DEF Handles
<1>3. /\ IsInjective(h.seen) /\ Range(h.seen) \subseteq 1 .. Len(t)
      /\ \A k \in 1 .. Len(e) : k > a => e[k] \notin Range(h.seen)
      /\ h.intact => /\ \A k \in 1 .. Len(e) : k <= a => e[k] \in Range(h.seen)
                     /\ h.start \subseteq Range(e)
  BY DEF Shown
<1>4. /\ g.dir = h.dir /\ g.offset = last /\ g.seen = more /\ g.start = h.start
      /\ g.intact = h.intact /\ ~g.done
  BY DEF Handles
<1>5. a <= last /\ last <= Len(e) /\ more = h.seen \o SubSeq(e, a + 1, last)
  BY <1>2
<1> HIDE DEF e, a, g
<1>6. IsInjective(more) /\ Range(more) = Range(h.seen) \union Span(e, a, last)
  <2> DEFINE s == h.seen  T == Nat
  <2>1. Span(e, a, Len(e)) \cap Range(s) = {}
    BY <1>3 DEF Span
  <2>2. IsInjective(e) /\ IsInjective(s) /\ e \in Seq(T) /\ s \in Seq(T)
    BY <1>1, <1>2, <1>3
  <2>3. a \in Nat /\ a <= last /\ last <= Len(e) /\ more = Followed(s, e, a, last)
    BY <1>2, <1>5 DEF Followed
  <2> HIDE DEF s, T
  <2>4. Widens(Followed(s, e, a, last), s, e, a, last)
    BY <2>1, <2>2, <2>3, MoreSeen
  <2>5. QED  BY <2>3, <2>4 DEF s, Widens
<1>7. \A j, k \in 1 .. Len(e) : e[j] = e[k] => j = k
  BY <1>1 DEF IsInjective
<1>8. Range(more) \subseteq 1 .. Len(t)
  BY <1>1, <1>3, <1>6 DEF Span
<1>9. \A k \in 1 .. Len(e) : k > last => e[k] \notin Range(more)
  <2>1. SUFFICES ASSUME NEW k \in 1 .. Len(e), k > last, e[k] \in Range(more)
                 PROVE  FALSE
    OBVIOUS
  <2>2. k > a
    BY <1>1, <1>2, <1>5, <2>1
  <2>3. PICK j \in 1 .. Len(e) : e[k] = e[j] /\ j <= last
    BY <1>3, <1>6, <2>1, <2>2 DEF Span
  <2>4. QED  BY <1>1, <1>7, <2>1, <2>3
<1>10. h.intact => /\ last <= Len(e)
                   /\ \A k \in 1 .. Len(e) : k <= last => e[k] \in Range(more)
                   /\ h.start \subseteq Range(e)
  <2>1. \A k \in 1 .. Len(e) : k <= a \/ k > a
    BY <1>1, <1>2
  <2>2. QED  BY <1>3, <1>5, <1>6, <2>1 DEF Span
<1>11. Shown(t, g)
  BY <1>4, <1>6, <1>8, <1>9, <1>10 DEF Shown, e
<1>12. QED  BY <1>11 DEF g

\* Every step keeps what a listing has to do with its directory.
LEMMA HandleSteps ==
  ASSUME TypeInv, HandleInv, Next
  PROVE  HandleInv'
<1>1. TreeInv
  BY DEF TypeInv
<1>2. /\ tree \in Trees /\ (phase # "up" => handle = NoHandle) /\ (phase # "up" => cloning = 0)
      /\ cloning \in {0} \union {d \in DOMAIN tree : IsDir(tree, d)}
      /\ handle \in Handles /\ handle.dir \in {0} \union DOMAIN tree
      /\ (handle.dir # 0 => Shown(tree, handle))
  BY <1>1 DEF TreeInv, HandleInv
<1>3. NoHandle.dir = 0
  BY DEF NoHandle
<1>4. DOMAIN tree = 1 .. Len(tree) /\ Len(tree) \in Nat
  BY <1>2, TreeParts
<1>5. CASE UNCHANGED <<tree, handle>>
  BY <1>5 DEF HandleInv
<1>6. CASE handle' = NoHandle
  BY <1>3, <1>6 DEF HandleInv
<1>7. ASSUME Extends(tree, tree'), handle' = handle
      PROVE  HandleInv'
  <2>1. tree' \in Trees /\ Grows(tree, tree')
    BY <1>7 DEF Extends
  <2>2. CASE handle.dir = 0
    BY <1>7, <2>2 DEF HandleInv
  <2>3. CASE handle.dir # 0
    <3>1. Shown(tree', handle)
      BY <1>2, <1>4, <2>1, <2>3, GrowsShown
    <3>2. QED  BY <1>7, <3>1 DEF HandleInv
  <2>4. QED  BY <2>2, <2>3
<1>8. ASSUME handle' = handle, SameLists(tree, tree')
      PROVE  HandleInv'
  <2>1. CASE handle.dir = 0
    BY <1>8, <2>1 DEF HandleInv
  <2>2. CASE handle.dir # 0
    <3>1. /\ tree'[handle.dir].children = tree[handle.dir].children
          /\ Len(tree') = Len(tree)
      BY <1>2, <1>4, <1>8, <2>2 DEF SameLists
    <3>2. Shown(tree', handle)
      BY <1>2, <1>8, <2>2, <3>1, SameShown
    <3>3. QED  BY <1>8, <3>2 DEF HandleInv
  <2>3. QED  BY <2>1, <2>2
<1>9. CASE \/ StartMount \/ ListPage \/ ListFails
           \/ \E b \in Blobs : Arrives(b) \/ Vanishes(b)
  <2>1. UNCHANGED <<tree, handle>>
    BY <1>9 DEF StartMount, ListPage, ListFails, Arrives, Vanishes, treeVars
  <2>2. QED  BY <1>5, <2>1
<1>10. CASE MountUp
  <2>1. handle' = handle /\ phase = "listed"
    BY <1>10 DEF MountUp
  <2>2. QED  BY <1>2, <1>6, <2>1
<1>11. CASE Unmount \/ Kill
  <2>1. handle' = NoHandle
    BY <1>11 DEF Unmount, Kill, Down
  <2>2. QED  BY <1>6, <2>1
<1>12. ASSUME NEW d \in DOMAIN tree, TakeLazy(d)
       PROVE  HandleInv'
  <2>1. d \in 1 .. Len(tree) /\ tree' = [tree EXCEPT ![d].lazy = FALSE] /\ handle' = handle
    BY <1>4, <1>12 DEF TakeLazy
  <2>2. SameLists(tree, tree')
    BY <1>2, <2>1, Words, MarkKeeps
  <2>3. QED  BY <1>8, <2>1, <2>2
<1>13. CASE Cloned
  <2>1. /\ cloning \in 1 .. Len(tree) /\ handle' = handle
        /\ tree' \in {WalkRepo(tree, cloning), tree}
    BY <1>2, <1>4, <1>13 DEF Cloned
  <2>2. Extends(tree, WalkRepo(tree, cloning))
    BY <1>2, <2>1, WalkGrows
  <2>3. QED  BY <1>5, <1>7, <2>1, <2>2
<1>14. CASE CloneFails
  <2>1. /\ cloning \in 0 .. Len(tree) /\ handle' = handle
        /\ tree' = AddStaticFile(tree, cloning, "CLONE_FAILED.txt")
    BY <1>2, <1>4, <1>14 DEF CloneFails
  <2>2. Extends(tree, tree')
    BY <1>2, <2>1, Words, AddersGrow
  <2>3. QED  BY <1>7, <2>1, <2>2
<1>15. ASSUME NEW d \in UserDirs, NEW n \in UserNames, Mkdir(d, n) \/ Create(d, n)
       PROVE  HandleInv'
  <2>1. d \in 0 .. Len(tree) /\ n \in AllNames
    BY <1>2, <1>4, UserDirsAre, NameAssumption
  <2>2. handle' = handle /\ tree' \in {AddDirectory(tree, d, n), AddFileToDir(tree, d, n)}
    BY <1>15 DEF Mkdir, Create
  <2>3. Extends(tree, tree')
    BY <1>2, <2>1, <2>2, Words, AddersGrow
  <2>4. QED  BY <1>7, <2>2, <2>3
<1>16. ASSUME NEW d \in UserDirs, NEW n \in UserNames, Unlink(d, n) \/ Rmdir(d, n)
       PROVE  HandleInv'
  <2>1. d \in 1 .. Len(tree)
    BY <1>2, UserDirsAre
  <2>2. /\ tree' = Drop(tree, d, Lookup(tree, d, n))
        /\ handle' = [handle EXCEPT !.intact = @ /\ handle.dir # d]
    BY <1>16 DEF Unlink, Rmdir, Disturb
  <2>3. handle'.dir = handle.dir
    BY <1>2, <2>2 DEF Handles
  <2>4. CASE handle.dir = 0
    BY <2>3, <2>4 DEF HandleInv
  <2>5. CASE handle.dir # 0
    <3>1. handle.dir \in 1 .. Len(tree) /\ Shown(tree, handle)
      BY <1>2, <1>4, <2>5
    <3> DEFINE c == Lookup(tree, d, n)
    <3> HIDE DEF c
    <3>2. Shown(Drop(tree, d, c), [handle EXCEPT !.intact = @ /\ handle.dir # d])
      BY <1>2, <2>1, <3>1, DropShown
    <3>3. Shown(tree', handle')
      BY <2>2, <3>2 DEF c
    <3>4. QED  BY <3>3 DEF HandleInv
  <2>6. QED  BY <2>4, <2>5
<1>17. ASSUME NEW d \in UserDirs, Opendir(d)
       PROVE  HandleInv'
  <2> DEFINE e == tree[d].children  R == Range(e)
  <2>1. d \in 1 .. Len(tree) /\ e \in Seq(Nat) /\ DOMAIN e = 1 .. Len(e) /\ Len(e) \in Nat
    BY <1>2, UserDirsAre, TreeParts
  <2>2. tree' = tree /\ handle' = [NoHandle EXCEPT !.dir = d, !.start = R]
    BY <1>17 DEF Opendir
  <2> HIDE DEF R
  <2>3. /\ handle'.dir = d /\ handle'.offset = 0 /\ handle'.seen = <<>>
        /\ handle'.start = R /\ handle'.intact /\ ~handle'.done
    BY <2>2 DEF NoHandle
  <2>4. IsInjective(<<>>) /\ Range(<<>>) = {}
    BY DEF IsInjective, Range
  <2>5. \A k \in 1 .. Len(e) : ~(k <= 0)
    BY <2>1
  <2> HIDE DEF e
  <2>6. Shown(tree, handle')
    BY <2>1, <2>3, <2>4, <2>5 DEF Shown, e, R
  <2>7. QED  BY <2>2, <2>6 DEF HandleInv
<1>18. ASSUME NEW i \in DOMAIN tree, NEW b \in Blobs, Uploaded(i, b)
       PROVE  HandleInv'
  <2>1. i \in 1 .. Len(tree) /\ tree' = SetContent(tree, i, b) /\ handle' = handle
    BY <1>4, <1>18 DEF Uploaded
  <2>2. SameLists(tree, tree')
    BY <1>2, <2>1, Words, MarkKeeps
  <2>3. QED  BY <1>8, <2>1, <2>2
<1>19. CASE Readdir
  <2> DEFINE last == IF handle.offset + Chunk < Len(Entries) THEN handle.offset + Chunk
                     ELSE Len(Entries)
             more == handle.seen \o SubSeq(Entries, handle.offset + 1, last)
  <2>1. /\ handle # NoHandle /\ ~handle.done /\ tree' = tree
        /\ handle' = IF handle.offset >= Len(Entries) THEN [handle EXCEPT !.done = TRUE]
                     ELSE [handle EXCEPT !.offset = last, !.seen = more]
    BY <1>19 DEF Readdir
  <2>2. handle.dir \in 1 .. Len(tree) /\ Shown(tree, handle)
    BY <1>1, <1>2, <1>4, <2>1 DEF TreeInv
  <2>3. Entries = tree[handle.dir].children /\ Entries \in Seq(Nat) /\ Len(Entries) \in Nat
        /\ DOMAIN Entries = 1 .. Len(Entries)
    BY <1>2, <2>2, TreeParts DEF Entries
  <2>4. handle.offset \in Nat /\ Chunk \in Nat \ {0}
    BY <1>2, MountAssumption DEF Handles
  <2>5. CASE handle.offset >= Len(Entries)
    <3>1. handle' = [handle EXCEPT !.done = TRUE]
      BY <2>1, <2>5
    <3>2. /\ handle'.dir = handle.dir /\ handle'.offset = handle.offset
          /\ handle'.seen = handle.seen /\ handle'.start = handle.start
          /\ handle'.intact = handle.intact
      BY <1>2, <3>1 DEF Handles
    <3>3. handle.intact => handle.start \subseteq Range(handle.seen)
      <4>1. SUFFICES ASSUME handle.intact
                     PROVE  handle.start \subseteq Range(handle.seen)
        OBVIOUS
      <4>2. /\ \A k \in 1 .. Len(Entries) :
                 k <= handle.offset => Entries[k] \in Range(handle.seen)
            /\ handle.start \subseteq Range(Entries)
        BY <2>2, <2>3, <4>1 DEF Shown
      <4>3. \A k \in 1 .. Len(Entries) : k <= handle.offset
        BY <2>3, <2>4, <2>5
      <4>4. Range(Entries) \subseteq Range(handle.seen)
        <5>1. ASSUME NEW x \in Range(Entries)
              PROVE  x \in Range(handle.seen)
          <6>1. PICK k \in 1 .. Len(Entries) : x = Entries[k]
            BY <2>3 DEF Range
          <6>2. QED  BY <4>2, <4>3, <6>1
        <5>2. QED  BY <5>1
      <4>5. QED  BY <4>2, <4>4
    <3>4. Shown(tree, handle')
      BY <2>2, <3>2, <3>3 DEF Shown
    <3>5. QED  BY <2>1, <3>4 DEF HandleInv
  <2>6. CASE ~(handle.offset >= Len(Entries))
    <3>1. last \in Nat /\ handle.offset < last /\ last <= Len(Entries)
      BY <2>3, <2>4, <2>6
    <3>2. handle' = [handle EXCEPT !.offset = last, !.seen = more]
      BY <2>1, <2>6
    <3>3. more = handle.seen \o SubSeq(tree[handle.dir].children, handle.offset + 1, last)
      BY <2>3
    <3> HIDE DEF last, more
    <3>4. Shown(tree, [handle EXCEPT !.offset = last, !.seen = more])
      BY <1>2, <2>1, <2>2, <2>3, <3>1, <3>3, ReaddirShown
    <3>5. Shown(tree, handle')
      BY <3>2, <3>4
    <3>6. QED  BY <2>1, <3>5 DEF HandleInv
  <2>7. QED  BY <2>5, <2>6
<1>20. CASE Closedir
  BY <1>6, <1>20 DEF Closedir
<1>21. QED
  BY <1>9, <1>10, <1>11, <1>12, <1>13, <1>14, <1>15, <1>16, <1>17, <1>18, <1>19, <1>20
     DEF Next

\* readdir(), asked again for every reply: a listing returns no entry twice, and
\* every entry the directory had when it was opened, whatever is added to it on
\* the way, as long as none is removed.
THEOREM ListingIsWhole == Spec => []ListingWhole
<1>1. Init => HandleInv
  BY DEF Init, HandleInv, NoHandle
<1>2. TypeInv /\ HandleInv /\ [Next]_vars => HandleInv'
  <2>1. HandleInv /\ UNCHANGED vars => HandleInv'
    BY DEF vars, treeVars, HandleInv
  <2>2. QED  BY <2>1, HandleSteps
<1>3. TypeInv /\ HandleInv => ListingWhole
  BY ShownWhole
<1>4. QED  BY <1>1, <1>2, <1>3, TypeInvHolds, PTL DEF Spec

-----------------------------------------------------------------------------
(* The views that are built.                                               *)

\* The words of main.rs are what they are called.
LEMMA CleanWords ==
  /\ San["public"] = "public" /\ San["host"] = "host" /\ San["by-sha256"] = "by-sha256"
  /\ San["by-type"] = "by-type" /\ San["by-date"] = "by-date" /\ San["git"] = "git"
  /\ San["README.txt"] = "README.txt" /\ San["repo"] \in AllNames
BY CleanAssumption, NameAssumption

\* The paths of a tree that a node is added to, and of that node.
LEMMA AddPath ==
  ASSUME NEW t \in Trees, NEW x \in Fresh, x.parent \in 0 .. Len(t), Len(t) > 0
  PROVE  /\ \A i \in 0 .. Len(t) : PathOf(Add(t, x))[i] = PathOf(t)[i]
         /\ PathOf(Add(t, x))[Len(t) + 1] = Append(PathOf(t)[x.parent], San[x.name])
<1> DEFINE u == Add(t, x)
           n == Len(t)
           D == 0 .. n
           S == {i \in D : PathOf(u)[i] = PathOf(t)[i]}
<1>1. n \in Nat /\ n > 0 /\ Root = 1
  BY TreeParts DEF Root
<1>2. u \in Trees /\ Len(u) = n + 1
  BY AddGrows
<1>3. /\ u[n + 1].parent = x.parent /\ u[n + 1].name = San[x.name]
      /\ \A i \in 1 .. n : u[i].parent = t[i].parent /\ u[i].name = t[i].name
  BY <1>2, AddIs
<1> HIDE DEF u
<1>4. \A i \in 0 .. n + 1 : PathOf(u)[i] = IF i <= Root THEN <<>>
                                          ELSE Append(PathOf(u)[u[i].parent], u[i].name)
  BY <1>2, PathIs
<1>5. \A i \in 0 .. n : PathOf(t)[i] = IF i <= Root THEN <<>>
                                      ELSE Append(PathOf(t)[t[i].parent], t[i].name)
  BY PathIs
<1>6. ASSUME NEW i \in D, \A j \in D : j < i => j \in S
      PROVE  i \in S
  <2>1. i \in 0 .. n /\ i \in 0 .. n + 1
    BY <1>1
  <2>2. CASE i <= Root
    BY <1>4, <1>5, <2>1, <2>2
  <2>3. CASE ~(i <= Root)
    <3>1. i \in 1 .. n /\ t[i].parent \in D /\ t[i].parent < i
      BY <1>1, <2>1, <2>3, TreeParts
    <3>2. PathOf(u)[t[i].parent] = PathOf(t)[t[i].parent]
      BY <1>6, <3>1
    <3>3. QED  BY <1>3, <1>4, <1>5, <2>1, <2>3, <3>1, <3>2
  <2>4. QED  BY <2>2, <2>3
<1>7. D \subseteq S
  <2>1. D \in SUBSET Nat
    BY <1>1
  <2> HIDE DEF D, S
  <2>2. QED  BY <1>6, <2>1, StrongInduction
<1>8. PathOf(u)[n + 1] = Append(PathOf(u)[x.parent], San[x.name])
  <2>1. n + 1 \in 0 .. n + 1 /\ ~(n + 1 <= Root)
    BY <1>1
  <2>2. QED  BY <1>3, <1>4, <2>1
<1>9. QED  BY <1>7, <1>8 DEF u

ViewNames == {"by-sha256", "by-type", "by-date"}
FileNames == {San[NameOf[b]] : b \in Blobs}

\* A node below the three views: which view it is in is the third name of its path.
Inside(t, i) ==
  LET path == PathOf(t)[i] IN
  /\ t[i].parent \in 4 .. Len(t) /\ t[t[i].parent].kind = "dir"
  /\ Len(path) > 3 /\ path[1] = "public" /\ path[2] = "host" /\ path[3] \in ViewNames
  /\ t[i].kind = "dir" => t[i].content = None /\ path[3] # "by-sha256"
  /\ t[i].kind = "file" => t[i].content \in Blobs /\ t[i].name \in FileNames
  /\ path[3] = "by-sha256" => t[i].parent = 4

\* The tree while build_from_descriptors works on it: nodes 4, 5 and 6 are the views.
Shape(t) ==
  /\ t \in Trees /\ Len(t) >= 6
  /\ \A i \in 1 .. 6 : t[i].kind = "dir" /\ t[i].content = None
  /\ t[2].parent = 1 /\ t[3].parent = 2 /\ \A i \in 4 .. 6 : t[i].parent = 3
  /\ t[2].name = "public" /\ ~t[1].lazy
  /\ PathOf(t)[2] = <<"public">> /\ PathOf(t)[3] = <<"public", "host">>
  /\ PathOf(t)[4] = <<"public", "host", "by-sha256">>
  /\ PathOf(t)[5] = <<"public", "host", "by-type">>
  /\ PathOf(t)[6] = <<"public", "host", "by-date">>
  /\ \A i \in 2 .. Len(t) : i \in Range(t[t[i].parent].children) /\ ~t[i].lazy
  /\ \A i \in 7 .. Len(t) : Inside(t, i)

\* What is in a view, and whether by-sha256 has each once.
FilesIn(t, n) == {j \in 7 .. Len(t) : PathOf(t)[j][3] = n /\ t[j].kind = "file"}
Has(t, n) == {t[i].content : i \in FilesIn(t, n)}
Once(t) ==
  \A i, j \in FilesIn(t, "by-sha256") : t[i].content = t[j].content => i = j

\* The path of a node of a view, or of a node below one.
LEMMA ViewPath ==
  ASSUME NEW t, Shape(t), NEW i \in 4 .. Len(t)
  PROVE  /\ PathOf(t)[i] \in Seq(AllNames) /\ Len(PathOf(t)[i]) >= 3
         /\ PathOf(t)[i][1] = "public" /\ PathOf(t)[i][2] = "host"
         /\ PathOf(t)[i][3] \in ViewNames
         /\ PathOf(t)[i][3] = "by-sha256" /\ t[i].kind = "dir" => i = 4
<1>1. t \in Trees /\ Len(t) \in Nat
  BY TreeParts DEF Shape
<1>2. PathOf(t)[i] \in Seq(AllNames)
  <2>1. i \in 0 .. Len(t) /\ PathOf(t) \in [0 .. Len(t) -> Seq(AllNames)]
    BY <1>1, PathIs
  <2>2. QED  BY <2>1
<1>3. i = 4 \/ i = 5 \/ i = 6 \/ i \in 7 .. Len(t)
  BY <1>1
<1>4. CASE i \in 7 .. Len(t)
  <2>1. Inside(t, i)
    BY <1>4 DEF Shape
  <2>2. Len(PathOf(t)[i]) \in Nat
    BY <1>2
  <2>3. QED  BY <1>2, <2>1, <2>2 DEF Inside
<1>5. CASE i = 4 \/ i = 5 \/ i = 6
  <2>1. PathOf(t)[i] \in {<<"public", "host", n>> : n \in ViewNames}
    BY <1>5 DEF Shape, ViewNames
  <2>2. PICK n \in ViewNames : PathOf(t)[i] = <<"public", "host", n>>
    BY <2>1
  <2>3. n = "by-sha256" => i = 4
    BY <1>5, <2>2 DEF Shape
  <2>4. QED  BY <1>2, <2>2, <2>3
<1>6. QED  BY <1>3, <1>4, <1>5

\* u is t and one more node, the last.
OneMore(t, u) ==
  /\ Shape(u) /\ Extends(t, u) /\ Len(u) = Len(t) + 1
  /\ \A i \in 0 .. Len(t) : PathOf(u)[i] = PathOf(t)[i]
  /\ \A i \in 1 .. Len(t) : u[i].kind = t[i].kind /\ u[i].content = t[i].content

\* Adding a directory or a file inside a view.
LEMMA AddInside ==
  ASSUME NEW t, Shape(t), NEW x \in Fresh, x.parent \in 4 .. Len(t),
         t[x.parent].kind = "dir", ~x.lazy,
         x.kind = "dir" => x.content = None /\ PathOf(t)[x.parent][3] # "by-sha256",
         x.kind = "file" => x.content \in Blobs /\ San[x.name] \in FileNames
  PROVE  LET u == Add(t, x) IN
         /\ OneMore(t, u)
         /\ PathOf(u)[Len(u)][3] = PathOf(t)[x.parent][3]
         /\ u[Len(u)].kind = x.kind /\ u[Len(u)].content = x.content
<1> DEFINE u == Add(t, x)
           n == Len(t)
           p == x.parent
           path(i) == PathOf(u)[i]
<1>1. t \in Trees /\ n \in Nat /\ n >= 6 /\ x.parent \in 0 .. Len(t) /\ x.parent <= Len(t)
  BY TreeParts DEF Shape
<1>2. u \in Trees /\ Grows(t, u) /\ Len(u) = n + 1
  BY <1>1, AddGrows
<1>3. /\ u[n + 1].kind = x.kind /\ u[n + 1].name = San[x.name] /\ u[n + 1].parent = p
      /\ ~u[n + 1].lazy /\ u[n + 1].content = x.content
      /\ \A i \in 1 .. n :
           /\ u[i].kind = t[i].kind /\ u[i].name = t[i].name
           /\ u[i].parent = t[i].parent /\ u[i].lazy = t[i].lazy
           /\ u[i].content = t[i].content
           /\ u[i].children = IF i = p /\ t[i].kind = "dir"
                              THEN Append(t[i].children, n + 1) ELSE t[i].children
  BY <1>1, <1>2, AddIs
<1>4. /\ \A i \in 0 .. n : path(i) = PathOf(t)[i]
      /\ path(n + 1) = Append(PathOf(t)[p], San[x.name])
  BY <1>1, AddPath
<1>5. /\ PathOf(t)[p] \in Seq(AllNames) /\ Len(PathOf(t)[p]) >= 3
      /\ PathOf(t)[p][1] = "public" /\ PathOf(t)[p][2] = "host"
      /\ PathOf(t)[p][3] \in ViewNames
      /\ PathOf(t)[p][3] = "by-sha256" => p = 4
  BY ViewPath
<1> HIDE DEF u
<1>6. /\ Len(path(n + 1)) > 3 /\ path(n + 1)[1] = "public" /\ path(n + 1)[2] = "host"
      /\ path(n + 1)[3] = PathOf(t)[p][3]
  <2> DEFINE s == PathOf(t)[p]
             e == San[x.name]
  <2>1. s \in Seq(AllNames) /\ Len(s) >= 3 /\ path(n + 1) = Append(s, e)
    BY <1>4, <1>5
  <2> HIDE DEF s, e, path
  <2>2. /\ Len(Append(s, e)) > 3 /\ Append(s, e)[1] = s[1] /\ Append(s, e)[2] = s[2]
        /\ Append(s, e)[3] = s[3]
    BY <2>1
  <2>3. QED  BY <1>5, <2>1, <2>2 DEF s
<1>7. \A i \in 1 .. 6 : i \in 1 .. n /\ i \in 0 .. n
  BY <1>1
<1>8. /\ \A i \in 1 .. 6 : u[i].kind = "dir" /\ u[i].content = None
      /\ u[2].parent = 1 /\ u[3].parent = 2 /\ \A i \in 4 .. 6 : u[i].parent = 3
      /\ u[2].name = "public" /\ ~u[1].lazy
  BY <1>3, <1>7 DEF Shape
<1>9. /\ path(2) = <<"public">> /\ path(3) = <<"public", "host">>
      /\ path(4) = <<"public", "host", "by-sha256">>
      /\ path(5) = <<"public", "host", "by-type">>
      /\ path(6) = <<"public", "host", "by-date">>
  <2>1. /\ path(2) = PathOf(t)[2] /\ path(3) = PathOf(t)[3] /\ path(4) = PathOf(t)[4]
        /\ path(5) = PathOf(t)[5] /\ path(6) = PathOf(t)[6]
    <3> HIDE DEF path
    <3> QED BY <1>4, <1>7
  <2> HIDE DEF path
  <2>2. QED  BY <2>1 DEF Shape
<1>10. ASSUME NEW i \in 2 .. Len(u)
       PROVE  i \in Range(u[u[i].parent].children) /\ ~u[i].lazy
  <2>1. CASE i = n + 1
    <3>0. p \in 1 .. n /\ t[p].kind = "dir"
      BY <1>1
    <3>1. u[p].children = Append(t[p].children, n + 1) /\ t[p].children \in Seq(Nat)
      <4> HIDE DEF p
      <4>1. u[p].children = Append(t[p].children, n + 1)
        BY <1>1, <1>3, <3>0
      <4>2. t[p].children \in Seq(Nat)
        BY <1>1, <3>0, TreeParts
      <4>3. QED  BY <4>1, <4>2
    <3>2. Range(Append(t[p].children, n + 1)) = Range(t[p].children) \union {n + 1}
      <4>1. n + 1 \in Nat /\ t[p].children \in Seq(Nat)
        BY <1>1, <3>1
      <4> HIDE DEF p, n
      <4>2. QED  BY <4>1, RangeAppend
    <3>3. QED  BY <1>3, <2>1, <3>1, <3>2
  <2>2. CASE i \in 2 .. n
    <3> DEFINE q == t[i].parent
    <3>1. i \in 1 .. n /\ q \in 1 .. n
      <4>1. i \in 1 .. n /\ q \in Nat /\ q < i
        BY <1>1, <2>2, TreeParts
      <4>2. i \in Range(t[q].children)
        BY <2>2 DEF Shape
      <4>3. CASE i \in 2 .. 6
        BY <1>1, <4>1, <4>3 DEF Shape
      <4>4. CASE i \in 7 .. n
        BY <1>1, <4>1, <4>4 DEF Shape, Inside
      <4>5. QED  BY <1>1, <4>1, <4>3, <4>4
    <3>2. i \in Range(t[q].children) /\ ~t[i].lazy /\ u[i].parent = q /\ u[i].lazy = t[i].lazy
      BY <1>3, <2>2, <3>1 DEF Shape
    <3> HIDE DEF q
    <3>3. t[q].children \in Seq(Nat)
      BY <1>1, <3>1, TreeParts
    <3>4. Range(Append(t[q].children, n + 1)) = Range(t[q].children) \union {n + 1}
      <4>1. n + 1 \in Nat
        BY <1>1
      <4> HIDE DEF n
      <4>2. QED  BY <3>3, <4>1, RangeAppend
    <3>5. Range(t[q].children) \subseteq Range(u[q].children)
      BY <1>3, <3>1, <3>4
    <3>6. QED  BY <3>2, <3>5
  <2>3. QED  BY <1>1, <1>2, <2>1, <2>2
<1>11. ASSUME NEW i \in 7 .. Len(u)
       PROVE  Inside(u, i)
  <2>1. CASE i = n + 1
    <3>1. p \in 4 .. Len(u) /\ u[p].kind = "dir"
      BY <1>1, <1>2, <1>3
    <3>2. u[i].parent = p /\ u[i].kind = x.kind /\ u[i].content = x.content
          /\ u[i].name = San[x.name] /\ path(i) = path(n + 1)
      BY <1>3, <2>1
    <3> HIDE DEF p, path
    <3>3. QED  BY <1>5, <1>6, <3>1, <3>2, <2>1 DEF Inside, path, p
  <2>2. CASE i \in 7 .. n
    <3>1. Inside(t, i) /\ i \in 1 .. n /\ i \in 0 .. n
      BY <1>1, <2>2 DEF Shape
    <3>2. t[i].parent \in 4 .. n /\ t[i].parent \in 1 .. n /\ t[i].parent \in 4 .. Len(u)
      BY <1>1, <1>2, <3>1 DEF Inside
    <3>3. /\ u[i].parent = t[i].parent /\ u[t[i].parent].kind = t[t[i].parent].kind
          /\ PathOf(u)[i] = PathOf(t)[i]
          /\ u[i].kind = t[i].kind /\ u[i].content = t[i].content /\ u[i].name = t[i].name
      BY <1>3, <1>4, <3>1, <3>2
    <3>4. QED  BY <3>1, <3>2, <3>3 DEF Inside
  <2>3. QED  BY <1>1, <1>2, <2>1, <2>2
<1>12. Shape(u)
  BY <1>1, <1>2, <1>8, <1>9, <1>10, <1>11 DEF Shape
<1>13. QED  BY <1>2, <1>3, <1>4, <1>6, <1>12 DEF u, Extends, OneMore

\* What a view has after that.
LEMMA AddHas ==
  ASSUME NEW t, Shape(t), NEW u, OneMore(t, u), NEW n
  PROVE  /\ \A i \in FilesIn(t, n) : u[i].content = t[i].content /\ i # Len(u)
         /\ \/ /\ u[Len(u)].kind = "file" /\ PathOf(u)[Len(u)][3] = n
               /\ FilesIn(u, n) = FilesIn(t, n) \union {Len(u)}
               /\ Has(u, n) = Has(t, n) \union {u[Len(u)].content}
            \/ /\ ~(u[Len(u)].kind = "file" /\ PathOf(u)[Len(u)][3] = n)
               /\ FilesIn(u, n) = FilesIn(t, n) /\ Has(u, n) = Has(t, n)
<1> DEFINE m == Len(t)
           e == m + 1
           new == u[e].kind = "file" /\ PathOf(u)[e][3] = n
<1>1. m \in Nat /\ m >= 6
  BY TreeParts DEF Shape
<1>2. \A j : j \in 7 .. e <=> j \in 7 .. m \/ j = e
  BY <1>1
<1>3. \A j \in 7 .. m : /\ PathOf(u)[j] = PathOf(t)[j] /\ u[j].kind = t[j].kind
                       /\ u[j].content = t[j].content /\ j # e
  BY <1>1 DEF OneMore
<1>4. Len(u) = e
  BY DEF OneMore
<1> HIDE DEF e, m
<1>5. \A j : j \in FilesIn(u, n) <=> j \in FilesIn(t, n) \/ (j = e /\ new)
  BY <1>2, <1>3, <1>4 DEF FilesIn, m
<1>6. \A j \in FilesIn(t, n) : u[j].content = t[j].content /\ j # e
  BY <1>3 DEF FilesIn, m
<1>7. FilesIn(u, n) = FilesIn(t, n) \union (IF new THEN {e} ELSE {})
  BY <1>5
<1>8. Has(u, n) = Has(t, n) \union (IF new THEN {u[e].content} ELSE {})
  BY <1>6, <1>7 DEF Has
<1>9. QED  BY <1>4, <1>6, <1>7, <1>8, Zenon

\* u has the files of t in each view, and more directories.
Furnishes(t, u) ==
  /\ Shape(u) /\ Extends(t, u)
  /\ \A n \in ViewNames : Has(u, n) = Has(t, n)
  /\ Once(t) => Once(u)

\* Furnishing twice is furnishing.
LEMMA FurnishesOn ==
  ASSUME NEW t, Shape(t), NEW u, NEW v, Furnishes(t, u), Furnishes(u, v)
  PROVE  Furnishes(t, t) /\ Furnishes(t, v)
<1>1. t \in Trees
  BY DEF Shape
<1>2. QED  BY <1>1, GrowsSelf, ExtendsOn DEF Furnishes, Extends

\* A place in view n of such a tree.
Corner(t, n) == {r \in [tree : Trees, ino : Nat] :
                   /\ Furnishes(t, r.tree)
                   /\ r.ino \in 4 .. Len(r.tree) /\ r.tree[r.ino].kind = "dir"
                   /\ PathOf(r.tree)[r.ino][3] = n}

\* A directory found or made inside a view other than by-sha256 is in that view.
LEMMA GetOrCreateInside ==
  ASSUME NEW t, Shape(t), NEW v \in ViewNames \ {"by-sha256"}, NEW p \in 4 .. Len(t),
         t[p].kind = "dir", PathOf(t)[p][3] = v, NEW n \in AllNames, n \notin FileNames
  PROVE  GetOrCreateDir(t, p, n) \in Corner(t, v)
<1>1. t \in Trees /\ Len(t) \in Nat /\ Len(t) >= 6 /\ DOMAIN t = 1 .. Len(t)
  BY TreeParts DEF Shape
<1>2. CASE Lookup(t, p, n) # 0
  <2> DEFINE c == Lookup(t, p, n)
  <2>1. c \in 1 .. Len(t) /\ t[c].name = n /\ t[c].parent = p
    BY <1>1, <1>2, LookupIs
  <2>2. GetOrCreateDir(t, p, n) = [tree |-> t, ino |-> c]
    BY <1>2 DEF GetOrCreateDir
  <2> HIDE DEF c
  <2>3. p < c /\ p >= 4
    <3>1. t[c].parent < c
      BY <1>1, <2>1, TreeParts
    <3>2. QED  BY <1>1, <2>1, <3>1
  <2>4. c \in 7 .. Len(t)
    <3>1. c >= 5
      BY <1>1, <2>1, <2>3
    <3>2. c # 5 /\ c # 6
      BY <2>1, <2>3 DEF Shape
    <3>3. QED  BY <1>1, <2>1, <3>1, <3>2
  <2>5. Inside(t, c) /\ t[c].kind \in {"dir", "file"}
    BY <1>1, <2>1, <2>4, TreeParts DEF Shape
  <2>6. t[c].kind = "dir"
    BY <2>1, <2>5 DEF Inside
  <2>7. PathOf(t)[c][3] = v
    <3>1. PathOf(t)[c] = Append(PathOf(t)[p], n)
      <4>1. c \in 0 .. Len(t) /\ ~(c <= Root)
        BY <1>1, <2>4 DEF Root
      <4>2. QED  BY <1>1, <2>1, <4>1, PathIs
    <3>2. PathOf(t)[p] \in Seq(AllNames) /\ Len(PathOf(t)[p]) >= 3
      BY ViewPath
    <3>3. QED  BY <3>1, <3>2
  <2>8. Furnishes(t, t)
    BY <1>1, GrowsSelf DEF Furnishes, Extends
  <2>9. [tree |-> t, ino |-> c] \in [tree : Trees, ino : Nat] /\ c \in 4 .. Len(t)
    BY <1>1, <2>4
  <2>10. QED  BY <2>2, <2>6, <2>7, <2>8, <2>9 DEF Corner
<1>3. CASE Lookup(t, p, n) = 0
  <2> DEFINE x == Dir(p, n)
             u == Add(t, x)
  <2>1. GetOrCreateDir(t, p, n) = [tree |-> u, ino |-> Len(t) + 1]
    BY <1>3 DEF GetOrCreateDir, AddDirectory
  <2>2. /\ x \in Fresh /\ x.parent = p /\ x.kind = "dir" /\ x.content = None /\ ~x.lazy
    <3>1. p \in Nat /\ None \in Contents
      BY Words
    <3>2. QED  BY <3>1, NewNodes DEF Dir
  <2> HIDE DEF x
  <2>3. OneMore(t, u) /\ PathOf(u)[Len(u)][3] = v /\ u[Len(u)].kind = "dir"
    BY <2>2, AddInside
  <2> HIDE DEF u
  <2>4. ASSUME NEW w
        PROVE  /\ FilesIn(u, w) = FilesIn(t, w) /\ Has(u, w) = Has(t, w)
               /\ \A i \in FilesIn(t, w) : u[i].content = t[i].content
    BY <2>3, AddHas
  <2>5. Once(t) => Once(u)
    BY <2>4 DEF Once
  <2>6. Furnishes(t, u)
    BY <2>3, <2>4, <2>5 DEF Furnishes, OneMore
  <2>7. [tree |-> u, ino |-> Len(u)] \in [tree : Trees, ino : Nat] /\ Len(u) \in 4 .. Len(u)
    BY <1>1, <2>3 DEF Shape, OneMore
  <2>8. QED  BY <2>1, <2>3, <2>6, <2>7 DEF Corner, OneMore
<1>4. QED  BY <1>2, <1>3

\* So is where a path of directories leads.
LEMMA PathInside ==
  ASSUME NEW t, Shape(t), NEW v \in ViewNames \ {"by-sha256"}, NEW p \in 4 .. Len(t),
         t[p].kind = "dir", PathOf(t)[p][3] = v,
         NEW path \in Seq(AllNames), Range(path) \cap FileNames = {}
  PROVE  GetOrCreateFrom(t, p, path) \in Corner(t, v)
<1> DEFINE n == Len(path)
<1>1. t \in Trees /\ Len(t) \in Nat /\ p \in 0 .. Len(t) /\ p \in Nat
  BY TreeParts DEF Shape
<1>2. PICK at : Leads(t, p, path, at)
  BY <1>1, PathSteps
<1>3. n \in Nat /\ \A k \in 1 .. n : path[k] \in AllNames /\ path[k] \notin FileNames
  BY DEF Range
<1> DEFINE S == {k \in 0 .. n : at[k] \in Corner(t, v)}
<1>4. 0 \in S
  <2>1. at[0] = [tree |-> t, ino |-> p]
    BY <1>2 DEF Leads
  <2>2. Furnishes(t, t)
    BY <1>1, GrowsSelf DEF Furnishes, Extends
  <2>3. QED  BY <1>1, <1>3, <2>1, <2>2 DEF Corner
<1>5. ASSUME NEW k \in 1 .. n, k - 1 \in S
      PROVE  k \in S
  <2> DEFINE r == at[k - 1]
  <2>1. /\ Furnishes(t, r.tree) /\ r.ino \in 4 .. Len(r.tree)
        /\ r.tree[r.ino].kind = "dir" /\ PathOf(r.tree)[r.ino][3] = v
    BY <1>5 DEF Corner
  <2>2. at[k] = GetOrCreateDir(r.tree, r.ino, path[k])
    BY <1>2 DEF Leads
  <2> HIDE DEF r
  <2>3. at[k] \in Corner(r.tree, v)
    BY <1>3, <2>1, <2>2, GetOrCreateInside DEF Furnishes
  <2>4. at[k] \in Corner(t, v)
    BY <2>1, <2>3, FurnishesOn DEF Corner
  <2>5. k \in 0 .. n
    BY <1>3
  <2>6. QED  BY <2>4, <2>5
<1>6. n \in S
  <2>1. 0 .. n \subseteq S
    <3> HIDE DEF S
    <3> QED BY <1>3, <1>4, <1>5, IntervalInduction
  <2>2. QED  BY <1>3, <2>1
<1>7. QED  BY <1>2, <1>6 DEF Leads

\* u is t with a file of b more in view v.
Filed(t, u, v, b) ==
  /\ Shape(u) /\ Once(u) /\ Extends(t, u)
  /\ \A n : Has(u, n) = IF v = n THEN Has(t, n) \union {b} ELSE Has(t, n)

\* A file added to a directory inside a view is in that view.
LEMMA FileInside ==
  ASSUME NEW t, Shape(t), Once(t), NEW p \in 4 .. Len(t), t[p].kind = "dir", NEW b \in Blobs,
         PathOf(t)[p][3] = "by-sha256" => b \notin Has(t, "by-sha256")
  PROVE  Filed(t, AddRemoteFile(t, p, NameOf[b], b), PathOf(t)[p][3], b)
<1> DEFINE x == File(p, NameOf[b], b)
           u == Add(t, x)
           v == PathOf(t)[p][3]
<1>1. u = AddRemoteFile(t, p, NameOf[b], b)
  BY DEF AddRemoteFile
<1>2. /\ x \in Fresh /\ x.parent = p /\ x.kind = "file" /\ x.content = b /\ ~x.lazy
      /\ San[x.name] \in FileNames
  <2>1. p \in Nat /\ b \in Contents /\ NameOf[b] \in AllNames
    BY BlobAssumption, Words
  <2>2. QED  BY <2>1, NewNodes DEF File, FileNames
<1> HIDE DEF x
<1>3. /\ OneMore(t, u) /\ PathOf(u)[Len(u)][3] = v
      /\ u[Len(u)].kind = "file" /\ u[Len(u)].content = b
  BY <1>2, AddInside
<1> HIDE DEF u
<1>4. ASSUME NEW n
      PROVE  /\ \A i \in FilesIn(t, n) : u[i].content = t[i].content
             /\ FilesIn(u, n) = IF v = n THEN FilesIn(t, n) \union {Len(u)} ELSE FilesIn(t, n)
             /\ Has(u, n) = IF v = n THEN Has(t, n) \union {b} ELSE Has(t, n)
  BY <1>3, AddHas
<1>5. Once(u)
  <2> DEFINE n == "by-sha256"
  <2>1. CASE v = n
    <3>1. \A i \in FilesIn(t, n) : t[i].content \in Has(t, n)
      BY DEF Has
    <3>2. \A i \in FilesIn(t, n) : u[i].content # b
      BY <1>4, <2>1, <3>1
    <3>3. FilesIn(u, n) = FilesIn(t, n) \union {Len(u)}
      BY <1>4, <2>1
    <3>4. \A i \in FilesIn(t, n) : u[i].content = t[i].content
      BY <1>4
    <3>5. QED  BY <1>3, <3>2, <3>3, <3>4 DEF Once
  <2>2. CASE v # n
    <3>1. /\ FilesIn(u, n) = FilesIn(t, n)
          /\ \A i \in FilesIn(t, n) : u[i].content = t[i].content
      BY <1>4, <2>2
    <3>2. QED  BY <3>1 DEF Once
  <2>3. QED  BY <2>1, <2>2
<1>6. QED  BY <1>1, <1>3, <1>4, <1>5 DEF OneMore, Filed

\* add_descriptor finds the hash in by-sha256 when a file there has it.
LEMMA SeenIs ==
  ASSUME NEW t, Shape(t), NEW b \in Blobs
  PROVE  Seen(t, 4, b) <=> b \in Has(t, "by-sha256")
<1> DEFINE s == t[4].children
           n == "by-sha256"
<1>1. t \in Trees /\ Len(t) \in Nat /\ Len(t) >= 6 /\ 4 \in 1 .. Len(t)
  BY TreeParts DEF Shape
<1>2. /\ s \in Seq(Nat)
      /\ \A k \in 1 .. Len(s) : s[k] \in 1 .. Len(t) /\ t[s[k]].parent = 4
  BY <1>1, TreeParts
<1>3. ASSUME NEW c \in Range(s)
      PROVE  c \in FilesIn(t, n) /\ t[c].content \in Blobs
  <2>1. c \in 1 .. Len(t) /\ t[c].parent = 4
    <3> HIDE DEF s
    <3> QED BY <1>2 DEF Range
  <2>2. c > 4 /\ c # 5 /\ c # 6
    BY <1>1, <2>1, TreeParts DEF Shape
  <2>3. c \in 7 .. Len(t)
    BY <1>1, <2>1, <2>2
  <2>4. Inside(t, c) /\ t[c].kind \in {"dir", "file"}
    BY <1>1, <2>1, <2>3, TreeParts DEF Shape
  <2>5. PathOf(t)[c][3] = n
    <3>1. PathOf(t)[c] = Append(<<"public", "host", n>>, t[c].name)
      <4>1. c \in 0 .. Len(t) /\ ~(c <= Root)
        BY <1>1, <2>3 DEF Root
      <4>2. PathOf(t)[c] = Append(PathOf(t)[4], t[c].name)
        BY <1>1, <2>1, <4>1, PathIs
      <4>3. QED  BY <4>2 DEF Shape
    <3>2. QED  BY <3>1
  <2>6. t[c].kind = "file"
    BY <2>4, <2>5 DEF Inside
  <2>7. QED  BY <2>3, <2>4, <2>5, <2>6 DEF FilesIn, Inside
<1>4. ASSUME NEW c \in FilesIn(t, n)
      PROVE  c \in Range(s)
  <2>1. c \in 7 .. Len(t) /\ PathOf(t)[c][3] = n
    BY DEF FilesIn
  <2>2. Inside(t, c) /\ c \in 2 .. Len(t)
    BY <1>1, <2>1 DEF Shape
  <2>3. t[c].parent = 4
    BY <2>1, <2>2 DEF Inside
  <2>4. QED  BY <2>2, <2>3 DEF Shape
<1>5. \A a \in Blobs : ShaOf[a] = ShaOf[b] <=> a = b
  BY ViewAssumption
<1>6. Seen(t, 4, b) <=> \E c \in Range(s) : t[c].content = b
  BY <1>3, <1>5 DEF Seen
<1>7. b \in Has(t, n) <=> \E c \in FilesIn(t, n) : t[c].content = b
  BY DEF Has
<1>8. QED  BY <1>3, <1>4, <1>6, <1>7

\* Each view has the blobs of S, by-sha256 each of them once.
Presents(t, S) == Shape(t) /\ Once(t) /\ \A n \in ViewNames : Has(t, n) = S

\* add_descriptor shows the blob in each view.
LEMMA DescriptorShows ==
  ASSUME NEW t, NEW S, Presents(t, S), NEW b \in Blobs,
         NEW dirs, dirs = [sha |-> 4, type |-> 5, date |-> 6]
  PROVE  Presents(AddDescriptor(t, dirs, b), S \union {b})
<1> DEFINE one == IF Seen(t, dirs.sha, b) THEN t ELSE AddRemoteFile(t, dirs.sha, NameOf[b], b)
           ty  == GetOrCreateDir(one, dirs.type, TypeOf[b])
           two == AddRemoteFile(ty.tree, ty.ino, NameOf[b], b)
           day == GetOrCreateFrom(two, dirs.date, DayOf[b])
           end == AddRemoteFile(day.tree, day.ino, NameOf[b], b)
<1>1. AddDescriptor(t, dirs, b) = end
  BY DEF AddDescriptor
<1>2. /\ TypeOf[b] \in AllNames /\ TypeOf[b] \notin FileNames
      /\ DayOf[b] \in Seq(AllNames) /\ Range(DayOf[b]) \cap FileNames = {}
  BY BlobAssumption, ViewAssumption DEF FileNames
<1>3. dirs.sha = 4 /\ dirs.type = 5 /\ dirs.date = 6
  OBVIOUS
<1>4. ASSUME NEW u, Shape(u)
      PROVE  /\ 4 \in 4 .. Len(u) /\ u[4].kind = "dir" /\ PathOf(u)[4][3] = "by-sha256"
             /\ 5 \in 4 .. Len(u) /\ u[5].kind = "dir" /\ PathOf(u)[5][3] = "by-type"
             /\ 6 \in 4 .. Len(u) /\ u[6].kind = "dir" /\ PathOf(u)[6][3] = "by-date"
  <2>1. Len(u) \in Nat
    BY <1>4, TreeParts DEF Shape
  <2>2. QED  BY <1>4, <2>1 DEF Shape
<1>5. ViewNames = {"by-sha256", "by-type", "by-date"}
  BY DEF ViewNames
<1>6. /\ Shape(one) /\ Once(one)
      /\ Has(one, "by-sha256") = S \union {b}
      /\ Has(one, "by-type") = S /\ Has(one, "by-date") = S
  <2>1. CASE Seen(t, 4, b)
    BY <1>3, <1>5, <2>1, SeenIs DEF Presents
  <2>2. CASE ~Seen(t, 4, b)
    <3>1. b \notin Has(t, "by-sha256") /\ one = AddRemoteFile(t, 4, NameOf[b], b)
      BY <1>3, <2>2, SeenIs DEF Presents
    <3> HIDE DEF one
    <3>2. Filed(t, one, "by-sha256", b)
      <4>1. 4 \in 4 .. Len(t) /\ t[4].kind = "dir" /\ PathOf(t)[4][3] = "by-sha256"
        BY <1>4 DEF Presents
      <4>2. QED  BY <3>1, <4>1, FileInside DEF Presents
    <3>3. QED  BY <1>5, <3>2 DEF Presents, Filed
  <2>3. QED  BY <2>1, <2>2
<1> HIDE DEF one
<1>7. ty \in Corner(one, "by-type")
  <2>1. 5 \in 4 .. Len(one) /\ one[5].kind = "dir" /\ PathOf(one)[5][3] = "by-type"
    BY <1>4, <1>6
  <2>2. "by-type" \in ViewNames \ {"by-sha256"}
    BY <1>5
  <2>3. QED  BY <1>2, <1>3, <1>6, <2>1, <2>2, GetOrCreateInside
<1> HIDE DEF ty
<1>8. /\ Shape(ty.tree) /\ Once(ty.tree) /\ \A n \in ViewNames : Has(ty.tree, n) = Has(one, n)
      /\ ty.ino \in 4 .. Len(ty.tree) /\ ty.tree[ty.ino].kind = "dir"
      /\ PathOf(ty.tree)[ty.ino][3] = "by-type"
  BY <1>6, <1>7 DEF Corner, Furnishes
<1>9. /\ Shape(two) /\ Once(two)
      /\ Has(two, "by-sha256") = S \union {b}
      /\ Has(two, "by-type") = S \union {b} /\ Has(two, "by-date") = S
  <2>1. Filed(ty.tree, two, "by-type", b)
    BY <1>8, FileInside
  <2> HIDE DEF two
  <2>2. QED  BY <1>5, <1>6, <1>8, <2>1 DEF Filed
<1> HIDE DEF two
<1>10. day \in Corner(two, "by-date")
  <2>1. 6 \in 4 .. Len(two) /\ two[6].kind = "dir" /\ PathOf(two)[6][3] = "by-date"
    BY <1>4, <1>9
  <2>2. "by-date" \in ViewNames \ {"by-sha256"}
    BY <1>5
  <2>3. QED  BY <1>2, <1>3, <1>9, <2>1, <2>2, PathInside
<1> HIDE DEF day
<1>11. /\ Shape(day.tree) /\ Once(day.tree) /\ \A n \in ViewNames : Has(day.tree, n) = Has(two, n)
       /\ day.ino \in 4 .. Len(day.tree) /\ day.tree[day.ino].kind = "dir"
       /\ PathOf(day.tree)[day.ino][3] = "by-date"
  BY <1>9, <1>10 DEF Corner, Furnishes
<1>12. Filed(day.tree, end, "by-date", b)
  BY <1>11, FileInside
<1> HIDE DEF end
<1>13. QED  BY <1>1, <1>5, <1>9, <1>11, <1>12 DEF Presents, Filed

\* u is t and a directory n more, in p.
DirAdded(t, u, p, n) ==
  /\ u \in Trees /\ Len(u) = Len(t) + 1
  /\ u[Len(u)].kind = "dir" /\ u[Len(u)].name = n /\ u[Len(u)].parent = p
  /\ ~u[Len(u)].lazy /\ u[Len(u)].content = None /\ u[Len(u)].children = <<>>
  /\ \A i \in 1 .. Len(t) :
       /\ u[i].kind = t[i].kind /\ u[i].name = t[i].name /\ u[i].parent = t[i].parent
       /\ u[i].lazy = t[i].lazy /\ u[i].content = t[i].content
       /\ Range(t[i].children) \subseteq Range(u[i].children)
  /\ Len(u) \in Range(u[p].children)
  /\ \A i \in 0 .. Len(t) : PathOf(u)[i] = PathOf(t)[i]
  /\ PathOf(u)[Len(u)] = Append(PathOf(t)[p], n)

\* add_directory does that.
LEMMA AddDirIs ==
  ASSUME NEW t \in Trees, NEW p \in 1 .. Len(t), t[p].kind = "dir",
         NEW n \in AllNames, San[n] = n
  PROVE  DirAdded(t, AddDirectory(t, p, n), p, n)
<1> DEFINE x == Dir(p, n)
           u == Add(t, x)
           m == Len(t)
<1>1. m \in Nat /\ m > 0 /\ p \in Nat /\ None \in Contents
  BY TreeParts, Words
<1>2. /\ x \in Fresh /\ x.parent = p /\ x.kind = "dir" /\ x.content = None /\ ~x.lazy
      /\ x.name = n
  BY <1>1, NewNodes DEF Dir
<1>3. u = AddDirectory(t, p, n)
  BY DEF AddDirectory
<1> HIDE DEF x
<1>4. u \in Trees /\ Len(u) = m + 1
  BY <1>1, <1>2, AddGrows
<1>5. /\ u[m + 1].kind = "dir" /\ u[m + 1].name = n /\ u[m + 1].parent = p
      /\ ~u[m + 1].lazy /\ u[m + 1].content = None /\ u[m + 1].children = <<>>
      /\ \A i \in 1 .. m :
           /\ u[i].kind = t[i].kind /\ u[i].name = t[i].name
           /\ u[i].parent = t[i].parent /\ u[i].lazy = t[i].lazy
           /\ u[i].content = t[i].content
           /\ u[i].children = IF i = p /\ t[i].kind = "dir"
                              THEN Append(t[i].children, m + 1) ELSE t[i].children
  <2>1. /\ u[Len(u)].kind = x.kind /\ u[Len(u)].name = San[x.name]
        /\ u[Len(u)].parent = x.parent /\ u[Len(u)].children = <<>>
        /\ u[Len(u)].lazy = x.lazy /\ u[Len(u)].content = x.content
        /\ \A i \in 1 .. m :
             /\ u[i].kind = t[i].kind /\ u[i].name = t[i].name
             /\ u[i].parent = t[i].parent /\ u[i].lazy = t[i].lazy
             /\ u[i].content = t[i].content
             /\ u[i].children = IF i = x.parent /\ t[i].kind = "dir"
                                THEN Append(t[i].children, Len(u)) ELSE t[i].children
    BY <1>2, AddIs
  <2> HIDE DEF u, m
  <2>2. QED  BY <1>2, <1>4, <2>1
<1>6. /\ \A i \in 0 .. m : PathOf(u)[i] = PathOf(t)[i]
      /\ PathOf(u)[m + 1] = Append(PathOf(t)[p], n)
  <2>1. x.parent \in 0 .. Len(t) /\ Len(t) > 0
    BY <1>1, <1>2
  <2>2. QED  BY <1>2, <2>1, AddPath
<1> HIDE DEF u
<1>7. \A i \in 1 .. m :
        Range(Append(t[i].children, m + 1)) = Range(t[i].children) \union {m + 1}
  <2>1. \A i \in 1 .. m : t[i].children \in Seq(Nat)
    BY TreeParts
  <2>2. m + 1 \in Nat
    BY <1>1
  <2>3. QED  BY <2>1, <2>2, RangeAppend
<1>8. \A i \in 1 .. m : Range(t[i].children) \subseteq Range(u[i].children)
  BY <1>5, <1>7
<1>9. m + 1 \in Range(u[p].children)
  BY <1>5, <1>7
<1>10. QED  BY <1>3, <1>4, <1>5, <1>6, <1>8, <1>9 DEF DirAdded

\* A tree of directories, all of them listed.
Bare(t) ==
  /\ t \in Trees /\ Len(t) > 0 /\ ~t[1].lazy
  /\ \A i \in 1 .. Len(t) : t[i].kind = "dir" /\ t[i].content = None
  /\ \A i \in 2 .. Len(t) : i \in Range(t[t[i].parent].children) /\ ~t[i].lazy
                            /\ t[i].parent \in 1 .. Len(t)

\* One directory more leaves it one.
LEMMA BareOn ==
  ASSUME NEW t, Bare(t), NEW u, NEW p \in 1 .. Len(t), NEW n, DirAdded(t, u, p, n)
  PROVE  Bare(u)
<1>1. Len(t) \in Nat /\ Len(t) > 0 /\ Len(u) = Len(t) + 1 /\ u \in Trees
  BY TreeParts DEF Bare, DirAdded
<1>2. \A i \in 1 .. Len(u) : i = Len(u) \/ i \in 1 .. Len(t)
  BY <1>1
<1>3. \A i \in 1 .. Len(u) : u[i].kind = "dir" /\ u[i].content = None
  BY <1>2 DEF Bare, DirAdded
<1>4. ASSUME NEW i \in 2 .. Len(u)
      PROVE  i \in Range(u[u[i].parent].children) /\ ~u[i].lazy /\ u[i].parent \in 1 .. Len(u)
  <2>1. CASE i = Len(u)
    BY <1>1, <2>1 DEF DirAdded
  <2>2. CASE i \in 2 .. Len(t)
    <3>1. /\ i \in 1 .. Len(t) /\ t[i].parent \in 1 .. Len(t)
          /\ i \in Range(t[t[i].parent].children) /\ ~t[i].lazy
      BY <1>1, <2>2 DEF Bare
    <3>2. u[i].parent = t[i].parent /\ u[i].lazy = t[i].lazy
          /\ Range(t[t[i].parent].children) \subseteq Range(u[t[i].parent].children)
      BY <3>1 DEF DirAdded
    <3>3. QED  BY <1>1, <3>1, <3>2
  <2>3. QED  BY <1>1, <2>1, <2>2
<1>5. ~u[1].lazy
  <2>1. 1 \in 1 .. Len(t)
    BY <1>1
  <2>2. QED  BY <2>1 DEF Bare, DirAdded
<1>6. QED  BY <1>1, <1>3, <1>4, <1>5 DEF Bare

-----------------------------------------------------------------------------
(* /public as it is built.                                                 *)

HostTree == AddDirectory(AddDirectory(NewTree, Root, "public"), 2, "host")
PublicTree(s) == BuildFromDescriptors(HostTree, 3, s)

\* Before the first descriptor the views are empty.
LEMMA BaseShows ==
  /\ HostTree \in Trees /\ Len(HostTree) = 3
  /\ Presents(Emptied(HostTree, 3), {})
  /\ Range(Emptied(HostTree, 3)[Root].children) = {2}
<1> DEFINE t1 == NewTree
           t2 == AddDirectory(t1, 1, "public")
           t3 == AddDirectory(t2, 2, "host")
           t4 == AddDirectory(t3, 3, "by-sha256")
           t5 == AddDirectory(t4, 3, "by-type")
           t6 == AddDirectory(t5, 3, "by-date")
<1>0. /\ {"public", "host", "by-sha256", "by-type", "by-date"} \subseteq AllNames
      /\ \A n \in {"public", "host", "by-sha256", "by-type", "by-date"} : San[n] = n
  BY Words, CleanAssumption
<1>1. Bare(t1) /\ Len(t1) = 1 /\ t1[1].children = <<>> /\ PathOf(t1)[1] = <<>>
  <2>1. t1 \in Trees /\ Len(t1) = 1 /\ t1[1] = Dir(0, "/")
    BY NewTreeIs
  <2> HIDE DEF t1
  <2>2. PathOf(t1)[1] = <<>>
    <3>1. 1 \in 0 .. Len(t1) /\ 1 <= Root
      BY <2>1 DEF Root
    <3>2. QED  BY <2>1, <3>1, PathIs
  <2>3. \A i \in 2 .. Len(t1) : FALSE
    BY <2>1
  <2>4. \A i \in 1 .. Len(t1) : t1[i].kind = "dir" /\ t1[i].content = None
    BY <2>1 DEF Dir
  <2>5. QED  BY <2>1, <2>2, <2>3, <2>4 DEF Bare, Dir
<1>2. HostTree = t3 /\ Emptied(HostTree, 3) = t6
  BY DEF HostTree, Emptied, Root
<1> HIDE DEF t1
<1>3. DirAdded(t1, t2, 1, "public") /\ Bare(t2) /\ Len(t2) = 2
  <2>1. 1 \in 1 .. Len(t1) /\ t1[1].kind = "dir" /\ t1 \in Trees
    BY <1>1 DEF Bare
  <2>2. DirAdded(t1, t2, 1, "public")
    BY <1>0, <2>1, AddDirIs
  <2> HIDE DEF t2
  <2>3. QED
    <3>1. Bare(t2)
      BY <1>1, <2>1, <2>2, BareOn
    <3>2. Len(t2) = 2
      BY <1>1, <2>2 DEF DirAdded
    <3>3. QED  BY <2>2, <3>1, <3>2
<1> HIDE DEF t2
<1>4. DirAdded(t2, t3, 2, "host") /\ Bare(t3) /\ Len(t3) = 3
  <2>1. 2 \in 1 .. Len(t2) /\ t2[2].kind = "dir" /\ t2 \in Trees
    BY <1>3 DEF Bare
  <2>2. DirAdded(t2, t3, 2, "host")
    BY <1>0, <2>1, AddDirIs
  <2> HIDE DEF t3
  <2>3. QED
    <3>1. Bare(t3)
      BY <1>3, <2>1, <2>2, BareOn
    <3>2. Len(t3) = 3
      BY <1>3, <2>2 DEF DirAdded
    <3>3. QED  BY <2>2, <3>1, <3>2
<1> HIDE DEF t3
<1>5. DirAdded(t3, t4, 3, "by-sha256") /\ Bare(t4) /\ Len(t4) = 4
  <2>1. 3 \in 1 .. Len(t3) /\ t3[3].kind = "dir" /\ t3 \in Trees
    BY <1>4 DEF Bare
  <2>2. DirAdded(t3, t4, 3, "by-sha256")
    BY <1>0, <2>1, AddDirIs
  <2> HIDE DEF t4
  <2>3. QED
    <3>1. Bare(t4)
      BY <1>4, <2>1, <2>2, BareOn
    <3>2. Len(t4) = 4
      BY <1>4, <2>2 DEF DirAdded
    <3>3. QED  BY <2>2, <3>1, <3>2
<1> HIDE DEF t4
<1>6. DirAdded(t4, t5, 3, "by-type") /\ Bare(t5) /\ Len(t5) = 5
  <2>1. 3 \in 1 .. Len(t4) /\ t4[3].kind = "dir" /\ t4 \in Trees
    BY <1>5 DEF Bare
  <2>2. DirAdded(t4, t5, 3, "by-type")
    BY <1>0, <2>1, AddDirIs
  <2> HIDE DEF t5
  <2>3. QED
    <3>1. Bare(t5)
      BY <1>5, <2>1, <2>2, BareOn
    <3>2. Len(t5) = 5
      BY <1>5, <2>2 DEF DirAdded
    <3>3. QED  BY <2>2, <3>1, <3>2
<1> HIDE DEF t5
<1>7. DirAdded(t5, t6, 3, "by-date") /\ Bare(t6) /\ Len(t6) = 6
  <2>1. 3 \in 1 .. Len(t5) /\ t5[3].kind = "dir" /\ t5 \in Trees
    BY <1>6 DEF Bare
  <2>2. DirAdded(t5, t6, 3, "by-date")
    BY <1>0, <2>1, AddDirIs
  <2> HIDE DEF t6
  <2>3. QED
    <3>1. Bare(t6)
      BY <1>6, <2>1, <2>2, BareOn
    <3>2. Len(t6) = 6
      BY <1>6, <2>2 DEF DirAdded
    <3>3. QED  BY <2>2, <3>1, <3>2
<1> HIDE DEF t6
<1>8. /\ \A a : Append(<<>>, a) = <<a>> /\ Append(<<"public">>, a) = <<"public", a>>
      /\ \A a : Append(<<"public", "host">>, a) = <<"public", "host", a>>
  <2>1. ASSUME NEW a PROVE Append(<<>>, a) = <<a>>
    OBVIOUS
  <2>2. ASSUME NEW x, NEW a PROVE Append(<<x>>, a) = <<x, a>>
    <3>1. <<x>> \in Seq({x, a}) /\ <<x, a>> \in Seq({x, a}) /\ Len(<<x>>) = 1
          /\ Len(<<x, a>>) = 2 /\ <<x>>[1] = x /\ <<x, a>>[1] = x /\ <<x, a>>[2] = a
      OBVIOUS
    <3>2. /\ Append(<<x>>, a) \in Seq({x, a}) /\ Len(Append(<<x>>, a)) = 2
          /\ Append(<<x>>, a)[1] = x /\ Append(<<x>>, a)[2] = a
      BY <3>1, AppendProperties
    <3>3. \A i \in 1 .. 2 : i = 1 \/ i = 2
      OBVIOUS
    <3>4. \A i \in 1 .. Len(<<x, a>>) : Append(<<x>>, a)[i] = <<x, a>>[i]
      BY <3>1, <3>2, <3>3
    <3>5. QED  BY <3>1, <3>2, <3>4, SeqEqual
  <2>3. ASSUME NEW x, NEW y, NEW a PROVE Append(<<x, y>>, a) = <<x, y, a>>
    <3> DEFINE s == <<x, y>>
               u == <<x, y, a>>
    <3>1. s \in Seq({x, y, a}) /\ u \in Seq({x, y, a}) /\ Len(s) = 2 /\ Len(u) = 3
          /\ s[1] = x /\ s[2] = y /\ u[1] = x /\ u[2] = y /\ u[3] = a
      OBVIOUS
    <3> HIDE DEF s, u
    <3>2. /\ Append(s, a) \in Seq({x, y, a}) /\ Len(Append(s, a)) = 3
          /\ Append(s, a)[1] = x /\ Append(s, a)[2] = y /\ Append(s, a)[3] = a
      <4>1. a \in {x, y, a} /\ 1 \in 1 .. Len(s) /\ 2 \in 1 .. Len(s) /\ Len(s) + 1 = 3
        BY <3>1
      <4> DEFINE S == {x, y, a}
      <4> HIDE DEF S
      <4>2. s \in Seq(S) /\ a \in S
        BY <3>1, <4>1 DEF S
      <4>3. /\ Append(s, a) \in Seq(S) /\ Len(Append(s, a)) = Len(s) + 1
            /\ \A i \in 1 .. Len(s) : Append(s, a)[i] = s[i]
            /\ Append(s, a)[Len(s) + 1] = a
        BY <4>2, AppendProperties
      <4>4. QED  BY <3>1, <4>1, <4>3 DEF S
    <3>3. \A i \in 1 .. 3 : i = 1 \/ i = 2 \/ i = 3
      OBVIOUS
    <3>4. \A i \in 1 .. Len(u) : Append(s, a)[i] = u[i]
      BY <3>1, <3>2, <3>3
    <3>5. Append(s, a) = u
      BY <3>1, <3>2, <3>4, SeqEqual
    <3>6. QED  BY <3>5 DEF s, u
  <2>4. QED  BY <2>1, <2>2, <2>3
<1>9. /\ t2[2].name = "public"
       /\ t2[2].parent = 1 /\ PathOf(t2)[2] = <<"public">>
  <2>1. t2[2].parent = 1 /\ t2[2].name = "public"
          /\ PathOf(t2)[2] = Append(PathOf(t1)[1], "public")
    BY <1>1, <1>3 DEF DirAdded
  <2>2. \A i \in 2 .. 1 : /\ t2[i].parent = t1[i].parent /\ t2[i].name = t1[i].name
                           /\ PathOf(t2)[i] = PathOf(t1)[i]
    <3>1. \A i \in 2 .. 1 : i \in 1 .. Len(t1) /\ i \in 0 .. Len(t1)
      BY <1>1
    <3>2. QED  BY <1>3, <3>1 DEF DirAdded
  <2>3. TRUE
    OBVIOUS
  <2>4. QED  BY <1>8, <1>1, <2>1, <2>2, <2>3
<1>10. /\ t3[2].name = "public"
       /\ t3[2].parent = 1 /\ PathOf(t3)[2] = <<"public">>
       /\ t3[3].parent = 2 /\ PathOf(t3)[3] = <<"public", "host">>
  <2>1. t3[3].parent = 2 /\ t3[3].name = "host"
          /\ PathOf(t3)[3] = Append(PathOf(t2)[2], "host")
    BY <1>3, <1>4 DEF DirAdded
  <2>2. \A i \in 2 .. 2 : /\ t3[i].parent = t2[i].parent /\ t3[i].name = t2[i].name
                           /\ PathOf(t3)[i] = PathOf(t2)[i]
    <3>1. \A i \in 2 .. 2 : i \in 1 .. Len(t2) /\ i \in 0 .. Len(t2)
      BY <1>3
    <3>2. QED  BY <1>4, <3>1 DEF DirAdded
  <2>3. 2 \in 2 .. 2
    OBVIOUS
  <2>4. QED  BY <1>8, <1>1, <1>9, <2>1, <2>2, <2>3
<1>11. /\ t4[2].name = "public"
       /\ t4[2].parent = 1 /\ PathOf(t4)[2] = <<"public">>
       /\ t4[3].parent = 2 /\ PathOf(t4)[3] = <<"public", "host">>
       /\ t4[4].parent = 3 /\ PathOf(t4)[4] = <<"public", "host", "by-sha256">>
  <2>1. t4[4].parent = 3 /\ t4[4].name = "by-sha256"
          /\ PathOf(t4)[4] = Append(PathOf(t3)[3], "by-sha256")
    BY <1>4, <1>5 DEF DirAdded
  <2>2. \A i \in 2 .. 3 : /\ t4[i].parent = t3[i].parent /\ t4[i].name = t3[i].name
                           /\ PathOf(t4)[i] = PathOf(t3)[i]
    <3>1. \A i \in 2 .. 3 : i \in 1 .. Len(t3) /\ i \in 0 .. Len(t3)
      BY <1>4
    <3>2. QED  BY <1>5, <3>1 DEF DirAdded
  <2>3. 2 \in 2 .. 3 /\ 3 \in 2 .. 3
    OBVIOUS
  <2>4. QED  BY <1>8, <1>1, <1>10, <2>1, <2>2, <2>3
<1>12. /\ t5[2].name = "public"
       /\ t5[2].parent = 1 /\ PathOf(t5)[2] = <<"public">>
       /\ t5[3].parent = 2 /\ PathOf(t5)[3] = <<"public", "host">>
       /\ t5[4].parent = 3 /\ PathOf(t5)[4] = <<"public", "host", "by-sha256">>
       /\ t5[5].parent = 3 /\ PathOf(t5)[5] = <<"public", "host", "by-type">>
  <2>1. t5[5].parent = 3 /\ t5[5].name = "by-type"
          /\ PathOf(t5)[5] = Append(PathOf(t4)[3], "by-type")
    BY <1>5, <1>6 DEF DirAdded
  <2>2. \A i \in 2 .. 4 : /\ t5[i].parent = t4[i].parent /\ t5[i].name = t4[i].name
                           /\ PathOf(t5)[i] = PathOf(t4)[i]
    <3>1. \A i \in 2 .. 4 : i \in 1 .. Len(t4) /\ i \in 0 .. Len(t4)
      BY <1>5
    <3>2. QED  BY <1>6, <3>1 DEF DirAdded
  <2>3. 2 \in 2 .. 4 /\ 3 \in 2 .. 4 /\ 4 \in 2 .. 4
    OBVIOUS
  <2>4. QED  BY <1>8, <1>1, <1>11, <2>1, <2>2, <2>3
<1>13. /\ t6[2].name = "public"
       /\ t6[2].parent = 1 /\ PathOf(t6)[2] = <<"public">>
       /\ t6[3].parent = 2 /\ PathOf(t6)[3] = <<"public", "host">>
       /\ t6[4].parent = 3 /\ PathOf(t6)[4] = <<"public", "host", "by-sha256">>
       /\ t6[5].parent = 3 /\ PathOf(t6)[5] = <<"public", "host", "by-type">>
       /\ t6[6].parent = 3 /\ PathOf(t6)[6] = <<"public", "host", "by-date">>
  <2>1. t6[6].parent = 3 /\ t6[6].name = "by-date"
          /\ PathOf(t6)[6] = Append(PathOf(t5)[3], "by-date")
    BY <1>6, <1>7 DEF DirAdded
  <2>2. \A i \in 2 .. 5 : /\ t6[i].parent = t5[i].parent /\ t6[i].name = t5[i].name
                           /\ PathOf(t6)[i] = PathOf(t5)[i]
    <3>1. \A i \in 2 .. 5 : i \in 1 .. Len(t5) /\ i \in 0 .. Len(t5)
      BY <1>6
    <3>2. QED  BY <1>7, <3>1 DEF DirAdded
  <2>3. 2 \in 2 .. 5 /\ 3 \in 2 .. 5 /\ 4 \in 2 .. 5 /\ 5 \in 2 .. 5
    OBVIOUS
  <2>4. QED  BY <1>8, <1>1, <1>12, <2>1, <2>2, <2>3
<1>14. \A i \in 7 .. Len(t6) : FALSE
  BY <1>7
<1>15. Shape(t6)
  <2>1. \A i \in 4 .. 6 : t6[i].parent = 3
    <3>1. \A i \in 4 .. 6 : i = 4 \/ i = 5 \/ i = 6
      OBVIOUS
    <3>2. QED  BY <1>13, <3>1
  <2>2. t6 \in Trees /\ Len(t6) >= 6
    BY <1>7 DEF Bare
  <2>3. QED  BY <1>7, <1>13, <1>14, <2>1, <2>2 DEF Shape, Bare
<1>16. \A n : FilesIn(t6, n) = {}
  BY <1>14 DEF FilesIn
<1>17. Once(t6) /\ \A n : Has(t6, n) = {}
  BY <1>16 DEF Once, Has
<1>18. Range(t6[Root].children) = {2}
  <2>1. t6[1].children \in Seq(Nat) /\ t6 \in Trees
        /\ \A k \in 1 .. Len(t6[1].children) :
             t6[1].children[k] \in 1 .. 6 /\ t6[t6[1].children[k]].parent = 1
    <3>1. t6 \in Trees /\ 1 \in 1 .. Len(t6)
      BY <1>7 DEF Bare
    <3>2. QED  BY <1>7, <3>1, TreeParts
  <2>2. \A i \in 1 .. 6 : t6[i].parent = 1 => i = 2
    <3>1. t6[1].parent < 1 /\ t6[1].parent \in Nat
      <4>1. 1 \in 1 .. Len(t6)
        BY <1>7
      <4>2. QED  BY <2>1, <4>1, TreeParts
    <3>2. \A i \in 1 .. 6 : i = 1 \/ i = 2 \/ i = 3 \/ i = 4 \/ i = 5 \/ i = 6
      OBVIOUS
    <3>3. QED  BY <1>13, <3>1, <3>2
  <2>3. 2 \in Range(t6[1].children)
    <3>1. 2 \in 2 .. Len(t6)
      BY <1>7
    <3>2. QED  BY <1>7, <1>13, <3>1 DEF Bare
  <2> DEFINE s == t6[1].children
  <2>4. \A c \in Range(s) : c \in 1 .. 6 /\ t6[c].parent = 1
    <3>1. s \in Seq(Nat) /\ \A k \in 1 .. Len(s) : s[k] \in 1 .. 6 /\ t6[s[k]].parent = 1
      BY <2>1
    <3> HIDE DEF s
    <3>2. \A c \in Range(s) : \E k \in 1 .. Len(s) : c = s[k]
      BY <3>1 DEF Range
    <3>3. QED  BY <3>1, <3>2
  <2>5. Range(s) = {2}
    BY <2>2, <2>3, <2>4
  <2>6. QED  BY <2>5 DEF Root
<1>19. Presents(t6, {})
  BY <1>15, <1>17 DEF Presents
<1>20. QED  BY <1>2, <1>4, <1>18, <1>19 DEF Bare

\* Nothing but /public is in the root of it.
LEMMA OnlyPublic ==
  ASSUME NEW t, Shape(t)
  PROVE  /\ 2 \in Range(t[Root].children)
         /\ \A i \in 2 .. Len(t) : t[i].parent = Root => i = 2
<1>1. t \in Trees /\ Len(t) >= 6 /\ Len(t) \in Nat
  BY TreeParts DEF Shape
<1>2. 2 \in Range(t[Root].children)
  <2>1. 2 \in 2 .. Len(t) /\ t[2].parent = Root
    BY <1>1 DEF Shape, Root
  <2>2. QED  BY <2>1 DEF Shape
<1>3. ASSUME NEW i \in 2 .. Len(t), i # 2
      PROVE  t[i].parent # Root
  <2>1. CASE i \in 7 .. Len(t)
    <3>1. t[i].parent \in 4 .. Len(t)
      BY <2>1 DEF Shape, Inside
    <3>2. QED  BY <1>1, <3>1 DEF Root
  <2>2. CASE i \in 4 .. 6
    BY <2>2 DEF Shape, Root
  <2>3. CASE i = 3
    BY <2>3 DEF Shape, Root
  <2>4. i \in 7 .. Len(t) \/ i \in 4 .. 6 \/ i = 3
    BY <1>1, <1>3
  <2>5. QED  BY <2>1, <2>2, <2>3, <2>4
<1>4. QED  BY <1>2, <1>3

\* /public is built with the blobs of the listing in each view.
LEMMA PublicShows ==
  ASSUME NEW s \in Seq(Blobs)
  PROVE  PublicTree(s) \in Trees /\ Presents(PublicTree(s), Range(s))
<1> DEFINE n == Len(s)
           of(k) == {s[j] : j \in 1 .. k}
<1>1. n \in Nat /\ \A k \in 1 .. n : s[k] \in Blobs
  OBVIOUS
<1>2. HostTree \in Trees /\ Len(HostTree) = 3 /\ Presents(Emptied(HostTree, 3), {})
  BY BaseShows
<1>3. PICK add : Builds(HostTree, 3, s, add)
  <2>1. 3 \in 0 .. Len(HostTree)
    BY <1>2
  <2>2. QED  BY <1>2, <2>1, BuildSteps
<1>4. Views(HostTree) = [sha |-> 4, type |-> 5, date |-> 6]
  BY <1>2 DEF Views
<1> DEFINE S == {k \in 0 .. n : Presents(add[k], of(k))}
<1>5. 0 \in S
  <2>1. add[0] = Emptied(HostTree, 3)
    BY <1>3 DEF Builds
  <2>2. of(0) = {} /\ 0 \in 0 .. n
    BY <1>1
  <2> HIDE DEF of
  <2>3. QED  BY <1>1, <1>2, <2>1, <2>2
<1>6. ASSUME NEW k \in 1 .. n, k - 1 \in S
      PROVE  k \in S
  <2>1. add[k] = AddDescriptor(add[k - 1], Views(HostTree), s[k])
    BY <1>3 DEF Builds
  <2>2. Presents(add[k - 1], of(k - 1)) /\ s[k] \in Blobs
    BY <1>1, <1>6
  <2>3. of(k) = of(k - 1) \union {s[k]}
    <3>1. \A j : j \in 1 .. k <=> j \in 1 .. k - 1 \/ j = k
      BY <1>1
    <3>2. QED  BY <3>1
  <2> HIDE DEF of
  <2>4. Presents(add[k], of(k))
    BY <1>4, <2>1, <2>2, <2>3, DescriptorShows
  <2>5. QED  BY <1>1, <2>4
<1>7. n \in S
  <2> HIDE DEF S
  <2>1. 0 .. n \subseteq S
    BY <1>1, <1>5, <1>6, IntervalInduction
  <2>2. QED  BY <1>1, <2>1
<1>8. of(n) = Range(s) /\ PublicTree(s) = add[n]
  BY <1>1, <1>3 DEF Range, Builds, PublicTree
<1>9. QED  BY <1>7, <1>8 DEF Presents, Shape

-----------------------------------------------------------------------------
(* /public is left alone.                                                  *)

\* A name that is not that of /public.
Other(n) == San[n] # "public"

\* t has the nodes of p, and what it has besides is not in them.
Spares(p, t) ==
  /\ t \in Trees /\ Len(p) <= Len(t)
  /\ t[Root].kind = "dir" /\ ~t[Root].lazy /\ 2 \in Range(t[Root].children)
  /\ \A i \in 2 .. Len(p) : t[i] = p[i]
  /\ \A i \in Len(p) + 1 .. Len(t) :
       t[i].parent > Len(p) \/ (t[i].parent = Root /\ Other(t[i].name))

\* A place outside of them, for a node of that name.
Apart(p, t, i, n) == i \in 1 .. Len(t) /\ (i > Len(p) \/ (i = Root /\ Other(n)))

\* What is built spares itself.
LEMMA SparesSelf ==
  ASSUME NEW p, Shape(p)
  PROVE  Spares(p, p)
<1>1. p \in Trees /\ Len(p) \in Nat
  BY TreeParts DEF Shape
<1>2. p[Root].kind = "dir" /\ ~p[Root].lazy
  <2>1. Root \in 1 .. 6 /\ Root = 1
    BY DEF Root
  <2>2. QED  BY <2>1 DEF Shape
<1>3. QED  BY <1>1, <1>2, OnlyPublic DEF Spares

\* What is sanitised is as other as it was.
LEMMA OtherClean ==
  ASSUME NEW n \in AllNames, Other(n)
  PROVE  Other(San[n]) /\ n # "public"
BY CleanAssumption, CleanWords DEF Other

\* A node is what its parts are.
LEMMA SameNode ==
  ASSUME NEW a \in Nodes, NEW b \in Nodes,
         a.kind = b.kind, a.name = b.name, a.parent = b.parent, a.children = b.children,
         a.lazy = b.lazy, a.content = b.content
  PROVE  a = b
<1>1. ASSUME NEW x \in Nodes
      PROVE  x = [kind |-> x.kind, name |-> x.name, parent |-> x.parent,
                  children |-> x.children, lazy |-> x.lazy, content |-> x.content]
  BY DEF Nodes
<1>2. QED  BY <1>1

\* Adding a node elsewhere.
LEMMA AddSpares ==
  ASSUME NEW p, Shape(p), NEW t, Spares(p, t), NEW x \in Fresh, Apart(p, t, x.parent, x.name)
  PROVE  Spares(p, Add(t, x)) /\ Len(Add(t, x)) = Len(t) + 1
<1> DEFINE u == Add(t, x)
<1>1. t \in Trees /\ Len(t) \in Nat /\ Len(p) \in Nat /\ Len(p) >= 6 /\ Len(p) <= Len(t)
      /\ Root = 1 /\ x.parent \in 1 .. Len(t)
  BY TreeParts DEF Spares, Shape, Root, Apart
<1>2. /\ u \in Trees /\ Len(u) = Len(t) + 1
  BY <1>1, AddGrows
<1>3. /\ u[Len(u)].name = San[x.name] /\ u[Len(u)].parent = x.parent
      /\ \A i \in 1 .. Len(t) :
            /\ u[i].kind = t[i].kind /\ u[i].name = t[i].name
            /\ u[i].parent = t[i].parent /\ u[i].lazy = t[i].lazy
            /\ u[i].content = t[i].content
            /\ u[i].children = IF i = x.parent /\ t[i].kind = "dir"
                               THEN Append(t[i].children, Len(u)) ELSE t[i].children
  BY <1>1, AddIs
<1> HIDE DEF u
<1>4. ASSUME NEW i \in 2 .. Len(p)
      PROVE  u[i] = p[i]
  <2>1. i \in 1 .. Len(t) /\ i \in 1 .. Len(u) /\ i # x.parent /\ t[i] = p[i]
    BY <1>1, <1>2 DEF Apart, Spares
  <2>2. u[i] \in Nodes /\ t[i] \in Nodes
    BY <1>1, <1>2, <2>1, TreeParts
  <2>3. /\ u[i].kind = t[i].kind /\ u[i].name = t[i].name /\ u[i].parent = t[i].parent
        /\ u[i].lazy = t[i].lazy /\ u[i].content = t[i].content
        /\ u[i].children = t[i].children
    BY <1>3, <2>1
  <2>4. u[i] = t[i]
    BY <2>2, <2>3, SameNode
  <2>5. QED  BY <2>1, <2>4
<1>5. ASSUME NEW i \in Len(p) + 1 .. Len(u)
      PROVE  u[i].parent > Len(p) \/ (u[i].parent = Root /\ Other(u[i].name))
  <2>1. CASE i \in Len(p) + 1 .. Len(t)
    <3>1. i \in 1 .. Len(t)
      BY <1>1, <2>1
    <3>2. QED  BY <1>3, <2>1, <3>1 DEF Spares
  <2>2. CASE i = Len(u)
    <3>1. x.name \in AllNames
      BY DEF Fresh, Nodes
    <3>2. QED  BY <1>3, <2>2, <3>1, OtherClean DEF Apart
  <2>3. QED  BY <1>1, <1>2, <1>5, <2>1, <2>2
<1>6. u[Root].kind = "dir" /\ ~u[Root].lazy /\ 2 \in Range(u[Root].children)
  <2>1. Root \in 1 .. Len(t)
    BY <1>1
  <2>2. u[Root].kind = "dir" /\ ~u[Root].lazy
    BY <1>3, <2>1 DEF Spares
  <2>3. t[Root].children \in Seq(Nat) /\ 2 \in Range(t[Root].children)
    BY <1>1, <2>1, TreeParts DEF Spares
  <2>4. u[Root].children = t[Root].children \/ u[Root].children = Append(t[Root].children, Len(u))
    BY <1>3, <2>1
  <2>5. Range(Append(t[Root].children, Len(u))) = Range(t[Root].children) \union {Len(u)}
    BY <1>1, <1>2, <2>3, RangeAppend
  <2>6. QED  BY <2>2, <2>3, <2>4, <2>5
<1>7. QED  BY <1>1, <1>2, <1>4, <1>5, <1>6 DEF Spares, u

\* The paths of /public are what they were, and no other begins like them.
LEMMA ApartPaths ==
  ASSUME NEW p, Shape(p), NEW t, Spares(p, t)
  PROVE  /\ \A i \in 0 .. Len(p) : PathOf(t)[i] = PathOf(p)[i]
         /\ \A i \in 2 .. Len(p) : PathOf(t)[i][1] = "public"
         /\ \A i \in Len(p) + 1 .. Len(t) :
              Len(PathOf(t)[i]) > 0 /\ Other(PathOf(t)[i][1])
<1> DEFINE n == Len(p)
           D == 0 .. n
           S == {i \in D : PathOf(t)[i] = PathOf(p)[i]}
           E == n + 1 .. Len(t)
           A == {i \in E : Len(PathOf(t)[i]) > 0 /\ Other(PathOf(t)[i][1])}
<1>1. /\ p \in Trees /\ t \in Trees /\ Len(t) \in Nat /\ n \in Nat /\ n >= 6 /\ n <= Len(t)
      /\ Root = 1
  BY TreeParts DEF Spares, Shape, Root
<1>2. \A i \in 0 .. Len(t) : PathOf(t)[i] = IF i <= Root THEN <<>>
                                           ELSE Append(PathOf(t)[t[i].parent], t[i].name)
  BY <1>1, PathIs
<1>3. \A i \in 0 .. n : PathOf(p)[i] = IF i <= Root THEN <<>>
                                      ELSE Append(PathOf(p)[p[i].parent], p[i].name)
  BY <1>1, PathIs
<1>4. ASSUME NEW i \in D, \A j \in D : j < i => j \in S
      PROVE  i \in S
  <2>1. i \in 0 .. n /\ i \in 0 .. Len(t)
    BY <1>1
  <2>2. CASE i <= Root
    BY <1>2, <1>3, <2>1, <2>2
  <2>3. CASE ~(i <= Root)
    <3>1. i \in 1 .. n /\ i \in 2 .. n /\ p[i].parent \in D /\ p[i].parent < i
      BY <1>1, <2>1, <2>3, TreeParts
    <3>2. PathOf(t)[p[i].parent] = PathOf(p)[p[i].parent] /\ t[i] = p[i]
      BY <1>4, <3>1 DEF Spares
    <3>3. QED  BY <1>2, <1>3, <2>1, <2>3, <3>1, <3>2
  <2>4. QED  BY <2>2, <2>3
<1>5. D \subseteq S
  <2>1. D \in SUBSET Nat
    BY <1>1
  <2> HIDE DEF D, S
  <2>2. QED  BY <1>4, <2>1, StrongInduction
<1>6. \A i \in 2 .. n : PathOf(p)[i][1] = "public"
  <2>1. \A i \in 2 .. n : i = 2 \/ i = 3 \/ i \in 4 .. n
    BY <1>1
  <2>2. PathOf(p)[2][1] = "public" /\ PathOf(p)[3][1] = "public"
    BY DEF Shape
  <2>3. \A i \in 4 .. n : PathOf(p)[i][1] = "public"
    BY ViewPath
  <2>4. QED  BY <2>1, <2>2, <2>3
<1>7. ASSUME NEW i \in E, \A j \in E : j < i => j \in A
      PROVE  i \in A
  <2> DEFINE q == t[i].parent
  <2>1. i \in 0 .. Len(t) /\ i \in 1 .. Len(t) /\ ~(i <= Root) /\ i \in n + 1 .. Len(t)
    BY <1>1
  <2>2. q \in Nat /\ q < i /\ q \in 0 .. Len(t) /\ t[i].name \in AllNames
    BY <1>1, <2>1, TreeParts
  <2>3. PathOf(t)[i] = Append(PathOf(t)[q], t[i].name)
    BY <1>2, <2>1
  <2>4. q > n \/ (q = Root /\ Other(t[i].name))
    BY <2>1 DEF Spares
  <2>5. PathOf(t)[q] \in Seq(AllNames)
    BY <1>1, <2>2, PathIs
  <2> HIDE DEF q
  <2>6. CASE q > n
    <3>1. q \in A
      BY <1>1, <1>7, <2>1, <2>2, <2>6
    <3>2. Len(PathOf(t)[q]) > 0 /\ Other(PathOf(t)[q][1])
      BY <3>1
    <3>3. PathOf(t)[i][1] = PathOf(t)[q][1] /\ Len(PathOf(t)[i]) > 0
      BY <2>2, <2>3, <2>5, <3>2
    <3>4. QED  BY <3>2, <3>3
  <2>7. CASE q = Root /\ Other(t[i].name)
    <3>1. PathOf(t)[q] = <<>>
      BY <1>1, <1>2, <2>7
    <3>2. PathOf(t)[i][1] = t[i].name /\ Len(PathOf(t)[i]) > 0
      BY <2>2, <2>3, <3>1
    <3>3. QED  BY <2>7, <3>2
  <2>8. QED  BY <2>4, <2>6, <2>7
<1>8. E \subseteq A
  <2>1. E \in SUBSET Nat
    BY <1>1
  <2> HIDE DEF E, A
  <2>2. QED  BY <1>7, <2>1, StrongInduction
<1>9. QED  BY <1>5, <1>6, <1>8

\* What is found elsewhere is elsewhere.
LEMMA ApartLookup ==
  ASSUME NEW p, Shape(p), NEW t, Spares(p, t), NEW d, NEW n, Apart(p, t, d, n),
         Lookup(t, d, n) # 0
  PROVE  Lookup(t, d, n) \in Len(p) + 1 .. Len(t) /\ t[Lookup(t, d, n)].name = n
<1> DEFINE c == Lookup(t, d, n)
<1>1. /\ p \in Trees /\ t \in Trees /\ Len(t) \in Nat /\ Len(p) \in Nat /\ Len(p) >= 6
      /\ Len(p) <= Len(t) /\ Root = 1 /\ d \in 1 .. Len(t)
  BY TreeParts DEF Spares, Shape, Root, Apart
<1>2. c \in 1 .. Len(t) /\ t[c].name = n /\ t[c].parent = d
  BY <1>1, LookupIs, TreeParts
<1> HIDE DEF c
<1>3. d < c /\ c \in 2 .. Len(t)
  BY <1>1, <1>2, TreeParts
<1>4. ASSUME c <= Len(p)
      PROVE  FALSE
  <2>1. c \in 2 .. Len(p) /\ d = Root /\ Other(n)
    BY <1>1, <1>3, <1>4 DEF Apart
  <2>2. p[c] = t[c]
    BY <2>1 DEF Spares
  <2>3. c = 2
    BY <1>2, <2>1, <2>2, OnlyPublic
  <2>4. n = "public"
    BY <1>2, <2>2, <2>3 DEF Shape
  <2>5. QED  BY <2>1, <2>4, CleanWords DEF Other
<1>5. QED  BY <1>1, <1>2, <1>4 DEF c

\* A directory found or made elsewhere.
LEMMA GetOrCreateApart ==
  ASSUME NEW p, Shape(p), NEW t, Spares(p, t), NEW d, NEW n \in AllNames, Apart(p, t, d, n)
  PROVE  LET r == GetOrCreateDir(t, d, n) IN
         Spares(p, r.tree) /\ r.ino \in Len(p) + 1 .. Len(r.tree)
<1>1. /\ p \in Trees /\ t \in Trees /\ Len(t) \in Nat /\ Len(p) \in Nat
      /\ Len(p) <= Len(t) /\ d \in 1 .. Len(t) /\ d \in Nat
  BY TreeParts DEF Spares, Shape, Apart
<1>2. CASE Lookup(t, d, n) # 0
  BY <1>2, ApartLookup DEF GetOrCreateDir
<1>3. CASE Lookup(t, d, n) = 0
  <2>1. GetOrCreateDir(t, d, n) = [tree |-> Add(t, Dir(d, n)), ino |-> Len(t) + 1]
    BY <1>3 DEF GetOrCreateDir, AddDirectory
  <2>2. Dir(d, n) \in Fresh /\ Dir(d, n).parent = d /\ Dir(d, n).name = n
    BY <1>1, Words, NewNodes DEF Dir
  <2>3. Spares(p, Add(t, Dir(d, n))) /\ Len(Add(t, Dir(d, n))) = Len(t) + 1
    BY <2>2, AddSpares
  <2>4. QED  BY <1>1, <2>1, <2>3
<1>4. QED  BY <1>2, <1>3

\* The place a path from the root leads to.
Reached(p, path, r) ==
  /\ Spares(p, r.tree) /\ r.ino \in 1 .. Len(r.tree)
  /\ IF path = <<>> THEN r.ino = Root ELSE r.ino > Len(p)

\* A path that does not begin with /public leads elsewhere.
LEMMA PathApart ==
  ASSUME NEW p, Shape(p), NEW t, Spares(p, t), NEW path \in Seq(AllNames),
         path # <<>> => Other(path[1])
  PROVE  Reached(p, path, GetOrCreatePath(t, path))
<1> DEFINE n == Len(path)
<1>1. /\ p \in Trees /\ t \in Trees /\ Len(t) \in Nat /\ Len(p) \in Nat /\ Len(p) >= 6
      /\ Len(p) <= Len(t) /\ Root = 1 /\ Root \in 0 .. Len(t)
  BY TreeParts DEF Spares, Shape, Root
<1>2. PICK at : Leads(t, Root, path, at)
  BY <1>1, PathSteps
<1>3. n \in Nat /\ \A k \in 1 .. n : path[k] \in AllNames
  OBVIOUS
<1> DEFINE S == {k \in 0 .. n : /\ Spares(p, at[k].tree) /\ at[k].ino \in 1 .. Len(at[k].tree)
                                /\ IF k = 0 THEN at[k].ino = Root ELSE at[k].ino > Len(p)}
<1>4. 0 \in S
  <2>1. at[0] = [tree |-> t, ino |-> Root]
    BY <1>2 DEF Leads
  <2>2. QED  BY <1>1, <1>3, <2>1
<1>5. ASSUME NEW k \in 1 .. n, k - 1 \in S
      PROVE  k \in S
  <2> DEFINE r == at[k - 1]
  <2>1. /\ Spares(p, r.tree) /\ r.ino \in 1 .. Len(r.tree)
        /\ IF k - 1 = 0 THEN r.ino = Root ELSE r.ino > Len(p)
    BY <1>5
  <2>2. at[k] = GetOrCreateDir(r.tree, r.ino, path[k])
    BY <1>2 DEF Leads
  <2> HIDE DEF r
  <2>3. Apart(p, r.tree, r.ino, path[k])
    <3>1. CASE k = 1
      <4>1. path # <<>>
        BY <1>5
      <4>2. QED  BY <2>1, <3>1, <4>1 DEF Apart
    <3>2. CASE k # 1
      BY <2>1, <3>2 DEF Apart
    <3>3. QED  BY <3>1, <3>2
  <2>4. Spares(p, at[k].tree) /\ at[k].ino \in Len(p) + 1 .. Len(at[k].tree)
    BY <1>3, <2>1, <2>2, <2>3, GetOrCreateApart
  <2>5. k \in 0 .. n /\ k # 0
    BY <1>3
  <2>6. at[k].ino \in 1 .. Len(at[k].tree) /\ at[k].ino > Len(p)
    BY <1>1, <2>4
  <2>7. QED  BY <2>4, <2>5, <2>6
<1>6. n \in S
  <2> HIDE DEF S
  <2>1. 0 .. n \subseteq S
    BY <1>3, <1>4, <1>5, IntervalInduction
  <2>2. QED  BY <1>3, <2>1
<1>7. GetOrCreatePath(t, path) = at[n] /\ (path = <<>> <=> n = 0)
  BY <1>2 DEF Leads, GetOrCreatePath
<1>8. QED  BY <1>6, <1>7 DEF Reached

\* A tag that is not of /public.
Elsewhere(g) == Other(g.path[1])

\* A tag from elsewhere is restored elsewhere.
LEMMA TagSpares ==
  ASSUME NEW p, Shape(p), NEW t, Spares(p, t), NEW g \in Tags, Elsewhere(g)
  PROVE  Spares(p, ApplyTag(t, g))
<1>1. /\ g.tag \in {"folder", "x"} /\ g.content \in Contents
      /\ g.path \in Seq(AllNames) /\ g.path # <<>> /\ Other(g.path[1])
  BY DEF Tags, Elsewhere
<1>2. CASE g.tag = "folder"
  BY <1>1, <1>2, PathApart DEF ApplyTag, Reached
<1>3. CASE g.tag = "x"
  <2> DEFINE front == Front(g.path)
             r == GetOrCreatePath(t, front)
             n == Last(g.path)
  <2>1. /\ front \in Seq(AllNames) /\ n \in AllNames
        /\ front # <<>> => front[1] = g.path[1]
        /\ front = <<>> => n = g.path[1]
    <3> DEFINE s == g.path
    <3>1. s \in Seq(AllNames) /\ Len(s) \in Nat /\ Len(s) > 0
      BY <1>1
    <3> HIDE DEF s
    <3>2. /\ SubSeq(s, 1, Len(s) - 1) \in Seq(AllNames)
          /\ Len(SubSeq(s, 1, Len(s) - 1)) = Len(s) - 1
          /\ \A i \in 1 .. Len(s) - 1 : SubSeq(s, 1, Len(s) - 1)[i] = s[i]
      BY <3>1
    <3>3. front = SubSeq(s, 1, Len(s) - 1) /\ n = s[Len(s)]
      BY DEF Front, Last, s
    <3> HIDE DEF front, n
    <3>4. front \in Seq(AllNames) /\ n \in AllNames
      BY <3>1, <3>2, <3>3
    <3>5. front # <<>> => front[1] = s[1]
      <4>1. front # <<>> => Len(front) # 0
        BY <3>4
      <4>2. front # <<>> => 1 \in 1 .. Len(s) - 1
        BY <3>1, <3>2, <3>3, <4>1
      <4>3. QED  BY <3>2, <3>3, <4>2
    <3>6. front = <<>> => n = s[1]
      <4>1. front = <<>> => Len(front) = 0
        OBVIOUS
      <4>2. front = <<>> => Len(s) = 1
        BY <3>1, <3>2, <3>3, <4>1
      <4>3. QED  BY <3>3, <4>2
    <3>7. QED  BY <3>4, <3>5, <3>6 DEF s
  <2>2. ApplyTag(t, g) = IF n = "" \/ Lookup(r.tree, r.ino, n) # 0 THEN r.tree
                         ELSE Add(r.tree, File(r.ino, n, g.content))
    BY <1>3 DEF ApplyTag, AddRemoteFile
  <2> HIDE DEF front, n
  <2>3. Reached(p, front, r)
    BY <1>1, <2>1, PathApart
  <2> HIDE DEF r
  <2>4. Spares(p, r.tree) /\ r.ino \in 1 .. Len(r.tree) /\ r.ino \in Nat
    BY <2>3 DEF Reached
  <2>5. Apart(p, r.tree, r.ino, n)
    BY <1>1, <2>1, <2>3 DEF Reached, Apart
  <2>6. LET x == File(r.ino, n, g.content) IN
        x \in Fresh /\ x.parent = r.ino /\ x.name = n
    BY <1>1, <2>1, <2>4, NewNodes DEF File
  <2>7. Spares(p, Add(r.tree, File(r.ino, n, g.content)))
    BY <2>4, <2>5, <2>6, AddSpares
  <2>8. QED  BY <2>2, <2>4, <2>7
<1>4. QED  BY <1>1, <1>2, <1>3

\* So is what was published, all of it.
LEMMA PersistedSpares ==
  ASSUME NEW p, Shape(p), NEW t, Spares(p, t), NEW tags \in Seq(Tags),
         \A g \in Range(tags) : Elsewhere(g)
  PROVE  Spares(p, ApplyPersisted(t, tags))
<1>1. t \in Trees /\ Len(t) > 0
  BY TreeParts DEF Spares, Shape
<1>2. PICK todo, apply : Restores(t, tags, todo, apply)
  BY <1>1, PersistedSteps
<1> DEFINE n == Len(todo)
           S == {k \in 0 .. n : Spares(p, apply[k])}
<1>3. n \in Nat /\ \A k \in 1 .. n : todo[k] \in Tags /\ Elsewhere(todo[k])
  <2>1. todo \in Seq(Tags) /\ Range(todo) \subseteq Range(tags)
    BY <1>2 DEF Restores
  <2>2. n \in Nat /\ \A k \in 1 .. n : todo[k] \in Tags /\ todo[k] \in Range(todo)
    BY <2>1 DEF Range
  <2>3. QED  BY <2>1, <2>2
<1>4. 0 \in S
  BY <1>2, <1>3 DEF Restores
<1>5. ASSUME NEW k \in 1 .. n, k - 1 \in S
      PROVE  k \in S
  <2>1. apply[k] = ApplyTag(apply[k - 1], todo[k]) /\ k \in 0 .. n
    BY <1>2, <1>3 DEF Restores
  <2>2. QED  BY <1>3, <1>5, <2>1, TagSpares
<1>6. n \in S
  <2> HIDE DEF S
  <2>1. 0 .. n \subseteq S
    BY <1>3, <1>4, <1>5, IntervalInduction
  <2>2. QED  BY <1>3, <2>1
<1>7. QED  BY <1>2, <1>6 DEF Restores

\* What the rest of a mount's first tree leaves of /public.
LEMMA BuiltSpares ==
  ASSUME all \in Seq(Blobs)
  PROVE  Spares(PublicTree(all), BuiltTree)
<1> DEFINE p     == PublicTree(all)
           git   == Add(p, Dir(Root, "git"))
           lazy  == [Dir(Len(git), "repo") EXCEPT !.lazy = TRUE]
           repo  == Add(git, lazy)
           info  == Add(repo, File(Len(repo), "INFO.md", Static))
           end   == Add(info, File(Root, "README.txt", Static))
<1>1. BuiltTree = end
  BY DEF BuiltTree, PublicTree, HostTree, AddDirectory, AddLazyDir, AddStaticFile
<1>2. Shape(p)
  BY PublicShows DEF Presents
<1> HIDE DEF p
<1>3. Spares(p, p) /\ Len(p) \in Nat /\ Len(p) >= 6 /\ Root \in Nat /\ Root = 1
  BY <1>2, SparesSelf, TreeParts DEF Shape, Root
<1>4. Other("git") /\ Other("README.txt")
  BY CleanWords DEF Other
<1>5. Spares(p, git) /\ Len(git) = Len(p) + 1
  <2>1. Dir(Root, "git") \in Fresh /\ Dir(Root, "git").parent = Root
        /\ Dir(Root, "git").name = "git"
    BY <1>3, Words, NewNodes DEF Dir
  <2>2. Apart(p, p, Root, "git")
    BY <1>3, <1>4 DEF Apart
  <2>3. QED  BY <1>2, <1>3, <2>1, <2>2, AddSpares
<1> HIDE DEF git
<1>6. Spares(p, repo) /\ Len(repo) = Len(git) + 1
  <2>1. lazy \in Fresh /\ lazy.parent = Len(git)
    BY <1>3, <1>5, Words, NewNodes
  <2> HIDE DEF lazy
  <2>2. Apart(p, git, lazy.parent, lazy.name)
    BY <1>3, <1>5, <2>1 DEF Apart
  <2>3. QED  BY <1>2, <1>5, <2>1, <2>2, AddSpares
<1> HIDE DEF repo, lazy
<1>7. Spares(p, info) /\ Len(info) = Len(repo) + 1
  <2> DEFINE x == File(Len(repo), "INFO.md", Static)
  <2>1. x \in Fresh /\ x.parent = Len(repo)
    <3>1. Len(repo) \in Nat /\ "INFO.md" \in AllNames /\ Static \in Contents
      BY <1>3, <1>5, <1>6, Words
    <3>2. QED  BY <3>1, NewNodes
  <2> HIDE DEF x
  <2>2. Apart(p, repo, x.parent, x.name)
    BY <1>3, <1>5, <1>6, <2>1 DEF Apart
  <2>3. QED  BY <1>2, <1>6, <2>1, <2>2, AddSpares DEF x
<1> HIDE DEF info
<1>8. Spares(p, end)
  <2> DEFINE x == File(Root, "README.txt", Static)
  <2>1. x \in Fresh /\ x.parent = Root /\ x.name = "README.txt"
    BY <1>3, Words, NewNodes DEF File
  <2> HIDE DEF x
  <2>2. Apart(p, info, x.parent, x.name)
    BY <1>3, <1>4, <1>5, <1>6, <1>7, <2>1 DEF Apart
  <2>3. QED  BY <1>2, <1>7, <2>1, <2>2, AddSpares DEF x
<1>9. QED  BY <1>1, <1>8 DEF p

\* A repository is walked elsewhere.
LEMMA WalkSpares ==
  ASSUME NEW p, Shape(p), NEW t, Spares(p, t), NEW d \in Len(p) + 1 .. Len(t)
  PROVE  Spares(p, WalkRepo(t, d))
<1>1. /\ t \in Trees /\ Len(t) \in Nat /\ Len(p) \in Nat /\ Len(p) <= Len(t)
      /\ d \in 1 .. Len(t)
  BY TreeParts DEF Spares, Shape
<1>2. PICK walk : Walks(t, d, walk)
  BY <1>1, WalkSteps
<1> DEFINE n == Len(Repo)
           S == {k \in 0 .. n : Spares(p, walk[k])}
<1>3. /\ n \in Nat
      /\ \A k \in 1 .. n : Repo[k].name \in AllNames /\ Repo[k].up \in Nat /\ Repo[k].up < k
  <2> DEFINE E == [kind : {"dir", "file"}, name : AllNames, up : Nat]
  <2>1. Repo \in Seq(E) /\ \A k \in DOMAIN Repo : Repo[k].up < k
    BY RepoAssumption
  <2> HIDE DEF E
  <2>2. n \in Nat /\ DOMAIN Repo = 1 .. n /\ \A k \in 1 .. n : Repo[k] \in E
    BY <2>1
  <2>3. QED  BY <2>1, <2>2 DEF E
<1>4. 0 \in S
  BY <1>2, <1>3 DEF Walks
<1>5. ASSUME NEW k \in 1 .. n, k - 1 \in S
      PROVE  k \in S
  <2> DEFINE q == Walked(t, d, Repo[k].up)
             e == Repo[k].name
             w == walk[k - 1]
  <2>1. /\ e \in AllNames /\ Spares(p, w) /\ k \in 0 .. n
        /\ walk[k] = Add(w, Dir(q, e)) \/ walk[k] = Add(w, File(q, e, Local))
    BY <1>2, <1>3, <1>5 DEF Walks, AddDirectory, AddLocalFile
  <2>2. Len(w) = Len(t) + (k - 1)
    <3>1. k - 1 \in 0 .. n
      BY <1>3
    <3>2. QED  BY <1>2, <3>1 DEF Walks
  <2>3. q \in Nat /\ q \in 1 .. Len(w) /\ q > Len(p)
    <3> DEFINE u == Repo[k].up
    <3>1. u \in Nat /\ u < k
      BY <1>3
    <3> HIDE DEF u
    <3>2. Walked(t, d, u) = IF u = 0 THEN d ELSE Len(t) + u
      BY DEF Walked
    <3>3. Walked(t, d, u) \in Nat /\ Walked(t, d, u) \in 1 .. Len(w) /\ Walked(t, d, u) > Len(p)
      <4> HIDE DEF w
      <4> QED BY <1>1, <2>2, <3>1, <3>2
    <3>4. QED  BY <3>3 DEF u
  <2> HIDE DEF q, e, w
  <2>4. /\ Dir(q, e) \in Fresh /\ Dir(q, e).parent = q
        /\ File(q, e, Local) \in Fresh /\ File(q, e, Local).parent = q
    BY <2>1, <2>3, Words, NewNodes
  <2>5. \A name : Apart(p, w, q, name)
    BY <2>3 DEF Apart
  <2>6. Spares(p, Add(w, Dir(q, e))) /\ Spares(p, Add(w, File(q, e, Local)))
    BY <2>1, <2>4, <2>5, AddSpares
  <2>7. QED  BY <2>1, <2>6
<1>6. n \in S
  <2> HIDE DEF S
  <2>1. 0 .. n \subseteq S
    BY <1>3, <1>4, <1>5, IntervalInduction
  <2>2. QED  BY <1>3, <2>1
<1>7. QED  BY <1>2, <1>6 DEF Walks

\* A node elsewhere, or the root, that keeps its name.
LEMMA RetouchSpares ==
  ASSUME NEW p, Shape(p), NEW t, Spares(p, t), NEW i \in 1 .. Len(t), NEW y \in Nodes,
         y.kind = t[i].kind, y.parent = t[i].parent, y.name = t[i].name, y.lazy => t[i].lazy,
         IsInjective(y.children), Range(y.children) \subseteq Range(t[i].children),
         y.kind = "file" => y.children = <<>>,
         i > Len(p) \/ (i = Root /\ 2 \in Range(y.children))
  PROVE  Spares(p, [t EXCEPT ![i] = y])
<1> DEFINE u == [t EXCEPT ![i] = y]
<1>1. /\ t \in Trees /\ Len(t) \in Nat /\ Len(p) \in Nat /\ Len(p) >= 6 /\ Len(p) <= Len(t)
      /\ Root = 1
  BY TreeParts DEF Spares, Shape, Root
<1>2. /\ u \in Trees /\ Len(u) = Len(t) /\ u[i] = y
      /\ \A j \in 1 .. Len(t) : j # i => u[j] = t[j]
  BY <1>1, RetouchedIs
<1> HIDE DEF u
<1>3. \A j \in 1 .. Len(t) : u[j].parent = t[j].parent /\ u[j].name = t[j].name
  BY <1>2
<1>4. \A j \in 2 .. Len(p) : u[j] = p[j]
  <2>1. \A j \in 2 .. Len(p) : j \in 1 .. Len(t) /\ j # i
    BY <1>1
  <2>2. QED  BY <1>2, <2>1 DEF Spares
<1>5. \A j \in Len(p) + 1 .. Len(u) :
        u[j].parent > Len(p) \/ (u[j].parent = Root /\ Other(u[j].name))
  <2>1. \A j \in Len(p) + 1 .. Len(u) : j \in 1 .. Len(t) /\ j \in Len(p) + 1 .. Len(t)
    BY <1>1, <1>2
  <2>2. QED  BY <1>3, <2>1 DEF Spares
<1>6. u[Root].kind = "dir" /\ ~u[Root].lazy /\ 2 \in Range(u[Root].children)
  <2>1. Root \in 1 .. Len(t) /\ (i # Root => u[Root] = t[Root])
    BY <1>1, <1>2
  <2>2. QED  BY <1>1, <1>2, <2>1 DEF Spares
<1>7. QED  BY <1>1, <1>2, <1>4, <1>5, <1>6 DEF Spares, u

\* What a node has that is no directory or blob's file, or waits for its clone, is
\* elsewhere.
LEMMA ApartNodes ==
  ASSUME NEW p, Shape(p), NEW t, Spares(p, t), NEW i \in 1 .. Len(t),
         t[i].lazy \/ (t[i].kind = "file" /\ t[i].content = Static)
  PROVE  i > Len(p)
<1>1. /\ Len(t) \in Nat /\ Len(p) \in Nat /\ Len(p) >= 6 /\ Len(p) <= Len(t) /\ Root = 1
  BY TreeParts DEF Spares, Shape, Root
<1>2. SUFFICES ASSUME i <= Len(p)
               PROVE  FALSE
  BY <1>1
<1>3. CASE i = 1
  BY <1>1, <1>3 DEF Spares
<1>4. CASE i \in 2 .. Len(p)
  <2>1. t[i] = p[i] /\ ~p[i].lazy
    BY <1>4 DEF Spares, Shape
  <2>2. p[i].kind = "file" => p[i].content \in Blobs
    <3>1. CASE i \in 1 .. 6
      BY <3>1 DEF Shape
    <3>2. CASE i \in 7 .. Len(p)
      BY <3>2 DEF Shape, Inside
    <3>3. QED  BY <1>1, <1>4, <3>1, <3>2
  <2>3. QED  BY <2>1, <2>2, BlobAssumption
<1>5. QED  BY <1>1, <1>2, <1>3, <1>4

\* Entries that are taken out of a directory elsewhere, or of the root if they are
\* not /public.
LEMMA DropSpares ==
  ASSUME NEW p, Shape(p), NEW t, Spares(p, t), NEW d, NEW n, Apart(p, t, d, n),
         Lookup(t, d, n) # 0
  PROVE  Spares(p, Drop(t, d, Lookup(t, d, n)))
<1> DEFINE c == Lookup(t, d, n)
           o == Only(t[d].children, Range(t[d].children) \ {c})
           y == [t[d] EXCEPT !.children = o]
<1>1. /\ t \in Trees /\ Len(t) \in Nat /\ Len(p) \in Nat /\ Len(p) >= 6 /\ Len(p) <= Len(t)
      /\ d \in 1 .. Len(t)
  BY TreeParts DEF Spares, Shape, Apart
<1>2. c > Len(p) /\ c # 2
  BY <1>1, ApartLookup
<1> HIDE DEF c
<1>3. /\ t[d] \in Nodes /\ t[d].children \in Seq(Nat) /\ IsInjective(t[d].children)
      /\ (t[d].kind = "file" => t[d].children = <<>> /\ ~t[d].lazy)
  BY <1>1, TreeParts
<1>4. /\ o \in Seq(Nat) /\ Range(o) = Range(t[d].children) \ {c} /\ IsInjective(o)
      /\ Len(o) <= Len(t[d].children)
  BY <1>3, OnlyKeeps
<1> HIDE DEF o
<1>5. /\ y \in Nodes /\ y.kind = t[d].kind /\ y.parent = t[d].parent /\ y.name = t[d].name
      /\ y.lazy = t[d].lazy /\ y.children = o
  BY <1>3, <1>4 DEF Nodes
<1>6. Drop(t, d, c) = [t EXCEPT ![d] = y]
  BY DEF Drop, o
<1> HIDE DEF y
<1>7. y.kind = "file" => y.children = <<>>
  <2>1. t[d].kind = "file" => Len(t[d].children) = 0
    BY <1>3
  <2>2. QED  BY <1>4, <1>5, <2>1
<1>8. d > Len(p) \/ (d = Root /\ 2 \in Range(y.children))
  BY <1>2, <1>4, <1>5 DEF Apart, Spares
<1>9. Spares(p, [t EXCEPT ![d] = y])
  BY <1>1, <1>4, <1>5, <1>7, <1>8, RetouchSpares
<1>10. QED  BY <1>6, <1>9 DEF c

\* What is published is from elsewhere.
LEMMA PublishedElsewhere ==
  ASSUME NEW p, Shape(p), NEW t, Spares(p, t)
  PROVE  \A g \in Range(PersistTags(t)) : Elsewhere(g)
<1> DEFINE U == {g \in Tags : Elsewhere(g)}
           J == {Root} \union (Len(p) + 1 .. Len(t))
<1>1. /\ t \in Trees /\ Len(t) \in Nat /\ Len(t) > 0 /\ Len(p) \in Nat /\ Len(p) >= 6
      /\ Len(p) <= Len(t) /\ Root = 1
  BY TreeParts DEF Spares, Shape, Root
<1>2. J \in SUBSET (1 .. Len(t)) /\ Root \in J
  BY <1>1
<1>3. ASSUME NEW i \in J
      PROVE  FirstTag(t, i) \in Seq(U)
  <2>1. CASE i = Root
    BY <2>1 DEF FirstTag
  <2>2. CASE i # Root
    <3>1. i \in 1 .. Len(t) /\ i \in Len(p) + 1 .. Len(t)
      BY <1>2, <2>2
    <3>2. FirstTag(t, i) \in Seq(Tags) /\ Other(PathOf(t)[i][1])
      BY <1>1, <3>1, FirstTagIs, ApartPaths
    <3>3. \/ FirstTag(t, i) = <<>>
          \/ \E g : FirstTag(t, i) = <<g>> /\ Elsewhere(g)
      BY <3>2 DEF FirstTag, OwnTag, Elsewhere
    <3>4. ASSUME NEW g, FirstTag(t, i) = <<g>>, Elsewhere(g)
          PROVE  FirstTag(t, i) \in Seq(U)
      <4>1. <<g>>[1] \in Tags
        <5>1. <<g>> \in Seq(Tags) /\ 1 \in 1 .. Len(<<g>>)
          BY <3>2, <3>4
        <5> HIDE DEF U
        <5>2. QED  BY <5>1
      <4>2. g \in U
        BY <3>4, <4>1
      <4> HIDE DEF U
      <4>3. QED  BY <3>4, <4>2
    <3>5. <<>> \in Seq(U)
      <4> HIDE DEF U
      <4> QED OBVIOUS
    <3>6. FirstTag(t, i) = <<>> => FirstTag(t, i) \in Seq(U)
      BY <3>5
    <3> HIDE DEF U
    <3>7. QED  BY <3>3, <3>4, <3>6
  <2>3. QED  BY <2>1, <2>2
<1>4. ASSUME NEW i \in J, NEW c \in Range(t[i].children), PathOf(t)[c][1] \notin Published
      PROVE  c \in J
  <2>1. i \in 1 .. Len(t)
    BY <1>2
  <2>2. c \in 1 .. Len(t) /\ t[c].parent = i
    <3>1. \A k \in 1 .. Len(t[i].children) :
            t[i].children[k] \in 1 .. Len(t) /\ t[t[i].children[k]].parent = i
      BY <1>1, <2>1, TreeParts
    <3>2. DOMAIN t[i].children = 1 .. Len(t[i].children)
      BY <1>1, <2>1, TreeParts
    <3>3. QED  BY <3>1, <3>2 DEF Range
  <2>3. c \in 2 .. Len(t)
    BY <1>1, <2>1, <2>2, TreeParts
  <2>4. c \notin 2 .. Len(p)
    BY <1>4, ApartPaths, CleanAssumption
  <2>5. QED  BY <1>1, <2>3, <2>4
<1>5. PersistTags(t) \in Seq(U)
  <2> HIDE DEF U, J
  <2>1. QED  BY <1>1, <1>2, <1>3, <1>4, TagsFrom
<1>6. \A k \in DOMAIN PersistTags(t) : PersistTags(t)[k] \in U
  BY <1>5
<1>7. QED  BY <1>6 DEF Range

-----------------------------------------------------------------------------
(* What the kernel sees of /public.                                        *)

\* A node is linked when it is the root, or its parent is and lists it.
LEMMA LinkedIs ==
  ASSUME NEW t \in Trees
  PROVE  /\ Linked(t) \subseteq 1 .. Len(t)
         /\ \A i \in 1 .. Len(t) :
              i \in Linked(t) <=>
                i = Root \/ (/\ t[i].parent \in Linked(t)
                             /\ i \in Range(t[t[i].parent].children))
<1> DEFINE n == Len(t)
           D == 1 .. n
           X == BOOLEAN
           Body(g, i) == i = Root \/ LET q == t[i].parent IN
                           q # 0 /\ g[q] /\ i \in Range(t[q].children)
           G == [i \in D |-> [g \in [D -> X] |-> Body(g, i)]]
           Eq(f) == f = [i \in D |-> Body(f, i)]
           linked == CHOOSE f : Eq(f)
           r == [i \in D |-> i]
<1>1. Linked(t) = {i \in D : linked[i]}
  BY DEF Linked
<1>2. n \in Nat /\ D \in SUBSET Nat
  BY TreeParts
<1>3. ASSUME NEW i \in D
      PROVE  t[i].parent \in Nat /\ t[i].parent < i /\ (t[i].parent # 0 => t[i].parent \in D)
  <2>1. t[i].parent \in Nat /\ t[i].parent < i
    BY TreeParts
  <2>2. QED  BY <1>2, <2>1
<1>4. \A i \in D : \A g : Body(g, i) \in X
  OBVIOUS
<1> HIDE DEF n, X
<1>5. G \in [D -> [[D -> X] -> X]]
  <2>1. \A i \in D : \A g \in [D -> X] : Body(g, i) \in X
    <3> HIDE DEF D, Body
    <3> QED BY <1>4
  <2> HIDE DEF D, Body
  <2>2. QED  BY <2>1
<1>6. ASSUME NEW i \in D, NEW g \in [D -> X], NEW h \in [D -> X],
             \A j \in D : r[j] < r[i] => g[j] = h[j]
      PROVE  G[i][g] = G[i][h]
  <2>1. Body(g, i) = Body(h, i)
    <3>1. CASE t[i].parent = 0
      BY <3>1
    <3>2. CASE t[i].parent # 0
      <4>1. t[i].parent \in D /\ r[t[i].parent] < r[i]
        BY <1>3, <3>2
      <4>2. g[t[i].parent] = h[t[i].parent]
        BY <1>6, <4>1
      <4>3. QED  BY <3>2, <4>2
    <3>3. QED  BY <3>1, <3>2
  <2> HIDE DEF D, Body
  <2>2. QED  BY <2>1
<1>7. r \in [D -> 0 .. n]
  BY <1>2
<1>8. PICK g : Recursive(D, X, G, g)
  <2>1. X # {}
    BY DEF X
  <2>2. Founded(D, X, G, r)
    <3> HIDE DEF G, D, r
    <3> QED BY <1>6, Zenon DEF Founded
  <2>3. n \in Nat
    BY <1>2
  <2> HIDE DEF G, D, r
  <2>4. QED  BY <1>5, <1>7, <2>1, <2>2, <2>3, Recursion
<1>9. Eq(g)
  <2> HIDE DEF D, Body
  <2> QED BY <1>8 DEF Recursive
<1>10. Eq(linked)
  <2> HIDE DEF Eq
  <2> QED BY <1>9
<1>11. \A i \in D : linked[i] = Body(linked, i)
  <2> HIDE DEF linked, D, Body
  <2> QED BY <1>10
<1> HIDE DEF linked
<1>12. ASSUME NEW i \in D
       PROVE  i \in Linked(t) <=>
                i = Root \/ (/\ t[i].parent \in Linked(t)
                             /\ i \in Range(t[t[i].parent].children))
  <2> DEFINE q == t[i].parent
  <2>1. i \in Linked(t) <=> Body(linked, i)
    BY <1>1, <1>11, <1>12
  <2>2. q \in Linked(t) <=> q # 0 /\ linked[q]
    BY <1>1, <1>2, <1>3
  <2>3. QED  BY <2>1, <2>2
<1>13. QED  BY <1>1, <1>12 DEF n

\* Every node of /public is linked.
LEMMA PublicLinked ==
  ASSUME NEW p, Shape(p), NEW t, Spares(p, t)
  PROVE  1 .. Len(p) \subseteq Linked(t)
<1> DEFINE D == 1 .. Len(p)
           S == Linked(t)
<1>1. /\ t \in Trees /\ p \in Trees /\ Len(t) \in Nat /\ Len(p) \in Nat /\ Len(p) >= 6
      /\ Len(p) <= Len(t) /\ Root = 1
  BY TreeParts DEF Spares, Shape, Root
<1>2. ASSUME NEW i \in D, \A j \in D : j < i => j \in S
      PROVE  i \in S
  <2>1. i \in 1 .. Len(t)
    BY <1>1
  <2>2. CASE i = Root
    BY <1>1, <2>1, <2>2, LinkedIs
  <2>3. CASE i # Root
    <3>1. i \in 2 .. Len(p) /\ t[i] = p[i]
      BY <1>1, <2>3 DEF Spares
    <3>2. i \in Range(p[p[i].parent].children) /\ p[i].parent < i /\ p[i].parent \in Nat
      BY <1>1, <3>1, TreeParts DEF Shape
    <3>3. p[i].parent \in D
      <4>1. CASE i \in 2 .. 6
        BY <1>1, <3>2, <4>1 DEF Shape
      <4>2. CASE i \in 7 .. Len(p)
        BY <1>1, <3>2, <4>2 DEF Shape, Inside
      <4>3. QED  BY <1>1, <3>1, <4>1, <4>2
    <3>4. i \in Range(t[p[i].parent].children)
      <4>1. CASE p[i].parent = Root
        BY <3>1, <4>1, OnlyPublic DEF Spares
      <4>2. CASE p[i].parent # Root
        <5>1. p[i].parent \in 2 .. Len(p)
          BY <1>1, <3>3, <4>2
        <5>2. QED  BY <3>2, <5>1 DEF Spares
      <4>3. QED  BY <4>1, <4>2
    <3>5. p[i].parent \in S
      BY <1>2, <3>2, <3>3
    <3>6. QED  BY <1>1, <2>1, <3>1, <3>4, <3>5, LinkedIs
  <2>4. QED  BY <2>2, <2>3
<1>3. D \in SUBSET Nat
  BY <1>1
<1> HIDE DEF D, S
<1>4. D \subseteq S
  BY <1>2, <1>3, StrongInduction
<1>5. QED  BY <1>4 DEF D, S

\* The linked nodes of t below a path.
Under(t, path) ==
  {i \in Linked(t) : Len(PathOf(t)[i]) > Len(path) /\ SubSeq(PathOf(t)[i], 1, Len(path)) = path}

\* What is linked below a view is what was built there.
LEMMA UnderView ==
  ASSUME NEW p, Shape(p), NEW t, Spares(p, t), NEW n \in ViewNames
  PROVE  Under(t, <<"public", "host", n>>) = {i \in 7 .. Len(p) : PathOf(p)[i][3] = n}
<1> DEFINE V == <<"public", "host", n>>
<1>1. /\ t \in Trees /\ p \in Trees /\ Len(t) \in Nat /\ Len(p) \in Nat /\ Len(p) >= 6
      /\ Len(p) <= Len(t) /\ Root = 1
  BY TreeParts DEF Spares, Shape, Root
<1>2. Linked(t) \subseteq 1 .. Len(t) /\ 1 .. Len(p) \subseteq Linked(t)
  BY <1>1, LinkedIs, PublicLinked
<1>3. \A i \in 1 .. Len(t) :
        i \in Under(t, V) <=>
          /\ i \in Linked(t) /\ Len(PathOf(t)[i]) > 3
          /\ PathOf(t)[i][1] = "public" /\ PathOf(t)[i][2] = "host" /\ PathOf(t)[i][3] = n
  <2>1. \A i \in 1 .. Len(t) : PathOf(t)[i] \in Seq(AllNames)
    BY <1>1, PathIs
  <2>2. ASSUME NEW i \in 1 .. Len(t)
        PROVE  i \in Under(t, V) <=>
                 /\ i \in Linked(t) /\ Len(PathOf(t)[i]) > 3 /\ PathOf(t)[i][1] = "public"
                 /\ PathOf(t)[i][2] = "host" /\ PathOf(t)[i][3] = n
    <3> DEFINE s == PathOf(t)[i]
    <3>1. s \in Seq(AllNames)
      BY <2>1
    <3> HIDE DEF s
    <3>2. Len(s) > Len(V) /\ SubSeq(s, 1, Len(V)) = V
            <=> Len(s) > 3 /\ s[1] = "public" /\ s[2] = "host" /\ s[3] = n
      BY <3>1, Beginning
    <3> HIDE DEF V
    <3>3. i \in Under(t, V) <=>
            i \in Linked(t) /\ Len(s) > Len(V) /\ SubSeq(s, 1, Len(V)) = V
      BY DEF Under, s
    <3>4. QED  BY <3>2, <3>3 DEF s
  <2> HIDE DEF V
  <2>3. QED  BY <2>2
<1>4. ASSUME NEW i \in 1 .. Len(t)
      PROVE  i \in Under(t, V) <=> i \in 7 .. Len(p) /\ PathOf(p)[i][3] = n
  <2>1. CASE i > Len(p)
    <3>1. Other(PathOf(t)[i][1])
      BY <1>1, <2>1, ApartPaths
    <3>2. PathOf(t)[i][1] # "public"
      BY <3>1, CleanWords DEF Other
    <3>3. QED  BY <1>1, <1>3, <2>1, <3>2
  <2>2. CASE i \in 1 .. 6
    <3>1. PathOf(t)[i] = PathOf(p)[i]
      BY <1>1, <2>2, ApartPaths
    <3>2. PathOf(p)[1] = <<>>
      BY <1>1, PathIs
    <3>3. \A j \in 1 .. 6 : j = 1 \/ j = 2 \/ j = 3 \/ j = 4 \/ j = 5 \/ j = 6
      OBVIOUS
    <3>4. ~(Len(PathOf(p)[i]) > 3)
      <4>1. \A j \in {1, 2, 3, 4, 5, 6} : ~(Len(PathOf(p)[j]) > 3)
        <5>1. /\ PathOf(p)[1] = <<>> /\ PathOf(p)[2] = <<"public">>
              /\ PathOf(p)[3] = <<"public", "host">>
              /\ PathOf(p)[4] = <<"public", "host", "by-sha256">>
              /\ PathOf(p)[5] = <<"public", "host", "by-type">>
              /\ PathOf(p)[6] = <<"public", "host", "by-date">>
          BY <3>2 DEF Shape
        <5>2. \A a, b, c : ~(Len(<<>>) > 3) /\ ~(Len(<<a>>) > 3) /\ ~(Len(<<a, b>>) > 3)
                           /\ ~(Len(<<a, b, c>>) > 3)
          OBVIOUS
        <5>3. QED  BY <5>1, <5>2
      <4>2. QED  BY <2>2, <3>3, <4>1
    <3>5. QED  BY <1>3, <2>2, <3>1, <3>4
  <2>3. CASE i \in 7 .. Len(p)
    <3>1. PathOf(t)[i] = PathOf(p)[i] /\ i \in Linked(t)
      BY <1>1, <1>2, <2>3, ApartPaths
    <3>2. /\ Len(PathOf(p)[i]) > 3 /\ PathOf(p)[i][1] = "public" /\ PathOf(p)[i][2] = "host"
      BY <2>3 DEF Shape, Inside
    <3>3. QED  BY <1>3, <2>3, <3>1, <3>2
  <2>4. QED  BY <1>1, <2>1, <2>2, <2>3
<1>5. Under(t, V) \subseteq 1 .. Len(t)
  BY <1>2 DEF Under
<1>6. 7 .. Len(p) \subseteq 1 .. Len(t)
  BY <1>1
<1> HIDE DEF V
<1>7. Under(t, V) = {i \in 7 .. Len(p) : PathOf(p)[i][3] = n}
  BY <1>4, <1>5, <1>6
<1>8. QED  BY <1>7 DEF V

\* A mount's /public, and where its clone is, and what was published last.
PublicInv ==
  /\ \A g \in Range(event) : Elsewhere(g)
  /\ phase = "up" => /\ Spares(PublicTree(all), tree)
                     /\ cloning = 0 \/ cloning > Len(PublicTree(all))

\* The views then have the blobs of the listing, by-sha256 each of them once.
LEMMA PublicShown ==
  ASSUME TypeInv, PublicInv
  PROVE  PublicExact
<1> DEFINE p == PublicTree(all)
           view(n) == <<"public", "host", n>>
           contents(n) == {tree[i].content : i \in {j \in Beneath(view(n)) : IsFile(tree, j)}}
           once == Beneath(view("by-sha256"))
<1>1. SUFFICES ASSUME phase = "up"
               PROVE  /\ \A n \in {"by-sha256", "by-type", "by-date"} : contents(n) = Range(all)
                      /\ Cardinality(once) = Cardinality(Range(all))
  BY DEF PublicExact
<1>2. all \in Seq(Blobs) /\ tree \in Trees
  BY DEF TypeInv, ListInv, TreeInv
<1>3. Presents(p, Range(all))
  BY <1>2, PublicShows
<1>4. Spares(p, tree) /\ Shape(p)
  BY <1>1, <1>3 DEF PublicInv, Presents
<1> HIDE DEF p
<1>5. /\ p \in Trees /\ Len(tree) \in Nat /\ Len(p) \in Nat /\ Len(p) >= 6
      /\ Len(p) <= Len(tree) /\ DOMAIN tree = 1 .. Len(tree)
  BY <1>2, <1>4, TreeParts DEF Spares, Shape
<1>6. ViewNames = {"by-sha256", "by-type", "by-date"}
  BY DEF ViewNames
<1>7. \A n \in ViewNames : Beneath(view(n)) = {i \in 7 .. Len(p) : PathOf(p)[i][3] = n}
  <2>1. \A path : Beneath(path) = Under(tree, path)
    BY DEF Beneath, Under
  <2>2. QED  BY <1>4, <2>1, UnderView
<1>8. \A i \in 7 .. Len(p) : tree[i] = p[i] /\ i \in DOMAIN tree
  BY <1>4, <1>5 DEF Spares
<1>9. ASSUME NEW n \in ViewNames
      PROVE  contents(n) = Range(all)
  <2>1. {j \in Beneath(view(n)) : IsFile(tree, j)} = FilesIn(p, n)
    BY <1>7, <1>8 DEF IsFile, FilesIn
  <2>2. \A i \in FilesIn(p, n) : tree[i].content = p[i].content
    BY <1>8 DEF FilesIn
  <2>3. contents(n) = {p[i].content : i \in FilesIn(p, n)}
    BY <2>1, <2>2
  <2>4. QED  BY <1>3, <2>3 DEF Presents, Has
<1>10. once = FilesIn(p, "by-sha256")
  <2>1. \A i \in 7 .. Len(p) : PathOf(p)[i][3] = "by-sha256" => p[i].kind = "file"
    <3>1. \A i \in 7 .. Len(p) : Inside(p, i) /\ i \in 1 .. Len(p)
      BY <1>4, <1>5 DEF Shape
    <3>2. \A i \in 1 .. Len(p) : p[i].kind \in {"dir", "file"}
      BY <1>5, TreeParts
    <3>3. QED  BY <3>1, <3>2 DEF Inside
  <2>2. QED  BY <1>6, <1>7, <2>1 DEF FilesIn
<1>11. Cardinality(once) = Cardinality(Range(all))
  <2> DEFINE F == FilesIn(p, "by-sha256")
             f == [i \in F |-> p[i].content]
  <2>1. {p[i].content : i \in F} = Range(all)
    BY <1>3, <1>6 DEF Presents, Has
  <2>2. \A i, j \in F : p[i].content = p[j].content => i = j
    BY <1>3 DEF Presents, Once
  <2>3. IsFiniteSet(F)
    <3>1. IsFiniteSet(7 .. Len(p))
      BY <1>5, FS_Interval
    <3>2. F \in SUBSET (7 .. Len(p))
      BY DEF FilesIn
    <3> HIDE DEF F
    <3>3. QED  BY <3>1, <3>2, FS_Subset
  <2> HIDE DEF F
  <2>4. f \in Bijection(F, Range(all))
    BY <2>1, <2>2 DEF Bijection, Injection, Surjection, IsInjective
  <2> HIDE DEF f
  <2>5. ExistsBijection(F, Range(all))
    BY <2>4 DEF ExistsBijection
  <2>6. Cardinality(Range(all)) = Cardinality(F)
    BY <2>3, <2>5, FS_Bijection
  <2>7. QED  BY <1>10, <2>6 DEF F
<1> HIDE DEF contents, once
<1>12. QED  BY <1>6, <1>9, <1>11

\* Where the user works is elsewhere.
LEMMA UserDirsApart ==
  ASSUME NEW p, Shape(p), Spares(p, tree), NEW d \in UserDirs, NEW n \in UserNames
  PROVE  Apart(p, tree, d, n) /\ n \in AllNames
<1>1. /\ tree \in Trees /\ Len(tree) \in Nat /\ Len(p) \in Nat /\ Len(p) <= Len(tree)
      /\ d \in 1 .. Len(tree) /\ n \in AllNames /\ Root = 1
  BY UserDirsAre, TreeParts, NameAssumption DEF Spares, Shape, Root
<1>2. d = Root \/ PathOf(tree)[d][1] \in UserNames
  BY DEF UserDirs
<1>3. Other(n)
  BY CleanAssumption DEF Other
<1>4. CASE d = Root
  BY <1>1, <1>3, <1>4 DEF Apart
<1>5. CASE d # Root
  <2>1. PathOf(tree)[d][1] # "public"
    BY <1>2, <1>5, CleanAssumption, CleanWords
  <2>2. d \notin 2 .. Len(p)
    BY <2>1, ApartPaths
  <2>3. d > Len(p)
    BY <1>1, <1>5, <2>2
  <2>4. QED  BY <1>1, <2>3 DEF Apart
<1>6. QED  BY <1>4, <1>5

\* Every step leaves /public alone.
LEMMA PublicSteps ==
  ASSUME TypeInv, PublicInv, Next
  PROVE  PublicInv'
<1> DEFINE p == PublicTree(all)
<1>1. /\ all \in Seq(Blobs) /\ tree \in Trees /\ Len(tree) \in Nat /\ DOMAIN tree = 1 .. Len(tree)
      /\ event \in Seq(Tags) /\ (phase # "up" => cloning = 0)
      /\ cloning \in {0} \union {d \in DOMAIN tree : IsDir(tree, d)}
  BY TreeParts DEF TypeInv, ListInv, TreeInv
<1>2. Shape(p)
  BY <1>1, PublicShows DEF Presents
<1>3. /\ \A g \in Range(event) : Elsewhere(g)
      /\ phase = "up" => Spares(p, tree) /\ (cloning = 0 \/ cloning > Len(p))
  BY DEF PublicInv
<1>4. CASE UNCHANGED event /\ phase' # "up"
  BY <1>3, <1>4 DEF PublicInv
<1>5. CASE UNCHANGED <<event, phase, tree, all>> /\ cloning' \in {cloning, 0}
  BY <1>3, <1>5 DEF PublicInv
<1>6. ASSUME phase = "up", UNCHANGED <<event, all>>, Spares(p, tree'),
             cloning' \in {cloning, 0} \/ cloning' > Len(p)
      PROVE  PublicInv'
  BY <1>3, <1>6 DEF PublicInv
<1>7. CASE \/ StartMount \/ ListPage \/ ListFails
           \/ \E b \in Blobs : Arrives(b) \/ Vanishes(b)
  <2>1. UNCHANGED event /\ phase' # "up"
    BY <1>7 DEF StartMount, ListPage, ListFails, Arrives, Vanishes
  <2>2. QED  BY <1>4, <2>1
<1>8. CASE MountUp
  <2>1. /\ phase = "listed" /\ UNCHANGED <<event, all, cloning>>
        /\ tree' \in {ApplyPersisted(BuiltTree, event), BuiltTree}
    BY <1>8 DEF MountUp
  <2>2. Spares(p, BuiltTree)
    BY <1>1, BuiltSpares
  <2>3. Spares(p, ApplyPersisted(BuiltTree, event))
    BY <1>1, <1>2, <1>3, <2>2, PersistedSpares
  <2>4. Spares(p, tree') /\ cloning' = 0
    BY <1>1, <2>1, <2>2, <2>3
  <2>5. QED  BY <1>3, <2>1, <2>4 DEF PublicInv
<1>9. CASE Unmount
  <2>1. phase = "up" /\ phase' = "down" /\ event' \in {PersistTags(tree), event}
    BY <1>9 DEF Unmount, Down
  <2>2. \A g \in Range(PersistTags(tree)) : Elsewhere(g)
    BY <1>2, <1>3, <2>1, PublishedElsewhere
  <2>3. \A g \in Range(event') : Elsewhere(g)
    BY <1>3, <2>1, <2>2
  <2>4. QED  BY <2>1, <2>3 DEF PublicInv
<1>10. CASE Kill
  <2>1. UNCHANGED event /\ phase' # "up"
    BY <1>10 DEF Kill, Down
  <2>2. QED  BY <1>4, <2>1
<1>11. ASSUME NEW d \in DOMAIN tree, TakeLazy(d)
       PROVE  PublicInv'
  <2> DEFINE y == [tree[d] EXCEPT !.lazy = FALSE]
  <2>1. /\ phase = "up" /\ UNCHANGED <<event, all>> /\ cloning' = d
        /\ tree[d].lazy /\ d \in 1 .. Len(tree) /\ tree' = [tree EXCEPT ![d] = y]
    BY <1>1, <1>11 DEF TakeLazy, listVars
  <2>2. d > Len(p)
    BY <1>2, <1>3, <2>1, ApartNodes
  <2>3. /\ tree[d] \in Nodes /\ IsInjective(tree[d].children)
        /\ (tree[d].kind = "file" => tree[d].children = <<>>)
    BY <1>1, <2>1, TreeParts
  <2>4. /\ y \in Nodes /\ y.kind = tree[d].kind /\ y.parent = tree[d].parent
        /\ y.name = tree[d].name /\ ~y.lazy /\ y.children = tree[d].children
    BY <2>3 DEF Nodes
  <2> HIDE DEF y, p
  <2>5. Spares(p, [tree EXCEPT ![d] = y])
    BY <1>2, <1>3, <2>1, <2>2, <2>3, <2>4, RetouchSpares
  <2>6. QED  BY <1>6, <2>1, <2>2, <2>5
<1>12. CASE Cloned
  <2>1. /\ phase = "up" /\ UNCHANGED <<event, all>> /\ cloning' = 0 /\ cloning # 0
        /\ tree' \in {WalkRepo(tree, cloning), tree}
    BY <1>1, <1>12 DEF Cloned, listVars
  <2>2. cloning \in Len(p) + 1 .. Len(tree)
    <3>1. cloning \in 1 .. Len(tree) /\ cloning > Len(p)
      BY <1>1, <1>3, <2>1
    <3>2. Len(p) \in Nat
      BY <1>2, TreeParts DEF Shape
    <3>3. QED  BY <1>1, <3>1, <3>2
  <2>3. Spares(p, WalkRepo(tree, cloning))
    BY <1>2, <1>3, <2>1, <2>2, WalkSpares
  <2>4. QED  BY <1>3, <1>6, <2>1, <2>3
<1>13. CASE CloneFails
  <2> DEFINE x == File(cloning, "CLONE_FAILED.txt", Static)
  <2>1. /\ phase = "up" /\ UNCHANGED <<event, all>> /\ cloning' = 0 /\ cloning # 0
        /\ tree' = Add(tree, x)
    BY <1>1, <1>13 DEF CloneFails, listVars, AddStaticFile
  <2>2. cloning \in 1 .. Len(tree) /\ cloning > Len(p) /\ cloning \in Nat
    BY <1>1, <1>3, <2>1
  <2>3. x \in Fresh /\ x.parent = cloning
    BY <2>2, Words, NewNodes
  <2> HIDE DEF x, p
  <2>4. Apart(p, tree, x.parent, x.name)
    BY <2>2, <2>3 DEF Apart
  <2>5. Spares(p, Add(tree, x))
    BY <1>2, <1>3, <2>1, <2>3, <2>4, AddSpares
  <2>6. QED  BY <1>6, <2>1, <2>5
<1>14. ASSUME NEW d \in UserDirs, NEW n \in UserNames, Mkdir(d, n) \/ Create(d, n)
       PROVE  PublicInv'
  <2>1. /\ phase = "up" /\ UNCHANGED <<event, all, cloning>>
        /\ tree' \in {Add(tree, Dir(d, n)), Add(tree, File(d, n, Static))}
    BY <1>14 DEF Mkdir, Create, UserOp, listVars, AddDirectory, AddFileToDir
  <2>2. Apart(p, tree, d, n) /\ n \in AllNames /\ d \in Nat
    BY <1>2, <1>3, <2>1, UserDirsApart DEF Apart
  <2>3. /\ Dir(d, n) \in Fresh /\ Dir(d, n).parent = d /\ Dir(d, n).name = n
        /\ File(d, n, Static) \in Fresh /\ File(d, n, Static).parent = d
        /\ File(d, n, Static).name = n
    BY <2>2, Words, NewNodes DEF Dir, File
  <2> HIDE DEF p
  <2>4. Spares(p, Add(tree, Dir(d, n))) /\ Spares(p, Add(tree, File(d, n, Static)))
    BY <1>2, <1>3, <2>1, <2>2, <2>3, AddSpares
  <2>5. QED  BY <1>6, <2>1, <2>4
<1>15. ASSUME NEW d \in UserDirs, NEW n \in UserNames, Unlink(d, n) \/ Rmdir(d, n)
       PROVE  PublicInv'
  <2>1. /\ phase = "up" /\ UNCHANGED <<event, all, cloning>>
        /\ tree' = Drop(tree, d, Lookup(tree, d, n))
        /\ Lookup(tree, d, n) \in DOMAIN tree
    BY <1>15 DEF Unlink, Rmdir, UserOp, listVars, IsFile, IsDir
  <2>2. Lookup(tree, d, n) # 0
    BY <1>1, <2>1
  <2>3. Apart(p, tree, d, n)
    BY <1>2, <1>3, <2>1, UserDirsApart
  <2> HIDE DEF p
  <2>4. Spares(p, tree')
    BY <1>2, <1>3, <2>1, <2>2, <2>3, DropSpares
  <2>5. QED  BY <1>6, <2>1, <2>4
<1>16. ASSUME NEW i \in DOMAIN tree, NEW b \in Blobs, Uploaded(i, b)
       PROVE  PublicInv'
  <2> DEFINE y == [tree[i] EXCEPT !.content = b]
  <2>1. /\ phase = "up" /\ UNCHANGED <<event, all, cloning>> /\ i \in 1 .. Len(tree)
        /\ tree[i].kind = "file" /\ tree[i].content = Static
        /\ tree' = [tree EXCEPT ![i] = y]
    BY <1>1, <1>16 DEF Uploaded, listVars, SetContent, IsFile
  <2>2. i > Len(p)
    BY <1>2, <1>3, <2>1, ApartNodes
  <2>3. /\ tree[i] \in Nodes /\ IsInjective(tree[i].children) /\ b \in Contents
        /\ (tree[i].kind = "file" => tree[i].children = <<>>)
    BY <1>1, <2>1, TreeParts, Words
  <2>4. /\ y \in Nodes /\ y.kind = tree[i].kind /\ y.parent = tree[i].parent
        /\ y.name = tree[i].name /\ y.lazy = tree[i].lazy /\ y.children = tree[i].children
    BY <2>3 DEF Nodes
  <2> HIDE DEF y, p
  <2>5. Spares(p, [tree EXCEPT ![i] = y])
    BY <1>2, <1>3, <2>1, <2>2, <2>3, <2>4, RetouchSpares
  <2>6. QED  BY <1>6, <2>1, <2>5
<1>17. ASSUME NEW d \in UserDirs, Opendir(d)
       PROVE  PublicInv'
  BY <1>5, <1>17 DEF Opendir, UserOp, listVars
<1>18. CASE Readdir \/ Closedir
  BY <1>5, <1>18 DEF Readdir, Closedir, listVars
<1>19. QED
  BY <1>7, <1>8, <1>9, <1>10, <1>11, <1>12, <1>13, <1>14, <1>15, <1>16, <1>17, <1>18
  DEF Next

\* /public and the published structure: whatever is made, removed, cloned, published
\* and restored from one mount to the next, the three views have the blobs of this
\* mount's listing and nothing else, by-sha256 each of them once; and the listing
\* has what stayed on the server.
THEOREM PublicIsWhole == Spec => []PublicWhole
<1>1. Init => PublicInv
  BY DEF Init, PublicInv, Range
<1>2. TypeInv /\ PublicInv /\ [Next]_vars => PublicInv'
  <2>1. TypeInv /\ PublicInv /\ UNCHANGED vars => PublicInv'
    BY DEF PublicInv, vars, listVars, treeVars
  <2>2. QED  BY <2>1, PublicSteps
<1>3. TypeInv /\ PublicInv => PublicExact
  BY PublicShown
<1>4. Spec => []PublicInv
  BY <1>1, <1>2, TypeInvHolds, PTL DEF Spec
<1>5. ListingComplete /\ PublicExact => PublicWhole
  BY DEF PublicWhole
<1>6. QED  BY <1>3, <1>4, <1>5, TypeInvHolds, ListingIsComplete, PTL

-----------------------------------------------------------------------------
(* The repository and what is below it.                                    *)

\* Every name but the root's is sanitised.
CleanTree(t) == \A i \in 2 .. Len(t) : t[i].name \in Pure

\* t has /git at g and the repository after it, with the nodes I below, no two of
\* them in one place; nothing else is called so or waits for a clone.
Holds(t, g, I) ==
  /\ t \in Trees /\ g \in 2 .. Len(t) /\ g + 1 \in 2 .. Len(t)
  /\ t[Root].kind = "dir" /\ g \in Range(t[Root].children)
  /\ t[g].kind = "dir" /\ t[g].name = "git" /\ t[g].parent = Root
  /\ g + 1 \in Range(t[g].children)
  /\ t[g + 1].kind = "dir" /\ t[g + 1].name = "repo" /\ t[g + 1].parent = g
  /\ I \subseteq g + 2 .. Len(t)
  /\ \A i \in 1 .. Len(t) :
       /\ t[i].lazy => i = g + 1
       /\ t[i].parent = Root /\ t[i].name = "git" => i = g
       /\ t[i].parent = g /\ t[i].name = "repo" => i = g + 1
       /\ i \in I <=> t[i].parent \in I \union {g + 1}
  /\ \A i, j \in I : t[i].parent = t[j].parent /\ t[i].name = t[j].name => i = j

\* The node below which entry k of the repository is, if they come after w.
Above(g, w, k) == IF Repo[k].up = 0 THEN g + 1 ELSE w + Repo[k].up

\* The entries of the repository are the nodes after w.
Checkout(t, g, I, w) ==
  /\ w \in Nat
  /\ \A k \in 1 .. Len(Repo) :
       /\ w + k \in I
       /\ t[w + k].name = San[Repo[k].name] /\ t[w + k].parent = Above(g, w, k)
       /\ w + k \in Range(t[Above(g, w, k)].children)

\* Below the repository t has still only the note that is made with it.
Noted(t, g, I) == I = {g + 2} /\ t[g + 2].name = "INFO.md"

\* u has what t has of the repository, and nothing more below it.
Keeping(t, u, g, I) ==
  /\ u \in Trees /\ Len(t) <= Len(u)
  /\ \A i \in 1 .. Len(t) :
       /\ u[i].kind = t[i].kind /\ u[i].name = t[i].name /\ u[i].parent = t[i].parent
       /\ u[i].lazy => t[i].lazy
       /\ \A c \in Range(t[i].children) :
            c = g \/ i \in I \union {g, g + 1} => c \in Range(u[i].children)
  /\ \A i \in Len(t) + 1 .. Len(u) :
       /\ ~u[i].lazy /\ u[i].parent \notin I \union {g + 1}
       /\ ~(u[i].parent = Root /\ u[i].name = "git")
       /\ ~(u[i].parent = g /\ u[i].name = "repo")

\* What keeps the repository.
LEMMA KeepsRepo ==
  ASSUME NEW t, NEW g, NEW I, Holds(t, g, I), NEW u, Keeping(t, u, g, I)
  PROVE  /\ Holds(u, g, I)
         /\ Noted(t, g, I) => Noted(u, g, I)
         /\ \A w : Checkout(t, g, I, w) => Checkout(u, g, I, w)
<1>1. /\ t \in Trees /\ u \in Trees /\ Len(t) \in Nat /\ Len(u) \in Nat /\ Len(t) <= Len(u)
      /\ g \in 2 .. Len(t) /\ g + 1 \in 2 .. Len(t) /\ I \subseteq g + 2 .. Len(t)
      /\ Root = 1 /\ Root \in 1 .. Len(t)
  BY TreeParts DEF Holds, Keeping, Root
<1>2. /\ \A i \in I \union {Root, g, g + 1} : i \in 1 .. Len(t)
      /\ \A i \in 1 .. Len(u) : i \in 1 .. Len(t) \/ i \in Len(t) + 1 .. Len(u)
  BY <1>1
<1>3. \A i \in 1 .. Len(t) : u[i].kind = t[i].kind /\ u[i].name = t[i].name
                             /\ u[i].parent = t[i].parent
  BY DEF Keeping
<1>4. /\ g \in Range(u[Root].children) /\ g + 1 \in Range(u[g].children)
  BY <1>2 DEF Holds, Keeping
<1>5. ASSUME NEW i \in 1 .. Len(u)
      PROVE  /\ u[i].lazy => i = g + 1
             /\ u[i].parent = Root /\ u[i].name = "git" => i = g
             /\ u[i].parent = g /\ u[i].name = "repo" => i = g + 1
             /\ i \in I <=> u[i].parent \in I \union {g + 1}
  <2>1. CASE i \in 1 .. Len(t)
    BY <2>1 DEF Holds, Keeping
  <2>2. CASE i \in Len(t) + 1 .. Len(u)
    <3>1. i \notin I
      BY <1>1, <2>2
    <3>2. QED  BY <2>2, <3>1 DEF Keeping
  <2>3. QED  BY <1>2, <2>1, <2>2
<1>6. \A i, j \in I : u[i].parent = u[j].parent /\ u[i].name = u[j].name => i = j
  BY <1>2, <1>3 DEF Holds
<1>7. Holds(u, g, I)
  <2>1. g \in 2 .. Len(u) /\ g + 1 \in 2 .. Len(u) /\ I \subseteq g + 2 .. Len(u)
    BY <1>1
  <2>2. /\ u[Root].kind = "dir" /\ u[g].kind = "dir" /\ u[g].name = "git"
        /\ u[g].parent = Root /\ u[g + 1].kind = "dir" /\ u[g + 1].name = "repo"
        /\ u[g + 1].parent = g
    BY <1>2, <1>3 DEF Holds
  <2>3. QED  BY <1>1, <1>4, <1>5, <1>6, <2>1, <2>2 DEF Holds
<1>8. Noted(t, g, I) => Noted(u, g, I)
  <2>1. Noted(t, g, I) => g + 2 \in I
    BY DEF Noted
  <2>2. QED  BY <1>2, <1>3, <2>1 DEF Noted
<1>9. ASSUME NEW w, Checkout(t, g, I, w)
      PROVE  Checkout(u, g, I, w)
  <2>1. ASSUME NEW k \in 1 .. Len(Repo)
        PROVE  /\ w + k \in I
               /\ u[w + k].name = San[Repo[k].name] /\ u[w + k].parent = Above(g, w, k)
               /\ w + k \in Range(u[Above(g, w, k)].children)
    <3>1. /\ w + k \in I /\ w + k \in 1 .. Len(t)
          /\ t[w + k].name = San[Repo[k].name] /\ t[w + k].parent = Above(g, w, k)
          /\ w + k \in Range(t[Above(g, w, k)].children)
      BY <1>2, <1>9 DEF Checkout
    <3>2. Above(g, w, k) \in I \union {g + 1}
      BY <3>1 DEF Holds
    <3>3. Above(g, w, k) \in 1 .. Len(t)
      BY <1>2, <3>2
    <3>4. w + k \in Range(u[Above(g, w, k)].children)
      BY <3>1, <3>2, <3>3 DEF Keeping
    <3>5. QED  BY <1>3, <3>1, <3>4
  <2>2. QED  BY <1>9, <2>1 DEF Checkout
<1>10. QED  BY <1>7, <1>8, <1>9

\* A place outside of the repository, for a node of that name.
Outside(t, g, I, i, n) ==
  /\ i \in 1 .. Len(t) /\ i \notin I \union {g + 1}
  /\ i = Root => San[n] # "git"
  /\ i = g => San[n] # "repo"

\* Adding a node there.
LEMMA AddOutside ==
  ASSUME NEW t, NEW g, NEW I, Holds(t, g, I), NEW x \in Fresh, ~x.lazy,
         Outside(t, g, I, x.parent, x.name)
  PROVE  Keeping(t, Add(t, x), g, I) /\ Len(Add(t, x)) = Len(t) + 1
<1> DEFINE u == Add(t, x)
<1>1. t \in Trees /\ Len(t) \in Nat /\ x.parent \in 1 .. Len(t) /\ x.parent <= Len(t)
  BY TreeParts DEF Holds, Outside
<1>2. u \in Trees /\ Len(u) = Len(t) + 1
  BY <1>1, AddGrows
<1>3. /\ u[Len(u)].name = San[x.name] /\ u[Len(u)].parent = x.parent
      /\ u[Len(u)].lazy = x.lazy
      /\ \A i \in 1 .. Len(t) :
            /\ u[i].kind = t[i].kind /\ u[i].name = t[i].name
            /\ u[i].parent = t[i].parent /\ u[i].lazy = t[i].lazy
            /\ u[i].children = IF i = x.parent /\ t[i].kind = "dir"
                               THEN Append(t[i].children, Len(u)) ELSE t[i].children
  BY <1>1, AddIs
<1> HIDE DEF u
<1>4. ASSUME NEW i \in 1 .. Len(t), NEW c \in Range(t[i].children)
      PROVE  c \in Range(u[i].children)
  <2>1. t[i].children \in Seq(Nat) /\ Len(u) \in Nat
    BY <1>1, <1>2, TreeParts
  <2>2. Range(Append(t[i].children, Len(u))) = Range(t[i].children) \union {Len(u)}
    BY <2>1, RangeAppend
  <2>3. QED  BY <1>3, <2>2
<1>5. ASSUME NEW i \in Len(t) + 1 .. Len(u)
      PROVE  /\ ~u[i].lazy /\ u[i].parent \notin I \union {g + 1}
             /\ ~(u[i].parent = Root /\ u[i].name = "git")
             /\ ~(u[i].parent = g /\ u[i].name = "repo")
  <2>1. i = Len(u)
    BY <1>1, <1>2
  <2>2. QED  BY <1>3, <2>1 DEF Outside
<1>6. \A i \in 1 .. Len(t) :
        /\ u[i].kind = t[i].kind /\ u[i].name = t[i].name /\ u[i].parent = t[i].parent
        /\ u[i].lazy => t[i].lazy
  BY <1>3
<1>7. Len(t) <= Len(u)
  BY <1>1, <1>2
<1>8. QED  BY <1>2, <1>4, <1>5, <1>6, <1>7 DEF Keeping, u

\* u is t with one node more.
Told(t, u, x) ==
  /\ u \in Trees /\ Len(u) = Len(t) + 1
  /\ \A i \in 1 .. Len(t) :
       /\ u[i].kind = t[i].kind /\ u[i].name = t[i].name
       /\ u[i].parent = t[i].parent /\ u[i].lazy = t[i].lazy
       /\ Range(t[i].children) \subseteq Range(u[i].children)
  /\ u[Len(t) + 1].kind = x.kind /\ u[Len(t) + 1].lazy = x.lazy
  /\ u[Len(t) + 1].name = San[x.name] /\ u[Len(t) + 1].parent = x.parent
  /\ t[x.parent].kind = "dir" => Len(t) + 1 \in Range(u[x.parent].children)

\* Adding a node tells this.
LEMMA AddTells ==
  ASSUME NEW t \in Trees, NEW x \in Fresh, x.parent \in 1 .. Len(t)
  PROVE  Told(t, Add(t, x), x)
<1> DEFINE u == Add(t, x)
<1>1. Len(t) \in Nat /\ x.parent <= Len(t)
  BY TreeParts
<1>2. u \in Trees /\ Len(u) = Len(t) + 1
  BY <1>1, AddGrows
<1>3. /\ u[Len(u)].kind = x.kind /\ u[Len(u)].name = San[x.name]
      /\ u[Len(u)].parent = x.parent /\ u[Len(u)].lazy = x.lazy
      /\ \A i \in 1 .. Len(t) :
            /\ u[i].kind = t[i].kind /\ u[i].name = t[i].name
            /\ u[i].parent = t[i].parent /\ u[i].lazy = t[i].lazy
            /\ u[i].children = IF i = x.parent /\ t[i].kind = "dir"
                               THEN Append(t[i].children, Len(u)) ELSE t[i].children
  BY <1>1, AddIs
<1> HIDE DEF u
<1>4. ASSUME NEW i \in 1 .. Len(t)
      PROVE  Range(Append(t[i].children, Len(u))) = Range(t[i].children) \union {Len(u)}
  <2>1. t[i].children \in Seq(Nat) /\ Len(u) \in Nat
    BY <1>1, <1>2, TreeParts
  <2>2. QED  BY <2>1, RangeAppend
<1>5. \A i \in 1 .. Len(t) : Range(t[i].children) \subseteq Range(u[i].children)
  BY <1>3, <1>4
<1>6. t[x.parent].kind = "dir" => Len(u) \in Range(u[x.parent].children)
  BY <1>3, <1>4
<1>7. QED  BY <1>2, <1>3, <1>5, <1>6 DEF u, Told

\* Adding a node below the repository, where none has its name.
LEMMA AddWithin ==
  ASSUME NEW t, NEW g, NEW I, Holds(t, g, I), NEW x \in Fresh, ~x.lazy,
         x.parent \in I \union {g + 1},
         \A i \in I : t[i].parent = x.parent => t[i].name # San[x.name]
  PROVE  Holds(Add(t, x), g, I \union {Len(t) + 1})
<1> DEFINE u == Add(t, x)
           J == I \union {Len(t) + 1}
<1>1. /\ t \in Trees /\ Len(t) \in Nat /\ g \in 2 .. Len(t) /\ g + 1 \in 2 .. Len(t)
      /\ I \subseteq g + 2 .. Len(t) /\ Root = 1 /\ Root \in 1 .. Len(t)
  BY TreeParts DEF Holds, Root
<1>2. \A i \in I \union {Root, g, g + 1} : i \in 1 .. Len(t)
  BY <1>1
<1>3. x.parent \in 1 .. Len(t) /\ x.parent <= Len(t) /\ x.parent > g
  <2>1. \A i \in I \union {g + 1} : i \in g + 1 .. Len(t)
    BY <1>1
  <2>2. x.parent \in g + 1 .. Len(t)
    BY <2>1
  <2>3. QED  BY <1>1, <2>2
<1>4. u \in Trees /\ Len(u) = Len(t) + 1
  BY <1>1, <1>3, AddGrows
<1>5. /\ u[Len(u)].kind = x.kind /\ u[Len(u)].name = San[x.name]
      /\ u[Len(u)].parent = x.parent /\ u[Len(u)].lazy = x.lazy
      /\ \A i \in 1 .. Len(t) :
            /\ u[i].kind = t[i].kind /\ u[i].name = t[i].name
            /\ u[i].parent = t[i].parent /\ u[i].lazy = t[i].lazy
            /\ u[i].children = IF i = x.parent /\ t[i].kind = "dir"
                               THEN Append(t[i].children, Len(u)) ELSE t[i].children
  BY <1>1, AddIs
<1> HIDE DEF u
<1>6. ASSUME NEW i \in 1 .. Len(t)
      PROVE  Range(Append(t[i].children, Len(u))) = Range(t[i].children) \union {Len(u)}
  <2>1. t[i].children \in Seq(Nat) /\ Len(u) \in Nat
    BY <1>1, <1>4, TreeParts
  <2>2. QED  BY <2>1, RangeAppend
<1>7. \A i \in 1 .. Len(t) : Range(t[i].children) \subseteq Range(u[i].children)
  BY <1>5, <1>6
<1>9. ASSUME NEW i \in 1 .. Len(u)
      PROVE  /\ u[i].lazy => i = g + 1
             /\ u[i].parent = Root /\ u[i].name = "git" => i = g
             /\ u[i].parent = g /\ u[i].name = "repo" => i = g + 1
             /\ i \in J <=> u[i].parent \in J \union {g + 1}
  <2>1. CASE i \in 1 .. Len(t)
    <3>1. t[i].parent \in Nat /\ t[i].parent < i
      BY <1>1, <2>1, TreeParts
    <3>2. t[i].parent # Len(t) + 1 /\ i # Len(t) + 1
      BY <1>1, <2>1, <3>1
    <3>3. QED  BY <1>5, <2>1, <3>2 DEF Holds
  <2>2. CASE i = Len(u)
    <3>1. x.parent # Root /\ x.parent # g
      BY <1>1, <1>3
    <3>2. QED  BY <1>4, <1>5, <2>2, <3>1
  <2>3. QED  BY <1>1, <1>4, <2>1, <2>2
<1>10. ASSUME NEW i \in J, NEW j \in J, u[i].parent = u[j].parent, u[i].name = u[j].name
       PROVE  i = j
  <2>1. \A k \in J : k = Len(u) \/ (k \in I /\ k \in 1 .. Len(t))
    BY <1>2, <1>4
  <2>2. \A k \in I : u[k].parent = x.parent => u[k].name # San[x.name]
    BY <1>2, <1>5
  <2>3. CASE i \in I /\ j \in I
    BY <1>2, <1>5, <1>10, <2>3 DEF Holds
  <2>4. QED  BY <1>5, <1>10, <2>1, <2>2, <2>3
<1>11. Holds(u, g, J)
  <2>1. g \in 2 .. Len(u) /\ g + 1 \in 2 .. Len(u) /\ J \subseteq g + 2 .. Len(u)
    BY <1>1, <1>4
  <2>2. /\ u[Root].kind = "dir" /\ u[g].kind = "dir" /\ u[g].name = "git"
        /\ u[g].parent = Root /\ u[g + 1].kind = "dir" /\ u[g + 1].name = "repo"
        /\ u[g + 1].parent = g
    BY <1>2, <1>5 DEF Holds
  <2>3. g \in Range(u[Root].children) /\ g + 1 \in Range(u[g].children)
    BY <1>2, <1>7 DEF Holds
  <2> HIDE DEF J
  <2>4. QED  BY <1>4, <1>9, <1>10, <2>1, <2>2, <2>3 DEF Holds
<1>12. QED  BY <1>4, <1>11 DEF u

\* A name only one child has is looked up to it.
LEMMA LookupFinds ==
  ASSUME NEW t \in Trees, NEW d, IsDir(t, d), NEW c \in Range(t[d].children),
         \A i \in 1 .. Len(t) : t[i].parent = d /\ t[i].name = t[c].name => i = c
  PROVE  Lookup(t, d, t[c].name) = c
<1>1. DOMAIN t = 1 .. Len(t)
  BY TreeParts
<1>2. Lookup(t, d, t[c].name) # 0
  BY LookupIs
<1>3. QED  BY <1>1, <1>2, LookupIs

\* /git, and the repository in it.
LEMMA LookupRepo ==
  ASSUME NEW t, NEW g, NEW I, Holds(t, g, I)
  PROVE  Lookup(t, Root, "git") = g /\ Lookup(t, g, "repo") = g + 1
<1>1. /\ t \in Trees /\ Len(t) \in Nat /\ DOMAIN t = 1 .. Len(t) /\ Root = 1
      /\ g \in 1 .. Len(t) /\ g + 1 \in 1 .. Len(t) /\ Root \in 1 .. Len(t)
  BY TreeParts DEF Holds, Root
<1>2. IsDir(t, Root) /\ IsDir(t, g)
  BY <1>1 DEF Holds, IsDir
<1>3. \A i \in 1 .. Len(t) :
        /\ t[i].parent = Root /\ t[i].name = t[g].name => i = g
        /\ t[i].parent = g /\ t[i].name = t[g + 1].name => i = g + 1
  BY DEF Holds
<1>4. Lookup(t, Root, t[g].name) = g
  BY <1>1, <1>2, <1>3, LookupFinds DEF Holds
<1>5. Lookup(t, g, t[g + 1].name) = g + 1
  BY <1>1, <1>2, <1>3, LookupFinds DEF Holds
<1>6. QED  BY <1>4, <1>5 DEF Holds

\* Where the first k names of a path lead, if they do not lead below the repository.
Stop(g, I, path, k, i) ==
  IF k = 0 THEN i = Root
  ELSE IF k = 1 /\ path[1] = "git" THEN i = g
  ELSE IF k = 2 /\ path[1] = "git" /\ path[2] = "repo" THEN i = g + 1
  ELSE i \notin I \union {Root, g, g + 1}

Below(path) == Len(path) > 2 /\ path[1] = "git" /\ path[2] = "repo"

\* One name more.
LEMMA StopOn ==
  ASSUME NEW t, NEW g, NEW I, Holds(t, g, I), NEW path \in Seq(Pure), ~Below(path),
         NEW k \in 1 .. Len(path), NEW i \in 1 .. Len(t), Stop(g, I, path, k - 1, i)
  PROVE  LET r == GetOrCreateDir(t, i, path[k]) IN
         /\ Keeping(t, r.tree, g, I) /\ r.ino \in 1 .. Len(r.tree)
         /\ Stop(g, I, path, k, r.ino)
<1> DEFINE n == path[k]
           c == Lookup(t, i, n)
           r == GetOrCreateDir(t, i, n)
<1>1. /\ t \in Trees /\ Len(t) \in Nat /\ DOMAIN t = 1 .. Len(t) /\ Root = 1
      /\ g \in 2 .. Len(t) /\ g + 1 \in 2 .. Len(t) /\ I \subseteq g + 2 .. Len(t)
  BY TreeParts DEF Holds, Root
<1>2. n \in AllNames /\ San[n] = n
  BY DEF Pure
<1> HIDE DEF n
<1>3. Len(path) \in Nat /\ k \in Nat
  OBVIOUS
<1>4. i # g + 1 /\ i \notin I
  <2>1. i # g + 1
    <3>1. i = g + 1 => k - 1 = 2 /\ path[1] = "git" /\ path[2] = "repo"
      BY <1>1, <1>3 DEF Stop
    <3>2. QED  BY <1>3, <3>1 DEF Below
  <2>2. i \notin I
    BY <1>1 DEF Stop
  <2>3. QED  BY <2>1, <2>2
<1>5. /\ i = Root => k = 1
      /\ i = g => k = 2 /\ path[1] = "git"
  BY <1>1, <1>3, <1>4 DEF Stop
<1>6. CASE c # 0
  <2>1. r.tree = t /\ r.ino = c
    BY <1>6 DEF GetOrCreateDir
  <2>2. c \in 1 .. Len(t) /\ t[c].parent = i /\ t[c].name = n
    BY <1>1, <1>6, LookupIs
  <2> HIDE DEF c, r
  <2>3. c # Root /\ c \notin I
    <3>1. t[c].parent < c /\ t[c].parent \in Nat
      BY <1>1, <2>2, TreeParts
    <3>2. c # Root
      BY <1>1, <2>2, <3>1
    <3>3. QED  BY <1>4, <2>2, <3>2 DEF Holds
  <2>4. c = g <=> i = Root /\ n = "git"
    BY <2>2 DEF Holds
  <2>5. c = g + 1 <=> i = g /\ n = "repo"
    BY <2>2 DEF Holds
  <2>6. Stop(g, I, path, k, c)
    <3>1. CASE k = 1
      BY <1>1, <1>5, <2>3, <2>4, <2>5, <3>1 DEF Stop, n
    <3>2. CASE k = 2
      <4>1. i = g <=> path[1] = "git"
        BY <1>1, <1>5, <3>2 DEF Stop
      <4>2. QED  BY <1>1, <1>5, <2>3, <2>4, <2>5, <3>2, <4>1 DEF Stop, n
    <3>3. CASE k > 2
      BY <1>1, <1>5, <2>3, <2>4, <2>5, <3>3 DEF Stop, n
    <3>4. QED  BY <1>3, <3>1, <3>2, <3>3
  <2>7. Keeping(t, t, g, I)
    <3>1. \A j \in Len(t) + 1 .. Len(t) : FALSE
      BY <1>1
    <3>2. QED  BY <1>1, <3>1 DEF Keeping
  <2>8. QED  BY <2>1, <2>2, <2>6, <2>7 DEF r, n
<1>7. CASE c = 0
  <2> DEFINE x == Dir(i, n)
  <2>1. r.tree = Add(t, x) /\ r.ino = Len(t) + 1
    BY <1>7 DEF GetOrCreateDir, AddDirectory
  <2>2. x \in Fresh /\ x.parent = i /\ x.name = n /\ ~x.lazy
    <3>1. i \in Nat /\ None \in Contents
      BY <1>1, Words
    <3>2. x \in Fresh /\ x.parent = i
      BY <1>2, <3>1, NewNodes
    <3>3. QED  BY <3>2 DEF Dir
  <2>3. Lookup(t, Root, "git") # 0 /\ Lookup(t, g, "repo") # 0
    BY <1>1, LookupRepo
  <2>4. (i = Root => n # "git") /\ (i = g => n # "repo")
    BY <1>7, <2>3
  <2> HIDE DEF c, r, x
  <2>5. Outside(t, g, I, x.parent, x.name)
    BY <1>2, <1>4, <2>2, <2>4 DEF Outside
  <2>6. Keeping(t, Add(t, x), g, I) /\ Len(Add(t, x)) = Len(t) + 1
    BY <2>2, <2>5, AddOutside
  <2>7. Len(t) + 1 \notin I \union {Root, g, g + 1}
    BY <1>1
  <2>8. ~(k = 1 /\ path[1] = "git") /\ ~(k = 2 /\ path[1] = "git" /\ path[2] = "repo")
    <3>1. k = 1 => i = Root
      BY DEF Stop
    <3>2. k = 2 /\ path[1] = "git" => i = g
      BY DEF Stop
    <3>3. QED  BY <2>4, <3>1, <3>2 DEF n
  <2>9. Stop(g, I, path, k, Len(t) + 1)
    BY <1>3, <2>7, <2>8 DEF Stop
  <2>10. QED  BY <1>1, <2>1, <2>6, <2>9 DEF r, n
<1>8. QED  BY <1>6, <1>7

\* A path leads on, and not below the repository.
LEMMA PathStops ==
  ASSUME NEW t, NEW g, NEW I, Holds(t, g, I), Noted(t, g, I),
         NEW path \in Seq(Pure), ~Below(path)
  PROVE  LET r == GetOrCreatePath(t, path) IN
         /\ Holds(r.tree, g, I) /\ Noted(r.tree, g, I)
         /\ r.ino \in 1 .. Len(r.tree) /\ Stop(g, I, path, Len(path), r.ino)
<1> DEFINE n == Len(path)
<1>1. t \in Trees /\ Len(t) \in Nat /\ Root = 1 /\ Root \in 1 .. Len(t) /\ Root \in 0 .. Len(t)
  BY TreeParts DEF Holds, Root
<1>2. path \in Seq(AllNames) /\ n \in Nat
  BY DEF Pure
<1>3. PICK at : Leads(t, Root, path, at)
  BY <1>1, <1>2, PathSteps
<1> DEFINE S == {k \in 0 .. n :
                   /\ Holds(at[k].tree, g, I) /\ Noted(at[k].tree, g, I)
                   /\ at[k].ino \in 1 .. Len(at[k].tree) /\ Stop(g, I, path, k, at[k].ino)}
<1>4. 0 \in S
  <2>1. at[0] = [tree |-> t, ino |-> Root]
    BY <1>3 DEF Leads
  <2>2. QED  BY <1>1, <1>2, <2>1 DEF Stop
<1>5. ASSUME NEW k \in 1 .. n, k - 1 \in S
      PROVE  k \in S
  <2> DEFINE r == at[k - 1]
  <2>1. /\ Holds(r.tree, g, I) /\ Noted(r.tree, g, I) /\ r.ino \in 1 .. Len(r.tree)
        /\ Stop(g, I, path, k - 1, r.ino)
    BY <1>5
  <2>2. at[k] = GetOrCreateDir(r.tree, r.ino, path[k])
    BY <1>3 DEF Leads
  <2> HIDE DEF r
  <2>3. /\ Keeping(r.tree, at[k].tree, g, I) /\ at[k].ino \in 1 .. Len(at[k].tree)
        /\ Stop(g, I, path, k, at[k].ino)
    BY <2>1, <2>2, StopOn
  <2>4. Holds(at[k].tree, g, I) /\ Noted(at[k].tree, g, I)
    BY <2>1, <2>3, KeepsRepo
  <2>5. k \in 0 .. n
    BY <1>2
  <2>6. QED  BY <2>3, <2>4, <2>5
<1>6. n \in S
  <2> HIDE DEF S
  <2>1. 0 .. n \subseteq S
    BY <1>2, <1>4, <1>5, IntervalInduction
  <2>2. QED  BY <1>2, <2>1
<1>7. GetOrCreatePath(t, path) = at[n]
  BY <1>3 DEF Leads, GetOrCreatePath
<1>8. QED  BY <1>6, <1>7

\* A tag of somewhere else is restored somewhere else.
LEMMA TagApart ==
  ASSUME NEW t, NEW g, NEW I, Holds(t, g, I), Noted(t, g, I),
         NEW tag \in Tags, tag.path \in Seq(Pure), ~Below(tag.path)
  PROVE  Holds(ApplyTag(t, tag), g, I) /\ Noted(ApplyTag(t, tag), g, I)
<1> DEFINE s == tag.path
<1>1. tag.tag \in {"folder", "x"} /\ tag.content \in Contents /\ s # <<>>
  BY DEF Tags
<1>2. CASE tag.tag = "folder"
  BY <1>2, PathStops DEF ApplyTag
<1>3. CASE tag.tag = "x"
  <2> DEFINE front == Front(s)
             r == GetOrCreatePath(t, front)
             n == Last(s)
  <2>1. s \in Seq(Pure) /\ Len(s) \in Nat /\ Len(s) > 0
    BY <1>1
  <2>2. ApplyTag(t, tag) = IF n = "" \/ Lookup(r.tree, r.ino, n) # 0 THEN r.tree
                           ELSE Add(r.tree, File(r.ino, n, tag.content))
    BY <1>3 DEF ApplyTag, AddRemoteFile
  <2>3. ~(Len(s) > 2 /\ s[1] = "git" /\ s[2] = "repo")
    BY DEF Below
  <2> HIDE DEF s
  <2>4. /\ front \in Seq(Pure) /\ n \in Pure /\ Len(front) = Len(s) - 1
        /\ \A i \in 1 .. Len(s) - 1 : front[i] = s[i]
    BY <2>1, FrontIs
  <2> HIDE DEF front, n
  <2>6. front \in Seq(Pure) /\ n \in Pure /\ Len(front) = Len(s) - 1
    BY <2>4
  <2>7. \A i \in 1 .. Len(front) : front[i] = s[i]
    BY <2>4, <2>6
  <2>8. ~(Len(front) >= 2 /\ front[1] = "git" /\ front[2] = "repo")
    <3>1. ASSUME Len(front) >= 2
          PROVE  Len(s) > 2 /\ front[1] = s[1] /\ front[2] = s[2]
      <4>1. 1 \in 1 .. Len(front) /\ 2 \in 1 .. Len(front)
        BY <2>1, <2>6, <3>1
      <4>2. QED  BY <2>1, <2>6, <2>7, <3>1, <4>1
    <3>2. QED  BY <2>3, <3>1
  <2>9. ~Below(front) /\ Len(front) \in Nat
    BY <2>1, <2>6, <2>8 DEF Below
  <2>10. /\ Holds(r.tree, g, I) /\ Noted(r.tree, g, I)
         /\ r.ino \in 1 .. Len(r.tree) /\ Stop(g, I, front, Len(front), r.ino)
    BY <2>6, <2>9, PathStops
  <2> HIDE DEF r
  <2>11. CASE n # "" /\ Lookup(r.tree, r.ino, n) = 0
    <3> DEFINE x == File(r.ino, n, tag.content)
    <3>1. /\ r.tree \in Trees /\ Len(r.tree) \in Nat /\ g \in Nat /\ Root = 1
          /\ g \in 2 .. Len(r.tree)
          /\ I \subseteq g + 2 .. Len(r.tree)
      BY <2>10, TreeParts DEF Holds, Root
    <3>2. n \in AllNames /\ San[n] = n
      BY <2>6 DEF Pure
    <3>3. x \in Fresh /\ x.parent = r.ino /\ x.name = n /\ ~x.lazy
      <4>1. r.ino \in Nat
        BY <2>10, <3>1
      <4>2. x \in Fresh /\ x.parent = r.ino
        BY <1>1, <3>2, <4>1, NewNodes
      <4>3. QED  BY <4>2 DEF File
    <3> HIDE DEF x
    <3>4. r.ino # g + 1 /\ r.ino \notin I
      <4>1. r.ino = g + 1 => Len(front) = 2 /\ front[1] = "git" /\ front[2] = "repo"
        BY <2>10, <3>1 DEF Stop
      <4>2. r.ino \notin I
        BY <2>10, <3>1 DEF Stop
      <4>3. QED  BY <2>8, <4>1, <4>2
    <3>5. (r.ino = Root => n # "git") /\ (r.ino = g => n # "repo")
      <4>1. Lookup(r.tree, Root, "git") = g /\ Lookup(r.tree, g, "repo") = g + 1
        BY <2>10, LookupRepo
      <4>2. g # 0 /\ g + 1 # 0
        BY <3>1
      <4>3. QED  BY <2>11, <4>1, <4>2
    <3>6. Outside(r.tree, g, I, x.parent, x.name)
      BY <2>10, <3>2, <3>3, <3>4, <3>5 DEF Outside
    <3>7. Keeping(r.tree, Add(r.tree, x), g, I)
      BY <2>10, <3>3, <3>6, AddOutside
    <3>8. Holds(Add(r.tree, x), g, I) /\ Noted(Add(r.tree, x), g, I)
      BY <2>10, <3>7, KeepsRepo
    <3>9. QED  BY <2>2, <2>11, <3>8 DEF x
  <2>12. CASE ~(n # "" /\ Lookup(r.tree, r.ino, n) = 0)
    BY <2>2, <2>10, <2>12
  <2>13. QED  BY <2>11, <2>12
<1>4. QED  BY <1>1, <1>2, <1>3

\* So is the structure published last, if it has nothing below the repository.
LEMMA PersistedApart ==
  ASSUME NEW t, NEW g, NEW I, Holds(t, g, I), Noted(t, g, I), NEW tags \in Seq(Tags),
         \A h \in Range(tags) : h.path \in Seq(Pure) /\ ~Below(h.path)
  PROVE  Holds(ApplyPersisted(t, tags), g, I) /\ Noted(ApplyPersisted(t, tags), g, I)
<1>1. t \in Trees /\ Len(t) > 0
  BY TreeParts DEF Holds
<1>2. PICK todo, apply : Restores(t, tags, todo, apply)
  BY <1>1, PersistedSteps
<1> DEFINE n == Len(todo)
           S == {k \in 0 .. n : Holds(apply[k], g, I) /\ Noted(apply[k], g, I)}
<1>3. n \in Nat /\ \A k \in 1 .. n : /\ todo[k] \in Tags /\ todo[k].path \in Seq(Pure)
                                    /\ ~Below(todo[k].path)
  <2>1. todo \in Seq(Tags) /\ Range(todo) \subseteq Range(tags)
    BY <1>2 DEF Restores
  <2>2. n \in Nat /\ \A k \in 1 .. n : todo[k] \in Tags /\ todo[k] \in Range(todo)
    BY <2>1 DEF Range
  <2>3. QED  BY <2>1, <2>2
<1>4. 0 \in S
  BY <1>2, <1>3 DEF Restores
<1>5. ASSUME NEW k \in 1 .. n, k - 1 \in S
      PROVE  k \in S
  <2> DEFINE v == apply[k - 1]
             tag == todo[k]
  <2>1. apply[k] = ApplyTag(v, tag) /\ k \in 0 .. n
    BY <1>2, <1>3 DEF Restores
  <2>2. Holds(v, g, I) /\ Noted(v, g, I)
    BY <1>5
  <2>3. tag \in Tags /\ tag.path \in Seq(Pure) /\ ~Below(tag.path)
    BY <1>3
  <2> HIDE DEF v, tag
  <2>4. Holds(ApplyTag(v, tag), g, I) /\ Noted(ApplyTag(v, tag), g, I)
    BY <2>2, <2>3, TagApart
  <2>5. QED  BY <2>1, <2>4
<1>6. n \in S
  <2> HIDE DEF S
  <2>1. 0 .. n \subseteq S
    BY <1>3, <1>4, <1>5, IntervalInduction
  <2>2. QED  BY <1>3, <2>1
<1>7. QED  BY <1>2, <1>6 DEF Restores

\* The first k entries of the repository are the nodes after w.
EntriesIn(v, g, w, k) ==
  \A j \in 1 .. k :
    /\ v[w + j].kind = Repo[j].kind /\ v[w + j].name = San[Repo[j].name]
    /\ v[w + j].parent = Above(g, w, j) /\ w + j \in Range(v[Above(g, w, j)].children)

\* What the repository's entries are.
LEMMA RepoIs ==
  /\ Len(Repo) \in Nat /\ DOMAIN Repo = 1 .. Len(Repo)
  /\ \A k \in 1 .. Len(Repo) :
       /\ Repo[k].kind \in {"dir", "file"} /\ Repo[k].name \in AllNames
       /\ San[Repo[k].name] \in AllNames
       /\ Repo[k].up \in Nat /\ Repo[k].up < k
       /\ Repo[k].up # 0 => /\ Repo[k].up \in 1 .. Len(Repo)
                            /\ Repo[Repo[k].up].kind = "dir"
       /\ Repo[k].up = 0 => San[Repo[k].name] # "INFO.md"
<1> DEFINE E == [kind : {"dir", "file"}, name : AllNames, up : Nat]
<1>1. Repo \in Seq(E)
  BY RepoAssumption
<1> HIDE DEF E
<1>2. Len(Repo) \in Nat /\ DOMAIN Repo = 1 .. Len(Repo) /\ \A k \in 1 .. Len(Repo) : Repo[k] \in E
  BY <1>1
<1>3. \A k \in 1 .. Len(Repo) : /\ Repo[k].kind \in {"dir", "file"} /\ Repo[k].name \in AllNames
                                /\ Repo[k].up \in Nat
  BY <1>2 DEF E
<1>4. ASSUME NEW k \in 1 .. Len(Repo)
      PROVE  /\ Repo[k].up < k
             /\ Repo[k].up # 0 => Repo[Repo[k].up].kind = "dir"
             /\ Repo[k].up = 0 => San[Repo[k].name] # "INFO.md"
  BY <1>2, RepoAssumption, CheckoutAssumption
<1>5. \A k \in 1 .. Len(Repo) : Repo[k].up # 0 => Repo[k].up \in 1 .. Len(Repo)
  BY <1>2, <1>3, <1>4
<1>6. \A k \in 1 .. Len(Repo) : San[Repo[k].name] \in AllNames
  BY <1>3, NameAssumption
<1>7. QED  BY <1>2, <1>3, <1>4, <1>5, <1>6

\* Two places above entries are one only if the entries are in one directory.
LEMMA AboveTells ==
  ASSUME NEW g \in Nat, NEW w \in Nat, g + 2 <= w, NEW a \in Nat, NEW b \in Nat,
         (IF a = 0 THEN g + 1 ELSE w + a) = (IF b = 0 THEN g + 1 ELSE w + b)
  PROVE  a = b
OBVIOUS

\* One entry more.
LEMMA EntryHolds ==
  ASSUME NEW w \in Nat, NEW g, NEW k \in 1 .. Len(Repo), NEW v,
         Holds(v, g, {g + 2} \union (w + 1 .. w + (k - 1))), v[g + 2].name = "INFO.md",
         Len(v) = w + (k - 1), g + 2 <= w, EntriesIn(v, g, w, k - 1),
         NEW x \in Fresh, ~x.lazy, x.kind = Repo[k].kind, x.name = Repo[k].name,
         x.parent = Above(g, w, k)
  PROVE  LET u == Add(v, x) IN
         /\ Holds(u, g, {g + 2} \union (w + 1 .. w + k)) /\ u[g + 2].name = "INFO.md"
         /\ EntriesIn(u, g, w, k)
<1> DEFINE I == {g + 2} \union (w + 1 .. w + (k - 1))
           J == {g + 2} \union (w + 1 .. w + k)
           u == Add(v, x)
           q == Above(g, w, k)
<1>1. /\ v \in Trees /\ g \in Nat /\ g >= 2 /\ k \in Nat /\ k >= 1 /\ Len(v) \in Nat
      /\ I \subseteq 1 .. Len(v) /\ g + 1 \in 1 .. Len(v)
  BY TreeParts DEF Holds
<1>2. \A j \in 1 .. k - 1 : j \in 1 .. Len(Repo)
  BY RepoIs
<1>3. \A j \in 1 .. k :
        /\ j \in 1 .. Len(Repo) /\ j \in Nat /\ Repo[j].up \in Nat /\ Repo[j].up < j
        /\ Above(g, w, j) = IF Repo[j].up = 0 THEN g + 1 ELSE w + Repo[j].up
  BY RepoIs DEF Above
<1>4. q \in I \union {g + 1} /\ v[q].kind = "dir"
  <2>1. k \in 1 .. k
    BY <1>1
  <2>2. CASE Repo[k].up = 0
    BY <1>3, <2>1, <2>2 DEF Holds
  <2>3. CASE Repo[k].up # 0
    <3>1. Repo[k].up \in 1 .. k - 1 /\ q = w + Repo[k].up /\ Repo[Repo[k].up].kind = "dir"
      BY <1>1, <1>3, <2>1, <2>3, RepoIs
    <3>2. w + Repo[k].up \in w + 1 .. w + (k - 1)
      <4>1. \A m \in 1 .. k - 1 : w + m \in w + 1 .. w + (k - 1)
        BY <1>1
      <4>2. QED  BY <3>1, <4>1
    <3>3. QED  BY <3>1, <3>2 DEF EntriesIn
  <2>4. QED  BY <2>2, <2>3
<1>5. ASSUME NEW i \in I, v[i].parent = q
      PROVE  v[i].name # San[Repo[k].name]
  <2>1. k \in 1 .. k
    BY <1>1
  <2>2. CASE i = g + 2
    <3>1. v[i].parent \in I \union {g + 1} /\ v[i].parent < g + 2
      <4>1. i \in 1 .. Len(v)
        BY <1>1
      <4>2. QED  BY <1>1, <2>2, <4>1, TreeParts DEF Holds
    <3>2. \A j \in I : j >= g + 2
      BY <1>1
    <3>3. q = g + 1
      BY <1>1, <1>5, <3>1, <3>2
    <3>4. Repo[k].up = 0
      BY <1>1, <1>3, <2>1, <3>3
    <3>5. QED  BY <2>2, <3>4, RepoIs
  <2>3. CASE i \in w + 1 .. w + (k - 1)
    <3>1. PICK j \in 1 .. k - 1 : i = w + j
      <4>1. i - w \in 1 .. k - 1 /\ i = w + (i - w)
        BY <1>1, <2>3
      <4>2. QED  BY <4>1
    <3>2. j \in 1 .. k /\ j # k
      BY <1>1, <3>1
    <3>3. v[i].parent = Above(g, w, j) /\ v[i].name = San[Repo[j].name]
      BY <3>1 DEF EntriesIn
    <3>4. Above(g, w, j) = Above(g, w, k)
      BY <1>5, <3>3
    <3>5. Repo[j].up = Repo[k].up
      <4> DEFINE a == Repo[j].up
                 b == Repo[k].up
      <4>1. /\ a \in Nat /\ b \in Nat
            /\ Above(g, w, j) = IF a = 0 THEN g + 1 ELSE w + a
            /\ Above(g, w, k) = IF b = 0 THEN g + 1 ELSE w + b
        BY <1>3, <2>1, <3>2
      <4> HIDE DEF a, b
      <4>2. (IF a = 0 THEN g + 1 ELSE w + a) = (IF b = 0 THEN g + 1 ELSE w + b)
        BY <3>4, <4>1
      <4>3. w \in Nat /\ g \in Nat /\ g + 2 <= w
        BY <1>1
      <4>4. a = b
        BY <4>1, <4>2, <4>3, AboveTells
      <4>5. QED  BY <4>4 DEF a, b
    <3>6. j \in DOMAIN Repo /\ k \in DOMAIN Repo
      BY <1>3, <2>1, <3>2, RepoIs
    <3>7. QED  BY <3>2, <3>3, <3>5, <3>6, CheckoutAssumption
  <2>4. QED  BY <2>2, <2>3
<1>6. /\ Holds(u, g, I \union {Len(v) + 1})
      /\ \A i \in 1 .. Len(v) :
            /\ u[i].kind = v[i].kind /\ u[i].name = v[i].name /\ u[i].parent = v[i].parent
            /\ Range(v[i].children) \subseteq Range(u[i].children)
      /\ u[Len(v) + 1].kind = x.kind /\ u[Len(v) + 1].name = San[x.name]
      /\ u[Len(v) + 1].parent = x.parent
      /\ v[x.parent].kind = "dir" => Len(v) + 1 \in Range(u[x.parent].children)
  <2>1. Holds(v, g, I) /\ x.parent = q
    OBVIOUS
  <2>2. \A i \in I : v[i].parent = x.parent => v[i].name # San[x.name]
    BY <1>5, <2>1
  <2>3. x.parent \in I \union {g + 1}
    BY <1>4, <2>1
  <2> HIDE DEF I, q, u
  <2>4. Holds(Add(v, x), g, I \union {Len(v) + 1})
    BY <2>1, <2>2, <2>3, AddWithin
  <2>5. /\ \A i \in 1 .. Len(v) :
             /\ Add(v, x)[i].kind = v[i].kind /\ Add(v, x)[i].name = v[i].name
             /\ Add(v, x)[i].parent = v[i].parent
             /\ Range(v[i].children) \subseteq Range(Add(v, x)[i].children)
        /\ Add(v, x)[Len(v) + 1].kind = x.kind
        /\ Add(v, x)[Len(v) + 1].name = San[x.name]
        /\ Add(v, x)[Len(v) + 1].parent = x.parent
        /\ v[x.parent].kind = "dir"
             => Len(v) + 1 \in Range(Add(v, x)[x.parent].children)
    <3>1. v \in Trees /\ x.parent \in 1 .. Len(v)
      BY <1>1, <2>3 DEF I
    <3>2. QED  BY <3>1, AddTells DEF Told
  <2>6. QED  BY <2>4, <2>5 DEF u
<1>7. I \union {Len(v) + 1} = J /\ Len(v) + 1 = w + k
  BY <1>1
<1> HIDE DEF u
<1>8. u[g + 2].name = "INFO.md"
  <2>1. g + 2 \in 1 .. Len(v)
    BY <1>1
  <2>2. QED  BY <1>6, <2>1
<1>9. ASSUME NEW j \in 1 .. k
      PROVE  /\ u[w + j].kind = Repo[j].kind /\ u[w + j].name = San[Repo[j].name]
             /\ u[w + j].parent = Above(g, w, j) /\ w + j \in Range(u[Above(g, w, j)].children)
  <2>1. CASE j = k
    BY <1>4, <1>6, <1>7, <2>1
  <2>2. CASE j \in 1 .. k - 1
    <3>1. /\ v[w + j].kind = Repo[j].kind /\ v[w + j].name = San[Repo[j].name]
          /\ v[w + j].parent = Above(g, w, j) /\ w + j \in Range(v[Above(g, w, j)].children)
      BY <2>2 DEF EntriesIn
    <3>2. w + j \in 1 .. Len(v) /\ w + j \in I
      BY <1>1, <2>2
    <3>3. v[w + j].parent \in I \union {g + 1}
      BY <3>2 DEF Holds
    <3>4. Above(g, w, j) \in 1 .. Len(v)
      BY <1>1, <3>1, <3>3
    <3>5. QED  BY <1>6, <3>1, <3>2, <3>4
  <2>3. QED  BY <1>1, <2>1, <2>2
<1>10. QED  BY <1>6, <1>7, <1>8, <1>9 DEF EntriesIn, u

\* A clone that is walked shows all of its entries.
LEMMA WalkShows ==
  ASSUME NEW t, NEW g, Holds(t, g, {g + 2}), t[g + 2].name = "INFO.md"
  PROVE  LET u == WalkRepo(t, g + 1) IN
         \E I : Holds(u, g, I) /\ Checkout(u, g, I, Len(t))
<1> DEFINE n == Len(Repo)
           w == Len(t)
           J(k) == {g + 2} \union (w + 1 .. w + k)
<1>1. /\ t \in Trees /\ w \in Nat /\ g \in Nat /\ g + 1 \in 1 .. w /\ g + 2 <= w
  <2>1. g + 2 \in g + 2 .. w
    BY DEF Holds
  <2>2. QED  BY <2>1, TreeParts DEF Holds
<1>2. PICK walk : Walks(t, g + 1, walk)
  BY <1>1, WalkSteps
<1> HIDE DEF w
<1> DEFINE S == {k \in 0 .. n : /\ Holds(walk[k], g, J(k)) /\ walk[k][g + 2].name = "INFO.md"
                                /\ EntriesIn(walk[k], g, w, k)}
<1>3. n \in Nat
  BY RepoIs
<1>4. 0 \in S
  <2>1. J(0) = {g + 2} /\ 0 \in 0 .. n
    BY <1>1, <1>3
  <2>2. walk[0] = t
    BY <1>2 DEF Walks
  <2>3. EntriesIn(t, g, w, 0)
    BY DEF EntriesIn
  <2>4. QED  BY <2>1, <2>2, <2>3
<1>5. ASSUME NEW k \in 1 .. n, k - 1 \in S
      PROVE  k \in S
  <2> DEFINE v == walk[k - 1]
             q == Above(g, w, k)
             e == Repo[k].name
  <2>1. /\ Holds(v, g, J(k - 1)) /\ v[g + 2].name = "INFO.md" /\ EntriesIn(v, g, w, k - 1)
        /\ k - 1 \in 0 .. n /\ k \in 0 .. n
    BY <1>3, <1>5
  <2>2. Len(v) = w + (k - 1)
    BY <1>2, <2>1 DEF Walks, w
  <2>3. Walked(t, g + 1, Repo[k].up) = q
    BY DEF Walked, Above, w
  <2>4. walk[k] = IF Repo[k].kind = "dir" THEN Add(v, Dir(q, e)) ELSE Add(v, File(q, e, Local))
    BY <1>2, <2>3 DEF Walks, AddDirectory, AddLocalFile
  <2>5. q \in Nat /\ e \in AllNames /\ Repo[k].kind \in {"dir", "file"}
    BY <1>1, RepoIs DEF Above
  <2> HIDE DEF v, q, e, J
  <2>6. /\ Dir(q, e) \in Fresh /\ Dir(q, e).parent = q
        /\ File(q, e, Local) \in Fresh /\ File(q, e, Local).parent = q
    <3>1. Local \in Contents
      BY Words
    <3>2. QED  BY <2>5, <3>1, NewNodes
  <2>7. /\ Dir(q, e).kind = "dir" /\ Dir(q, e).name = e /\ ~Dir(q, e).lazy
        /\ File(q, e, Local).kind = "file" /\ File(q, e, Local).name = e
        /\ ~File(q, e, Local).lazy
    BY DEF Dir, File
  <2>8. PICK x \in Fresh : /\ walk[k] = Add(v, x) /\ ~x.lazy /\ x.kind = Repo[k].kind
                           /\ x.name = e /\ x.parent = q
    <3>1. CASE Repo[k].kind = "dir"
      BY <2>4, <2>6, <2>7, <3>1
    <3>2. CASE Repo[k].kind = "file"
      BY <2>4, <2>6, <2>7, <3>2
    <3>3. QED  BY <2>5, <3>1, <3>2
  <2>9. /\ Holds(walk[k], g, J(k)) /\ walk[k][g + 2].name = "INFO.md"
        /\ EntriesIn(walk[k], g, w, k)
    <3>1. /\ x.name = Repo[k].name /\ x.parent = Above(g, w, k) /\ x.kind = Repo[k].kind
          /\ ~x.lazy /\ x \in Fresh
      BY <2>8 DEF q, e
    <3>2. Holds(v, g, {g + 2} \union (w + 1 .. w + (k - 1)))
      BY <2>1 DEF J
    <3>3. /\ Holds(Add(v, x), g, {g + 2} \union (w + 1 .. w + k))
          /\ Add(v, x)[g + 2].name = "INFO.md" /\ EntriesIn(Add(v, x), g, w, k)
      BY <1>1, <2>1, <2>2, <3>1, <3>2, EntryHolds
    <3>4. QED  BY <2>8, <3>3 DEF J
  <2>10. QED  BY <2>1, <2>9
<1>6. n \in S
  <2> HIDE DEF S
  <2>1. 0 .. n \subseteq S
    BY <1>3, <1>4, <1>5, IntervalInduction
  <2>2. QED  BY <1>3, <2>1
<1>7. WalkRepo(t, g + 1) = walk[n]
  BY <1>2 DEF Walks
<1>8. \A k \in 1 .. n : w + k \in J(n)
  BY <1>1, <1>3
<1> HIDE DEF J
<1>9. Checkout(walk[n], g, J(n), w)
  BY <1>1, <1>6, <1>8 DEF Checkout, EntriesIn
<1>10. QED  BY <1>6, <1>7, <1>9 DEF w

\* A mount begins with /git, the repository and the note in it.
LEMMA BuiltHolds ==
  ASSUME all \in Seq(Blobs)
  PROVE  LET g == Len(PublicTree(all)) + 1 IN
         /\ Holds(BuiltTree, g, {g + 2}) /\ Noted(BuiltTree, g, {g + 2})
         /\ BuiltTree[g + 1].lazy
<1> DEFINE p     == PublicTree(all)
           g     == Len(p) + 1
           a     == Dir(Root, "git")
           b     == [Dir(g, "repo") EXCEPT !.lazy = TRUE]
           c     == File(g + 1, "INFO.md", Static)
           d     == File(Root, "README.txt", Static)
           git   == Add(p, a)
           repo  == Add(git, b)
           info  == Add(repo, c)
           end   == Add(info, d)
<1>1. Shape(p) /\ Spares(p, BuiltTree)
  BY BuiltSpares, PublicShows DEF Presents
<1>2. p \in Trees /\ Len(p) \in Nat /\ Len(p) >= 6 /\ g \in Nat /\ Root = 1
  BY <1>1, TreeParts DEF Shape, Root
<1>3. BuiltTree = AddStaticFile(AddStaticFile(AddLazyDir(git, Len(git), "repo"),
                                  Len(AddLazyDir(git, Len(git), "repo")), "INFO.md"),
                    Root, "README.txt")
  BY DEF BuiltTree, PublicTree, HostTree, AddDirectory
<1>4. /\ a \in Fresh /\ b \in Fresh /\ c \in Fresh /\ d \in Fresh
      /\ a.parent = Root /\ b.parent = g /\ c.parent = g + 1 /\ d.parent = Root
  <2>1. /\ Root \in Nat /\ g \in Nat /\ g + 1 \in Nat /\ Static \in Contents
        /\ {"git", "repo", "INFO.md", "README.txt"} \subseteq AllNames
    BY <1>2, Words
  <2> HIDE DEF g
  <2>2. QED  BY <2>1, NewNodes
<1>5. /\ a.kind = "dir" /\ a.name = "git" /\ ~a.lazy
      /\ b.kind = "dir" /\ b.name = "repo" /\ b.lazy
      /\ c.kind = "file" /\ c.name = "INFO.md" /\ ~c.lazy
      /\ d.kind = "file" /\ d.name = "README.txt" /\ ~d.lazy
  BY DEF Dir, File
<1>6. /\ San["git"] = "git" /\ San["repo"] = "repo" /\ San["INFO.md"] = "INFO.md"
      /\ San["README.txt"] = "README.txt"
  BY CleanAssumption
<1> HIDE DEF p, a, b, c, d
<1>7. Told(p, git, a)
  <2>1. Root \in 1 .. Len(p)
    BY <1>2
  <2>2. QED  BY <1>2, <1>4, <2>1, AddTells
<1> HIDE DEF git
<1>8. git \in Trees /\ Len(git) = g /\ g \in 1 .. Len(git)
  BY <1>2, <1>7 DEF Told
<1>9. Told(git, repo, b)
  BY <1>4, <1>8, AddTells
<1> HIDE DEF repo
<1>10. repo \in Trees /\ Len(repo) = g + 1 /\ g + 1 \in 1 .. Len(repo)
  BY <1>2, <1>8, <1>9 DEF Told
<1>11. Told(repo, info, c)
  BY <1>4, <1>10, AddTells
<1> HIDE DEF info
<1>12. info \in Trees /\ Len(info) = g + 2 /\ Root \in 1 .. Len(info)
  BY <1>2, <1>10, <1>11 DEF Told
<1>13. Told(info, end, d)
  BY <1>4, <1>12, AddTells
<1>14. BuiltTree = end
  BY <1>3, <1>8, <1>10 DEF AddStaticFile, AddLazyDir, b, c, d, git, repo, info
<1> HIDE DEF end
<1>15. end \in Trees /\ Len(end) = g + 3
  BY <1>2, <1>12, <1>13 DEF Told
<1>16. /\ end[g].kind = "dir" /\ end[g].name = "git" /\ end[g].parent = Root /\ ~end[g].lazy
       /\ g \in Range(end[Root].children) /\ git[g].kind = "dir"
  <2>1. /\ git[g].kind = "dir" /\ git[g].name = "git" /\ git[g].parent = Root /\ ~git[g].lazy
        /\ g \in Range(git[Root].children)
    <3>1. p[Root].kind = "dir"
      BY <1>1, <1>2 DEF Shape
    <3>2. QED  BY <1>4, <1>5, <1>6, <1>7, <3>1 DEF Told
  <2>2. /\ Root \in 1 .. g /\ g \in 1 .. g /\ g \in 1 .. g + 1
        /\ g \in 1 .. g + 2 /\ Root \in 1 .. g + 2
        /\ Root \in 1 .. g + 1
    BY <1>2
  <2> HIDE DEF g
  <2>3. /\ repo[g].kind = "dir" /\ repo[g].name = "git" /\ repo[g].parent = Root /\ ~repo[g].lazy
        /\ g \in Range(repo[Root].children)
    BY <1>8, <1>9, <2>1, <2>2 DEF Told
  <2>4. /\ info[g].kind = "dir" /\ info[g].name = "git" /\ info[g].parent = Root /\ ~info[g].lazy
        /\ g \in Range(info[Root].children)
    BY <1>10, <1>11, <2>2, <2>3 DEF Told
  <2>5. QED  BY <1>12, <1>13, <2>1, <2>2, <2>4 DEF Told
<1>17. /\ end[g + 1].kind = "dir" /\ end[g + 1].name = "repo" /\ end[g + 1].parent = g
       /\ end[g + 1].lazy /\ g + 1 \in Range(end[g].children)
  <2>1. g \in 1 .. g + 1 /\ g \in 1 .. g + 2 /\ g + 1 \in 1 .. g + 1 /\ g + 1 \in 1 .. g + 2
    BY <1>2
  <2> HIDE DEF g
  <2>2. /\ repo[g + 1].kind = "dir" /\ repo[g + 1].name = "repo" /\ repo[g + 1].parent = g
        /\ repo[g + 1].lazy /\ g + 1 \in Range(repo[g].children)
    BY <1>4, <1>5, <1>6, <1>8, <1>9, <1>16 DEF Told
  <2>3. /\ info[g + 1].kind = "dir" /\ info[g + 1].name = "repo" /\ info[g + 1].parent = g
        /\ info[g + 1].lazy /\ g + 1 \in Range(info[g].children)
    BY <1>10, <1>11, <2>1, <2>2 DEF Told
  <2>4. QED  BY <1>12, <1>13, <2>1, <2>3 DEF Told
<1>18. /\ end[g + 2].name = "INFO.md" /\ end[g + 2].parent = g + 1 /\ ~end[g + 2].lazy
  <2>1. g + 2 \in 1 .. g + 2 /\ (g + 1) + 1 = g + 2
    BY <1>2
  <2> HIDE DEF g
  <2>2. info[g + 2].name = "INFO.md" /\ info[g + 2].parent = g + 1 /\ ~info[g + 2].lazy
    BY <1>4, <1>5, <1>6, <1>10, <1>11, <2>1 DEF Told
  <2>3. QED  BY <1>12, <1>13, <2>1, <2>2 DEF Told
<1>19. /\ end[g + 3].name = "README.txt" /\ end[g + 3].parent = Root /\ ~end[g + 3].lazy
  <2>1. (g + 2) + 1 = g + 3
    BY <1>2
  <2> HIDE DEF g
  <2>2. QED  BY <1>4, <1>5, <1>6, <1>12, <1>13, <2>1 DEF Told
<1> HIDE DEF g
<1>20. ASSUME NEW i \in 1 .. Len(end)
       PROVE  /\ end[i].lazy => i = g + 1
              /\ end[i].parent = Root /\ end[i].name = "git" => i = g
              /\ end[i].parent = g /\ end[i].name = "repo" => i = g + 1
              /\ i \in {g + 2} <=> end[i].parent \in {g + 2, g + 1}
  <2>1. i = Root \/ i \in 2 .. Len(p) \/ i = g \/ i = g + 1 \/ i = g + 2 \/ i = g + 3
    BY <1>2, <1>15 DEF g
  <2>2. CASE i = Root
    <3>1. end[i].parent = 0
      <4>1. end[i].parent \in Nat /\ end[i].parent < i
        BY <1>15, TreeParts
      <4>2. i = 1
        BY <1>2, <2>2
      <4>3. QED  BY <4>1, <4>2
    <3>2. ~end[i].lazy
      BY <1>1, <1>14, <2>2 DEF Spares
    <3>3. QED  BY <1>2, <2>2, <3>1, <3>2 DEF g
  <2>3. CASE i \in 2 .. Len(p)
    <3>1. end[i] = p[i] /\ p[i].parent < i /\ p[i].parent \in Nat
      <4>1. i \in 1 .. Len(p)
        BY <2>3
      <4>2. QED  BY <1>1, <1>2, <1>14, <2>3, <4>1, TreeParts DEF Spares
    <3>2. ~p[i].lazy
      BY <1>1, <2>3 DEF Shape
    <3>3. p[i].parent = Root => p[i].name = "public"
      BY <1>1, <2>3, OnlyPublic DEF Shape
    <3>4. p[i].parent < g /\ i < g
      BY <1>2, <2>3, <3>1 DEF g
    <3>5. QED  BY <1>2, <3>1, <3>2, <3>3, <3>4
  <2>4. CASE i \in {g, g + 1, g + 2, g + 3}
    <3>1. Root # g /\ Root # g + 1 /\ Root # g + 2 /\ Root # g + 3
      BY <1>2 DEF g
    <3>2. QED  BY <1>2, <1>16, <1>17, <1>18, <1>19, <2>4, <3>1
  <2>5. QED  BY <2>1, <2>2, <2>3, <2>4
<1>21. Holds(end, g, {g + 2})
  <2>1. /\ g \in 2 .. Len(end) /\ g + 1 \in 2 .. Len(end) /\ {g + 2} \subseteq g + 2 .. Len(end)
    BY <1>2, <1>15 DEF g
  <2>2. end[Root].kind = "dir"
    BY <1>1, <1>14 DEF Spares
  <2>3. {g + 2} \union {g + 1} = {g + 2, g + 1}
    OBVIOUS
  <2>4. QED  BY <1>15, <1>16, <1>17, <1>20, <2>1, <2>2, <2>3 DEF Holds
<1>22. QED  BY <1>14, <1>17, <1>18, <1>21 DEF Noted, g, p

\* The tree a mount begins with has sanitised names, and adding keeps that.
LEMMA CleanGrows ==
  ASSUME NEW t \in Trees, CleanTree(t), NEW u, Extends(t, u)
  PROVE  CleanTree(u)
<1>1. u \in Trees /\ Len(t) \in Nat /\ Len(u) \in Nat
  BY TreeParts DEF Extends
<1>2. ASSUME NEW i \in 2 .. Len(u)
      PROVE  u[i].name \in Pure
  <2>1. CASE i \in 2 .. Len(t)
    BY <1>1, <2>1 DEF Extends, Grows, CleanTree
  <2>2. CASE i \in Len(t) + 1 .. Len(u)
    BY <2>2 DEF Extends, Grows
  <2>3. QED  BY <1>1, <2>1, <2>2
<1>3. QED  BY <1>2 DEF CleanTree

\* What is built of a listing has sanitised names.
LEMMA BuiltClean ==
  ASSUME all \in Seq(Blobs)
  PROVE  CleanTree(BuiltTree)
<1>1. NewTree \in Trees /\ Len(NewTree) = 1
  BY NewTreeIs
<1>2. CleanTree(NewTree)
  BY <1>1 DEF CleanTree
<1>3. QED  BY <1>1, <1>2, BuiltIsTree, CleanGrows

\* Paths of sanitised names.
LEMMA PurePaths ==
  ASSUME NEW t \in Trees, CleanTree(t)
  PROVE  \A i \in 0 .. Len(t) : PathOf(t)[i] \in Seq(Pure)
<1> DEFINE D == 0 .. Len(t)
           S == {i \in D : PathOf(t)[i] \in Seq(Pure)}
<1>1. Len(t) \in Nat /\ Root = 1 /\ D \in SUBSET Nat
  BY TreeParts DEF Root
<1>2. ASSUME NEW i \in D, \A j \in D : j < i => j \in S
      PROVE  i \in S
  <2>1. ASSUME i <= Root
        PROVE  PathOf(t)[i] \in Seq(Pure)
    <3>1. PathOf(t)[i] = <<>>
      BY <2>1, PathIs
    <3>2. <<>> \in Seq(Pure)
      OBVIOUS
    <3>3. QED  BY <3>1, <3>2
  <2>2. ASSUME ~(i <= Root)
        PROVE  PathOf(t)[i] \in Seq(Pure)
    <3>1. i \in 2 .. Len(t) /\ i \in 1 .. Len(t)
      BY <1>1, <2>2
    <3>2. t[i].parent \in D /\ t[i].parent < i
      <4>1. t[i].parent \in Nat /\ t[i].parent < i
        BY <3>1, TreeParts
      <4>2. QED  BY <1>1, <3>1, <4>1
    <3>3. PathOf(t)[t[i].parent] \in Seq(Pure) /\ t[i].name \in Pure
      BY <1>2, <3>1, <3>2 DEF CleanTree
    <3>4. PathOf(t)[i] = Append(PathOf(t)[t[i].parent], t[i].name)
      BY <2>2, PathIs
    <3>5. \A s \in Seq(Pure), n \in Pure : Append(s, n) \in Seq(Pure)
      OBVIOUS
    <3>6. QED  BY <3>3, <3>4, <3>5
  <2>3. QED  BY <2>1, <2>2
<1> HIDE DEF D, S
<1>3. D \subseteq S
  BY <1>1, <1>2, StrongInduction
<1>4. QED  BY <1>3 DEF D, S

\* So have the paths published of such a tree.
LEMMA PurePublished ==
  ASSUME NEW t \in Trees, Len(t) > 0, CleanTree(t)
  PROVE  \A h \in Range(PersistTags(t)) : h.path \in Seq(Pure)
<1> DEFINE U == {h \in Tags : h.path \in Seq(Pure)}
           J == 1 .. Len(t)
<1>1. Len(t) \in Nat /\ J \in SUBSET (1 .. Len(t)) /\ Root \in J
  BY TreeParts DEF Root
<1>2. ASSUME NEW i \in J
      PROVE  FirstTag(t, i) \in Seq(U)
  <2>1. FirstTag(t, i) \in Seq(Tags)
    BY FirstTagIs
  <2>2. PathOf(t)[i] \in Seq(Pure)
    <3>1. i \in 0 .. Len(t)
      BY <1>1
    <3>2. QED  BY <3>1, PurePaths
  <2>3. \/ FirstTag(t, i) = <<>>
        \/ \E h : FirstTag(t, i) = <<h>> /\ h.path \in Seq(Pure)
    BY <2>2 DEF FirstTag, OwnTag
  <2>4. ASSUME NEW h, FirstTag(t, i) = <<h>>, h.path \in Seq(Pure)
        PROVE  FirstTag(t, i) \in Seq(U)
    <3>1. <<h>> \in Seq(Tags) /\ 1 \in 1 .. Len(<<h>>)
      BY <2>1, <2>4
    <3> HIDE DEF U
    <3>2. <<h>>[1] \in Tags
      BY <3>1
    <3>3. h \in U
      BY <2>4, <3>2 DEF U
    <3>4. QED  BY <2>4, <3>3
  <2>5. FirstTag(t, i) = <<>> => FirstTag(t, i) \in Seq(U)
    <3> HIDE DEF U
    <3> QED OBVIOUS
  <2> HIDE DEF U
  <2>6. QED  BY <2>3, <2>4, <2>5
<1>3. ASSUME NEW i \in J, NEW c \in Range(t[i].children)
      PROVE  c \in J
  <2>1. \A k \in 1 .. Len(t[i].children) : t[i].children[k] \in 1 .. Len(t)
    BY TreeParts
  <2>2. DOMAIN t[i].children = 1 .. Len(t[i].children)
    BY TreeParts
  <2>3. QED  BY <2>1, <2>2 DEF Range
<1>4. PersistTags(t) \in Seq(U)
  <2> HIDE DEF U, J
  <2>1. QED  BY <1>1, <1>2, <1>3, TagsFrom
<1>5. \A k \in DOMAIN PersistTags(t) : PersistTags(t)[k] \in U
  BY <1>4
<1>6. QED  BY <1>5 DEF Range
-----------------------------------------------------------------------------
(* Paths.                                                                  *)

\* The path of a node other than the root.
LEMMA PathOn ==
  ASSUME NEW t \in Trees, NEW i \in 2 .. Len(t)
  PROVE  /\ t[i].parent \in 0 .. Len(t) /\ t[i].name \in AllNames
         /\ PathOf(t)[t[i].parent] \in Seq(AllNames)
         /\ PathOf(t)[i] = Append(PathOf(t)[t[i].parent], t[i].name)
<1>1. Len(t) \in Nat /\ i \in 1 .. Len(t) /\ i \in 0 .. Len(t) /\ ~(i <= Root)
  BY TreeParts DEF Root
<1>2. t[i].parent \in 0 .. Len(t) /\ t[i].name \in AllNames
  <2>1. t[i].parent \in Nat /\ t[i].parent < i /\ t[i].name \in AllNames
    BY <1>1, TreeParts
  <2>2. QED  BY <1>1, <2>1
<1>3. QED  BY <1>1, <1>2, PathIs

\* One path is that of one name in one place.
LEMMA SamePath ==
  ASSUME NEW t \in Trees, NEW i \in 2 .. Len(t), NEW j \in 2 .. Len(t),
         PathOf(t)[i] = PathOf(t)[j]
  PROVE  PathOf(t)[t[i].parent] = PathOf(t)[t[j].parent] /\ t[i].name = t[j].name
<1> DEFINE s == PathOf(t)[t[i].parent]
           n == t[i].name
           r == PathOf(t)[t[j].parent]
           m == t[j].name
           u == PathOf(t)[i]
<1>1. /\ s \in Seq(AllNames) /\ r \in Seq(AllNames) /\ n \in AllNames /\ m \in AllNames
      /\ u = Append(s, n) /\ u = Append(r, m)
  BY PathOn
<1> HIDE DEF s, n, r, m, u
<1>2. /\ Len(u) = Len(s) + 1 /\ Len(s) \in Nat /\ (\A k \in 1 .. Len(s) : u[k] = s[k])
      /\ u[Len(s) + 1] = n
  <2>1. s \in Seq(AllNames) /\ n \in AllNames /\ u = Append(s, n)
    BY <1>1
  <2>2. QED  BY <2>1, OneName
<1>3. /\ Len(u) = Len(r) + 1 /\ Len(r) \in Nat /\ (\A k \in 1 .. Len(r) : u[k] = r[k])
      /\ u[Len(r) + 1] = m
  <2>1. r \in Seq(AllNames) /\ m \in AllNames /\ u = Append(r, m)
    BY <1>1
  <2>2. QED  BY <2>1, OneName
<1>4. Len(s) = Len(r)
  BY <1>1, <1>2, <1>3
<1>5. n = m /\ \A k \in 1 .. Len(s) : s[k] = r[k]
  BY <1>2, <1>3, <1>4
<1>6. s = r
  BY <1>1, <1>4, <1>5, SeqEqual
<1>7. QED  BY <1>5, <1>6 DEF s, n, r, m

\* How a path begins, and goes on.
LEMMA BelowOn ==
  ASSUME NEW s \in Seq(AllNames), NEW n \in AllNames
  PROVE  Below(Append(s, n)) <=> Len(s) >= 2 /\ s[1] = "git" /\ s[2] = "repo"
<1> DEFINE u == Append(s, n)
<1>1. Len(u) = Len(s) + 1 /\ Len(s) \in Nat /\ \A i \in 1 .. Len(s) : u[i] = s[i]
  BY OneName
<1> HIDE DEF u
<1>2. Len(s) >= 2 => u[1] = s[1] /\ u[2] = s[2]
  <2>1. Len(s) >= 2 => 1 \in 1 .. Len(s) /\ 2 \in 1 .. Len(s)
    BY <1>1
  <2>2. QED  BY <1>1, <2>1
<1>3. Len(u) > 2 <=> Len(s) >= 2
  BY <1>1
<1>4. QED  BY <1>2, <1>3 DEF Below, u

\* Where /git, the repository and what is below it are.
LEMMA RepoPaths ==
  ASSUME NEW t, NEW g, NEW I, Holds(t, g, I)
  PROVE  /\ PathOf(t)[g] = <<"git">> /\ PathOf(t)[g + 1] = <<"git", "repo">>
         /\ \A i \in I : Below(PathOf(t)[i])
<1> DEFINE path == PathOf(t)
<1>1. /\ t \in Trees /\ Len(t) \in Nat /\ g \in 2 .. Len(t) /\ g + 1 \in 2 .. Len(t)
      /\ I \subseteq g + 2 .. Len(t) /\ Root = 1 /\ Root \in 0 .. Len(t)
  BY TreeParts DEF Holds, Root
<1>2. path[Root] = <<>>
  BY <1>1, PathIs
<1>3. path[g] = <<"git">>
  <2>1. path[g] = Append(path[Root], "git")
    BY <1>1, PathOn DEF Holds
  <2> HIDE DEF path
  <2>2. QED  BY <1>2, <2>1
<1>4. path[g + 1] = <<"git", "repo">>
  <2>1. path[g + 1] = Append(path[g], "repo")
    BY <1>1, PathOn DEF Holds
  <2>2. Append(<<"git">>, "repo") = <<"git", "repo">>
    BY TwoNames
  <2> HIDE DEF path
  <2>3. QED  BY <1>3, <2>1, <2>2
<1> DEFINE S == {i \in I : Below(path[i])}
<1>5. ASSUME NEW i \in I, \A j \in I : j < i => j \in S
      PROVE  i \in S
  <2> DEFINE q == t[i].parent
  <2>1. i \in 2 .. Len(t) /\ i \in 1 .. Len(t)
    BY <1>1
  <2>2. /\ path[q] \in Seq(AllNames) /\ t[i].name \in AllNames
        /\ path[i] = Append(path[q], t[i].name)
    BY <1>1, <2>1, PathOn
  <2>3. q \in I \union {g + 1} /\ q < i
    BY <1>1, <2>1, TreeParts DEF Holds
  <2>4. Len(path[q]) >= 2 /\ path[q][1] = "git" /\ path[q][2] = "repo"
    <3>1. CASE q = g + 1
      <4> HIDE DEF path, q
      <4>1. path[q] = <<"git", "repo">>
        BY <1>4, <3>1
      <4>2. QED  BY <4>1
    <3>2. CASE q \in I
      <4>1. Below(path[q])
        BY <1>5, <2>3, <3>2
      <4> HIDE DEF path
      <4>2. Len(path[q]) \in Nat
        BY <2>2
      <4>3. QED  BY <4>1, <4>2 DEF Below
    <3>3. QED  BY <2>3, <3>1, <3>2
  <2> HIDE DEF path, q
  <2>5. Below(path[i])
    BY <2>2, <2>4, BelowOn
  <2>6. QED  BY <2>5
<1>6. I \in SUBSET Nat
  BY <1>1
<1> HIDE DEF S
<1>7. I \subseteq S
  BY <1>5, <1>6, StrongInduction
<1>8. QED  BY <1>3, <1>4, <1>7 DEF S

\* No two nodes below the repository have one path.
LEMMA RepoApart ==
  ASSUME NEW t, NEW g, NEW I, Holds(t, g, I)
  PROVE  \A i, j \in I : PathOf(t)[i] = PathOf(t)[j] => i = j
<1> DEFINE path == PathOf(t)
           S == {i \in I : \A j \in I : path[i] = path[j] => i = j}
<1>1. /\ t \in Trees /\ Len(t) \in Nat /\ g \in 2 .. Len(t) /\ I \subseteq 2 .. Len(t)
  <2>1. /\ t \in Trees /\ Len(t) \in Nat /\ g \in 2 .. Len(t) /\ I \subseteq g + 2 .. Len(t)
    BY TreeParts DEF Holds
  <2>2. g + 2 .. Len(t) \subseteq 2 .. Len(t)
    BY <2>1
  <2>3. QED  BY <2>1, <2>2
<1>2. path[g + 1] = <<"git", "repo">> /\ \A i \in I : Below(path[i])
  BY RepoPaths
<1>3. \A i \in I : /\ i \in 1 .. Len(t) /\ t[i].parent \in I \union {g + 1} /\ t[i].parent < i
                   /\ path[t[i].parent] \in Seq(AllNames) /\ t[i].name \in AllNames
                   /\ path[i] = Append(path[t[i].parent], t[i].name)
  <2>1. ASSUME NEW i \in I
        PROVE  /\ i \in 1 .. Len(t) /\ t[i].parent \in I \union {g + 1} /\ t[i].parent < i
  <3>1. i \in 1 .. Len(t)
      BY <1>1
    <3>2. QED  BY <1>1, <3>1, TreeParts DEF Holds
  <2>2. QED  BY <1>1, <2>1, PathOn
<1> HIDE DEF path
<1>4. ASSUME NEW i \in I, \A j \in I : j < i => j \in S
      PROVE  i \in S
  <2>1. ASSUME NEW j \in I, path[i] = path[j]
        PROVE  i = j
    <3> DEFINE p == t[i].parent
               q == t[j].parent
    <3>1. path[p] = path[q] /\ t[i].name = t[j].name
      <4>1. i \in 2 .. Len(t) /\ j \in 2 .. Len(t)
        BY <1>1
      <4>2. QED  BY <1>1, <2>1, <4>1, SamePath DEF path
    <3>2. ~Below(path[g + 1])
      BY <1>2 DEF Below
    <3>3. p \in I <=> q \in I
      BY <1>2, <1>3, <3>1, <3>2
    <3>4. p = q
      <4>1. CASE p = g + 1 \/ q = g + 1
        BY <1>2, <1>3, <3>1, <3>2, <4>1
      <4>2. CASE p \in I /\ q \in I
        <5>1. p \in S
          BY <1>3, <1>4, <4>2
        <5>2. QED  BY <3>1, <4>2, <5>1
      <4>3. QED  BY <1>3, <3>3, <4>1, <4>2
    <3>5. QED  BY <3>1, <3>4 DEF Holds
  <2>2. QED  BY <2>1
<1>5. I \in SUBSET Nat
  BY <1>1
<1>6. I \subseteq S
  <2> HIDE DEF S
  <2> QED BY <1>4, <1>5, StrongInduction
<1>7. QED  BY <1>6 DEF path

\* What is linked below the repository is in I.
LEMMA LinkedBelow ==
  ASSUME NEW t, NEW g, NEW I, Holds(t, g, I)
  PROVE  \A i \in Linked(t) : Below(PathOf(t)[i]) => i \in I
<1> DEFINE path == PathOf(t)
           Place(i) == LET s == path[i] IN
             /\ Len(s) = 0 => i = Root
             /\ Len(s) = 1 /\ s[1] = "git" => i = g
             /\ Len(s) = 2 /\ s[1] = "git" /\ s[2] = "repo" => i = g + 1
             /\ Below(s) => i \in I
           D == Linked(t)
           S == {i \in D : Place(i)}
<1>1. /\ t \in Trees /\ Len(t) \in Nat /\ Root = 1 /\ Root \in 0 .. Len(t)
      /\ D \subseteq 1 .. Len(t)
  BY TreeParts, LinkedIs DEF Holds, Root
<1>2. path[Root] = <<>>
  BY <1>1, PathIs
<1>3. ASSUME NEW i \in D, \A j \in D : j < i => j \in S
      PROVE  i \in S
  <2>1. CASE i = Root
    <3> HIDE DEF path
    <3>1. path[i] = <<>> /\ Len(path[i]) = 0
      BY <1>2, <2>1
    <3>2. QED  BY <2>1, <3>1 DEF Below
  <2>2. CASE i # Root
    <3> DEFINE q == t[i].parent
               s == path[q]
               n == t[i].name
    <3>1. i \in 2 .. Len(t) /\ i \in 1 .. Len(t)
      BY <1>1, <2>2
    <3>2. s \in Seq(AllNames) /\ n \in AllNames /\ path[i] = Append(s, n)
      BY <1>1, <3>1, PathOn
    <3>3. q \in D /\ q < i
      BY <1>1, <2>2, <3>1, LinkedIs, TreeParts
    <3>4. Place(q)
      BY <1>3, <3>3
    <3>6. /\ q = Root /\ n = "git" => i = g
          /\ q = g /\ n = "repo" => i = g + 1
          /\ q \in I \union {g + 1} => i \in I
      BY <3>1 DEF Holds
    <3> HIDE DEF path, q, n
    <3>7. /\ Len(s) = 0 => q = Root
          /\ Len(s) = 1 /\ s[1] = "git" => q = g
          /\ Len(s) = 2 /\ s[1] = "git" /\ s[2] = "repo" => q = g + 1
          /\ Below(s) => q \in I
      BY <3>4
    <3> HIDE DEF s
    <3> DEFINE u == Append(s, n)
    <3>8. /\ Len(u) = Len(s) + 1 /\ Len(s) \in Nat /\ \A j \in 1 .. Len(s) : u[j] = s[j]
          /\ u[Len(s) + 1] = n
      BY <3>2, OneName
    <3>9. Below(u) => i \in I
      <4>1. Below(u) => Len(s) >= 2 /\ s[1] = "git" /\ s[2] = "repo"
        BY <3>2, BelowOn
      <4> HIDE DEF u
      <4>2. Len(s) >= 2 => Len(s) = 2 \/ Len(s) > 2
        <5>1. Len(s) \in Nat
          BY <3>8
        <5>2. \A m \in Nat : m >= 2 => m = 2 \/ m > 2
          OBVIOUS
        <5>3. QED  BY <5>1, <5>2
      <4>3. CASE Len(s) = 2 /\ s[1] = "git" /\ s[2] = "repo"
        <5>1. q = g + 1
          BY <3>7, <4>3
        <5>2. QED  BY <3>6, <5>1
      <4>4. CASE Below(s)
        <5>1. q \in I
          BY <3>7, <4>4
        <5>2. QED  BY <3>6, <5>1
      <4>5. QED  BY <4>1, <4>2, <4>3, <4>4 DEF Below
    <3> HIDE DEF u
    <3>10. /\ Len(u) = Len(s) + 1 /\ Len(s) \in Nat /\ Len(u) # 0
           /\ u \in Seq(AllNames) /\ s \in Seq(AllNames)
      BY <3>2, <3>8, OneName DEF u
    <3>11. Len(u) = 1 /\ u[1] = "git" => i = g
      <4>1. Len(u) = 1 => Len(s) = 0 /\ Len(s) + 1 = 1
        BY <3>10
      <4>2. QED  BY <3>6, <3>7, <3>8, <4>1
    <3>12. Len(u) = 2 /\ u[1] = "git" /\ u[2] = "repo" => i = g + 1
      <4>1. ASSUME NEW m \in Nat, NEW o, o = m + 1, o = 2
            PROVE  m = 1 /\ 1 \in 1 .. m
        BY <4>1
      <4>2. Len(u) = 2 => Len(s) = 1 /\ Len(s) + 1 = 2 /\ 1 \in 1 .. Len(s)
        BY <3>10, <4>1
      <4>3. QED  BY <3>6, <3>7, <3>8, <4>2
    <3>13. path[i] = u
      BY <3>2 DEF u
    <3>14. QED  BY <3>9, <3>10, <3>11, <3>12, <3>13
  <2>3. QED  BY <2>1, <2>2
<1>4. D \in SUBSET Nat
  BY <1>1
<1>5. D \subseteq S
  <2> HIDE DEF S, D
  <2> QED BY <1>3, <1>4, StrongInduction
<1>6. QED  BY <1>5
-----------------------------------------------------------------------------
(* Every step keeps the repository.                                        *)

\* Writing over a node that keeps its entries there does.
LEMMA RetouchKeeps ==
  ASSUME NEW t, NEW g, NEW I, Holds(t, g, I), NEW i \in 1 .. Len(t), NEW y \in Nodes,
         y.kind = t[i].kind, y.parent = t[i].parent, y.name = t[i].name, y.lazy => t[i].lazy,
         IsInjective(y.children), Range(y.children) \subseteq Range(t[i].children),
         y.kind = "file" => y.children = <<>>,
         \A c \in Range(t[i].children) :
           c = g \/ i \in I \union {g, g + 1} => c \in Range(y.children)
  PROVE  LET u == [t EXCEPT ![i] = y] IN
         /\ Keeping(t, u, g, I) /\ Len(u) = Len(t) /\ u[i] = y
         /\ \A j \in 1 .. Len(t) : u[j].name = t[j].name
         /\ \A j \in 1 .. Len(t) : j # i => u[j] = t[j]
<1> DEFINE u == [t EXCEPT ![i] = y]
<1>1. t \in Trees /\ Len(t) \in Nat
  BY TreeParts DEF Holds
<1>2. /\ u \in Trees /\ Len(u) = Len(t) /\ u[i] = y
      /\ \A j \in 1 .. Len(t) : j # i => u[j] = t[j]
  BY <1>1, RetouchedIs
<1> HIDE DEF u
<1>3. \A j \in 1 .. Len(t) : u[j].kind = t[j].kind /\ u[j].name = t[j].name
                             /\ u[j].parent = t[j].parent /\ (u[j].lazy => t[j].lazy)
  BY <1>2
<1>4. ASSUME NEW j \in 1 .. Len(t), NEW c \in Range(t[j].children),
             c = g \/ j \in I \union {g, g + 1}
      PROVE  c \in Range(u[j].children)
  BY <1>2, <1>4
<1>5. Len(t) + 1 .. Len(u) = {}
  BY <1>1, <1>2
<1>6. Keeping(t, u, g, I)
  BY <1>1, <1>2, <1>3, <1>4, <1>5 DEF Keeping
<1>7. QED  BY <1>2, <1>3, <1>6 DEF u

\* The user works elsewhere than in the repository.
LEMMA UserDirsOutside ==
  ASSUME NEW g, NEW I, Holds(tree, g, I), NEW d \in UserDirs, NEW n \in UserNames
  PROVE  /\ Outside(tree, g, I, d, n) /\ d # g /\ n \in AllNames
         /\ Lookup(tree, d, n) # g
<1>1. /\ tree \in Trees /\ Len(tree) \in Nat /\ g \in 2 .. Len(tree) /\ g # 0 /\ Root = 1
      /\ d \in 1 .. Len(tree) /\ n \in AllNames /\ San[n] # "git"
  BY UserDirsAre, TreeParts, NameAssumption, CleanAssumption DEF Holds, Root
<1>2. d = Root \/ PathOf(tree)[d][1] \in UserNames
  BY DEF UserDirs
<1>3. n # "git" /\ "git" \notin UserNames
  BY CleanAssumption, CleanWords
<1>4. \A i \in I \union {g, g + 1} : PathOf(tree)[i][1] = "git"
  <2>1. PathOf(tree)[g] = <<"git">> /\ PathOf(tree)[g + 1] = <<"git", "repo">>
        /\ \A i \in I : Below(PathOf(tree)[i])
    BY RepoPaths
  <2>2. <<"git">>[1] = "git" /\ <<"git", "repo">>[1] = "git"
    OBVIOUS
  <2>3. QED  BY <2>1, <2>2 DEF Below
<1>5. d \notin I \union {g, g + 1}
  <2>1. Root \notin I \union {g, g + 1}
    BY <1>1 DEF Holds
  <2>2. QED  BY <1>2, <1>3, <1>4, <2>1
<1>6. Lookup(tree, d, n) # g
  <2>1. Lookup(tree, d, n) # 0 => tree[Lookup(tree, d, n)].name = n
    BY <1>1, LookupIs
  <2>2. QED  BY <1>1, <1>3, <2>1 DEF Holds
<1>7. QED  BY <1>1, <1>5, <1>6 DEF Outside

\* The mount has the repository: its mark, its clone, its note or its files.
Found(g, I) ==
  /\ Holds(tree, g, I)
  /\ cloning \in {0, g + 1}
  /\ cloning # 0 => ~tree[g + 1].lazy
  /\ tree[g + 1].lazy \/ cloning # 0 => Noted(tree, g, I)
  /\ ~tree[g + 1].lazy /\ cloning = 0 /\ disk = "whole" => \E w : Checkout(tree, g, I, w)

\* The structure published last has something below the repository.
Restored == \E h \in Range(event) : Below(h.path)

\* Every mount has the repository, unless that is restored.
RepoInv ==
  /\ \A h \in Range(event) : h.path \in Seq(Pure)
  /\ CleanTree(tree)
  /\ phase = "up" /\ ~Restored => \E g, I : Found(g, I)

\* What keeps it while neither mark nor clone changes.
LEMMA FoundOn ==
  ASSUME NEW g, NEW I, Found(g, I), Keeping(tree, tree', g, I),
         tree'[g + 1].lazy = tree[g + 1].lazy, UNCHANGED <<cloning, disk>>
  PROVE  Found(g, I)'
<1>1. /\ Holds(tree', g, I)
      /\ Noted(tree, g, I) => Noted(tree', g, I)
      /\ \A w : Checkout(tree, g, I, w) => Checkout(tree', g, I, w)
  BY KeepsRepo DEF Found
<1>2. QED  BY <1>1 DEF Found

\* Names are kept with the nodes.
LEMMA CleanSame ==
  ASSUME NEW t, NEW u, Len(u) = Len(t), CleanTree(t), Len(t) \in Nat,
         \A j \in 1 .. Len(t) : u[j].name = t[j].name
  PROVE  CleanTree(u)
BY DEF CleanTree

\* Mounting makes the repository, whatever is restored beside it.
LEMMA RepoMountUp ==
  ASSUME TypeInv, RepoInv, MountUp
  PROVE  RepoInv'
<1>1. /\ all \in Seq(Blobs) /\ event \in Seq(Tags) /\ cloning = 0
      /\ phase = "listed" /\ UNCHANGED <<event, all, cloning, disk>> /\ phase' = "up"
      /\ tree' \in {ApplyPersisted(BuiltTree, event), BuiltTree}
  BY DEF TypeInv, ListInv, TreeInv, MountUp
<1>2. /\ BuiltTree \in Trees /\ Len(BuiltTree) > 0 /\ CleanTree(BuiltTree)
      /\ Extends(BuiltTree, ApplyPersisted(BuiltTree, event))
  BY <1>1, BuiltIsTree, BuiltClean, PersistedGrows
<1>3. CleanTree(tree')
  BY <1>1, <1>2, CleanGrows
<1>4. ASSUME ~Restored
      PROVE  \E g, I : Found(g, I)'
  <2>1. PICK g, I : /\ Holds(BuiltTree, g, I) /\ Noted(BuiltTree, g, I)
                    /\ BuiltTree[g + 1].lazy
    BY <1>1, BuiltHolds
  <2>2. \A h \in Range(event) : h.path \in Seq(Pure) /\ ~Below(h.path)
    BY <1>4 DEF RepoInv, Restored
  <2>3. /\ Holds(ApplyPersisted(BuiltTree, event), g, I)
        /\ Noted(ApplyPersisted(BuiltTree, event), g, I)
    BY <1>1, <2>1, <2>2, PersistedApart
  <2>4. ApplyPersisted(BuiltTree, event)[g + 1].lazy = BuiltTree[g + 1].lazy
    <3>1. g + 1 \in 1 .. Len(BuiltTree)
      BY <2>1 DEF Holds
    <3>2. QED  BY <1>2, <3>1 DEF Extends, Grows
  <2>5. Holds(tree', g, I) /\ Noted(tree', g, I) /\ tree'[g + 1].lazy
    BY <1>1, <2>1, <2>3, <2>4
  <2>6. Found(g, I)'
    BY <1>1, <2>5 DEF Found
  <2>7. QED  BY <2>6
<1>5. Restored' <=> Restored
  BY <1>1 DEF Restored
<1>6. QED  BY <1>1, <1>3, <1>4, <1>5 DEF RepoInv

\* Its first listing takes its mark, and starts a clone or walks the last one.
LEMMA RepoTakeLazy ==
  ASSUME TypeInv, NEW g, NEW I, Found(g, I), NEW d \in DOMAIN tree, TakeLazy(d)
  PROVE  Found(g, I)'
<1> DEFINE y == [tree[d] EXCEPT !.lazy = FALSE]
<1>1. /\ cloning' = d /\ disk' = disk /\ tree[d].lazy /\ tree' = [tree EXCEPT ![d] = y]
  BY DEF TakeLazy
<1>2. tree \in Trees /\ d \in 1 .. Len(tree) /\ Holds(tree, g, I)
  BY TreeParts DEF Found, Holds
<1>3. d = g + 1
  BY <1>1, <1>2 DEF Holds
<1>4. /\ tree[d] \in Nodes /\ IsInjective(tree[d].children)
      /\ (tree[d].kind = "file" => tree[d].children = <<>>)
  BY <1>2, TreeParts
<1>5. /\ y \in Nodes /\ y.kind = tree[d].kind /\ y.parent = tree[d].parent
      /\ y.name = tree[d].name /\ ~y.lazy /\ y.children = tree[d].children
  BY <1>4 DEF Nodes
<1> HIDE DEF y
<1>6. Keeping(tree, tree', g, I) /\ tree'[d] = y
  <2> DEFINE u == [tree EXCEPT ![d] = y]
  <2>1. Keeping(tree, u, g, I) /\ u[d] = y
    BY <1>2, <1>4, <1>5, RetouchKeeps
  <2>2. QED  BY <1>1, <2>1
<1>7. Noted(tree, g, I)
  BY <1>1, <1>3 DEF Found
<1>8. Holds(tree', g, I) /\ Noted(tree', g, I)
  BY <1>2, <1>6, <1>7, KeepsRepo
<1>9. cloning' # 0
  BY <1>1, <1>2
<1>10. QED  BY <1>1, <1>3, <1>5, <1>6, <1>8, <1>9 DEF Found

\* A clone that ends shows what is in it.
LEMMA RepoCloned ==
  ASSUME TypeInv, NEW g, NEW I, Found(g, I), Cloned
  PROVE  \E J : Found(g, J)'
<1>1. /\ cloning # 0 /\ cloning' = 0
      /\ tree' = IF disk' = "whole" THEN WalkRepo(tree, cloning) ELSE tree
  BY DEF Cloned
<1>2. cloning = g + 1 /\ ~tree[g + 1].lazy /\ Noted(tree, g, I) /\ Holds(tree, g, I)
  BY <1>1 DEF Found
<1>3. CASE disk' # "whole"
  <2>1. Found(g, I)'
    BY <1>1, <1>2, <1>3 DEF Found
  <2>2. QED  BY <2>1
<1>4. CASE disk' = "whole"
  <2>1. tree' = WalkRepo(tree, g + 1)
    BY <1>1, <1>2, <1>4
  <2>2. Holds(tree, g, {g + 2}) /\ tree[g + 2].name = "INFO.md"
    BY <1>2 DEF Noted
  <2>3. PICK J : Holds(tree', g, J) /\ Checkout(tree', g, J, Len(tree))
    BY <2>1, <2>2, WalkShows
  <2>4. ~tree'[g + 1].lazy
    <3>1. tree \in Trees /\ g + 1 \in 1 .. Len(tree)
      BY <1>2 DEF Holds
    <3>2. Extends(tree, tree')
      BY <2>1, <3>1, WalkGrows
    <3>3. QED  BY <1>2, <3>1, <3>2 DEF Extends, Grows
  <2>5. Found(g, J)'
    BY <1>1, <2>3, <2>4 DEF Found
  <2>6. QED  BY <2>5
<1>5. QED  BY <1>3, <1>4

\* A clone that fails leaves its note.
LEMMA RepoCloneFails ==
  ASSUME TypeInv, NEW g, NEW I, Found(g, I), CloneFails
  PROVE  \E J : Found(g, J)'
<1> DEFINE x == File(g + 1, "CLONE_FAILED.txt", Static)
<1>1. /\ cloning # 0 /\ cloning' = 0 /\ disk = "none" /\ disk' = disk
      /\ tree' = AddStaticFile(tree, cloning, "CLONE_FAILED.txt")
  BY DEF CloneFails
<1>2. cloning = g + 1 /\ ~tree[g + 1].lazy /\ Noted(tree, g, I) /\ Holds(tree, g, I)
  BY <1>1 DEF Found
<1>3. tree' = Add(tree, x)
  BY <1>1, <1>2 DEF AddStaticFile
<1>4. tree \in Trees /\ g + 1 \in 1 .. Len(tree) /\ g + 1 \in Nat
  BY <1>2 DEF Holds
<1>5. /\ x \in Fresh /\ x.parent = g + 1 /\ x.name = "CLONE_FAILED.txt" /\ ~x.lazy
  <2>1. "CLONE_FAILED.txt" \in AllNames /\ Static \in Contents
    BY Words
  <2>2. x \in Fresh /\ x.parent = g + 1
    BY <1>4, <2>1, NewNodes
  <2>3. QED  BY <2>2 DEF File
<1> HIDE DEF x
<1>6. \A i \in I : tree[i].name # San[x.name]
  <2>1. San["CLONE_FAILED.txt"] = "CLONE_FAILED.txt"
    BY CleanAssumption
  <2>2. QED  BY <1>2, <1>5, <2>1 DEF Noted
<1>7. PICK J : Holds(Add(tree, x), g, J)
  <2>1. Holds(Add(tree, x), g, I \union {Len(tree) + 1})
    BY <1>2, <1>5, <1>6, AddWithin
  <2>2. QED  BY <2>1
<1>8. ~Add(tree, x)[g + 1].lazy
  BY <1>2, <1>4, <1>5, AddIs
<1>9. Found(g, J)'
  BY <1>1, <1>3, <1>7, <1>8 DEF Found
<1>10. QED  BY <1>9
\* Every step keeps all this.
LEMMA RepoSteps ==
  ASSUME TypeInv, RepoInv, Next
  PROVE  RepoInv'
<1>1. /\ all \in Seq(Blobs) /\ tree \in Trees /\ Len(tree) \in Nat /\ DOMAIN tree = 1 .. Len(tree)
      /\ event \in Seq(Tags) /\ (phase # "up" => cloning = 0)
      /\ (phase = "up" => Len(tree) > 0)
      /\ cloning \in {0} \union {d \in DOMAIN tree : IsDir(tree, d)}
  BY TreeParts DEF TypeInv, ListInv, TreeInv
<1>2. /\ \A h \in Range(event) : h.path \in Seq(Pure)
      /\ CleanTree(tree)
      /\ phase = "up" /\ ~Restored => \E g, I : Found(g, I)
  BY DEF RepoInv
<1>3. event' = event => Restored' = Restored
  BY DEF Restored
<1>4. CASE event' = event /\ phase' # "up" /\ (tree' = tree \/ tree' = <<>>)
  <2>1. CleanTree(<<>>)
    BY DEF CleanTree
  <2>2. CleanTree(tree')
    BY <1>2, <1>4, <2>1
  <2>3. QED  BY <1>2, <1>4, <2>2 DEF RepoInv
<1>5. ASSUME phase = "up", event' = event, CleanTree(tree'),
             \A g, I : Found(g, I) => \E J : Found(g, J)'
      PROVE  RepoInv'
  <2>1. Restored' = Restored
    BY <1>3, <1>5
  <2>2. ~Restored => \E g, I : Found(g, I)'
    BY <1>2, <1>5
  <2>3. QED  BY <1>2, <1>5, <2>1, <2>2 DEF RepoInv
<1>6. CASE UNCHANGED <<event, phase, tree, cloning, disk>>
  <2>1. \A g, I : Found(g, I)' <=> Found(g, I)
    BY <1>6 DEF Found
  <2>2. QED  BY <1>2, <1>3, <1>6, <2>1 DEF RepoInv
<1>7. CASE \/ StartMount \/ ListPage \/ ListFails
           \/ \E b \in Blobs : Arrives(b) \/ Vanishes(b)
  <2>1. event' = event /\ phase' # "up" /\ tree' = tree
    BY <1>7 DEF StartMount, ListPage, ListFails, Arrives, Vanishes, treeVars
  <2>2. QED  BY <1>4, <2>1
<1>8. CASE MountUp
  BY <1>8, RepoMountUp
<1>9. CASE Unmount
  <2>1. phase = "up" /\ phase' = "down" /\ tree' = <<>> /\ event' \in {PersistTags(tree), event}
    BY <1>9 DEF Unmount, Down
  <2>2. \A h \in Range(PersistTags(tree)) : h.path \in Seq(Pure)
    BY <1>1, <1>2, <2>1, PurePublished
  <2>3. \A h \in Range(event') : h.path \in Seq(Pure)
    BY <1>2, <2>1, <2>2
  <2>4. CleanTree(tree')
    BY <2>1 DEF CleanTree
  <2>5. QED  BY <2>1, <2>3, <2>4 DEF RepoInv
<1>10. CASE Kill
  <2>1. event' = event /\ phase' # "up" /\ tree' = <<>>
    BY <1>10 DEF Kill, Down
  <2>2. QED  BY <1>4, <2>1
<1>11. ASSUME NEW d \in DOMAIN tree, TakeLazy(d)
       PROVE  RepoInv'
  <2> DEFINE y == [tree[d] EXCEPT !.lazy = FALSE]
  <2>1. phase = "up" /\ event' = event /\ tree' = [tree EXCEPT ![d] = y]
    BY <1>11 DEF TakeLazy
  <2>2. \A g, I : Found(g, I) => Found(g, I)'
    BY <1>11, RepoTakeLazy
  <2>3. y.name = tree[d].name
    <3>1. tree[d] \in Nodes
      BY <1>1, TreeParts
    <3>2. QED  BY <3>1 DEF Nodes
  <2> HIDE DEF y
  <2>4. Len(tree') = Len(tree) /\ \A j \in 1 .. Len(tree) : tree'[j].name = tree[j].name
    BY <1>1, <2>1, <2>3 DEF Trees
  <2>5. CleanTree(tree')
    BY <1>1, <1>2, <2>4, CleanSame
  <2>6. QED  BY <1>5, <2>1, <2>2, <2>5
<1>12. CASE Cloned
  <2>1. /\ phase = "up" /\ event' = event /\ cloning # 0
        /\ tree' \in {WalkRepo(tree, cloning), tree}
    BY <1>1, <1>12 DEF Cloned
  <2>2. CleanTree(tree')
    <3>1. cloning \in 1 .. Len(tree)
      BY <1>1, <2>1
    <3>2. Extends(tree, WalkRepo(tree, cloning))
      BY <1>1, <3>1, WalkGrows
    <3>3. QED  BY <1>1, <1>2, <2>1, <3>2, CleanGrows
  <2>3. QED  BY <1>5, <1>12, <2>1, <2>2, RepoCloned
<1>13. CASE CloneFails
  <2>1. /\ phase = "up" /\ event' = event /\ cloning # 0
        /\ tree' = AddStaticFile(tree, cloning, "CLONE_FAILED.txt")
    BY <1>1, <1>13 DEF CloneFails
  <2>2. CleanTree(tree')
    <3>1. cloning \in 0 .. Len(tree) /\ None \in Contents
      BY <1>1, <2>1, Words
    <3>2. Extends(tree, AddStaticFile(tree, cloning, "CLONE_FAILED.txt"))
      BY <1>1, <3>1, Words, AddersGrow
    <3>3. QED  BY <1>1, <1>2, <2>1, <3>2, CleanGrows
  <2>3. QED  BY <1>5, <1>13, <2>1, <2>2, RepoCloneFails
<1>14. ASSUME NEW d \in UserDirs, NEW n \in UserNames, Mkdir(d, n) \/ Create(d, n)
       PROVE  RepoInv'
  <2>1. /\ phase = "up" /\ UNCHANGED <<event, cloning, disk>>
        /\ tree' \in {Add(tree, Dir(d, n)), Add(tree, File(d, n, Static))}
    BY <1>14 DEF Mkdir, Create, UserOp, AddDirectory, AddFileToDir
  <2>2. d \in 1 .. Len(tree) /\ d <= Len(tree) /\ d \in Nat /\ n \in AllNames
    BY <1>1, UserDirsAre, NameAssumption
  <2>3. /\ Dir(d, n) \in Fresh /\ Dir(d, n).parent = d
        /\ File(d, n, Static) \in Fresh /\ File(d, n, Static).parent = d
    <3>1. Static \in Contents
      BY Words
    <3>2. QED  BY <2>2, <3>1, NewNodes
  <2>4. Dir(d, n).name = n /\ ~Dir(d, n).lazy /\ File(d, n, Static).name = n
        /\ ~File(d, n, Static).lazy
    BY DEF Dir, File
  <2>5. PICK x \in Fresh : x.parent = d /\ x.name = n /\ ~x.lazy /\ tree' = Add(tree, x)
    BY <2>1, <2>3, <2>4
  <2>6. tree' \in Trees /\ Grows(tree, tree')
    BY <1>1, <2>2, <2>5, AddGrows
  <2>7. CleanTree(tree')
    BY <1>1, <1>2, <2>6, CleanGrows DEF Extends
  <2>8. ASSUME NEW g, NEW I, Found(g, I)
        PROVE  Found(g, I)'
    <3>1. Holds(tree, g, I)
      BY <2>8 DEF Found
    <3>2. Outside(tree, g, I, x.parent, x.name)
      BY <2>5, <3>1, UserDirsOutside
    <3>3. Keeping(tree, tree', g, I)
      BY <2>5, <3>1, <3>2, AddOutside
    <3>4. tree'[g + 1].lazy = tree[g + 1].lazy
      <4>1. g + 1 \in 1 .. Len(tree)
        BY <1>1, <3>1 DEF Holds
      <4>2. QED  BY <2>6, <4>1 DEF Grows
    <3>5. QED  BY <2>1, <2>8, <3>3, <3>4, FoundOn
  <2>9. QED  BY <1>5, <2>1, <2>7, <2>8
<1>15. ASSUME NEW d \in UserDirs, NEW n \in UserNames, Unlink(d, n) \/ Rmdir(d, n)
       PROVE  RepoInv'
  <2> DEFINE c == Lookup(tree, d, n)
             y == [tree[d] EXCEPT !.children = Only(@, Range(@) \ {c})]
  <2>1. /\ phase = "up" /\ UNCHANGED <<event, cloning, disk>> /\ tree' = [tree EXCEPT ![d] = y]
    BY <1>15 DEF Unlink, Rmdir, UserOp, Drop
  <2>2. d \in 1 .. Len(tree)
    BY <1>1, UserDirsAre
  <2>3. /\ tree[d] \in Nodes /\ IsInjective(tree[d].children)
        /\ tree[d].children \in Seq(Nat)
        /\ (tree[d].kind = "file" => tree[d].children = <<>>)
    BY <1>1, <2>2, TreeParts
  <2>4. /\ y \in Nodes /\ y.kind = tree[d].kind /\ y.parent = tree[d].parent
        /\ y.name = tree[d].name /\ y.lazy = tree[d].lazy
        /\ IsInjective(y.children) /\ Range(y.children) = Range(tree[d].children) \ {c}
        /\ (y.kind = "file" => y.children = <<>>)
    <3> HIDE DEF c
    <3> DEFINE o == Only(tree[d].children, Range(tree[d].children) \ {c})
    <3>1. /\ o \in Seq(Nat) /\ Range(o) = Range(tree[d].children) \ {c} /\ IsInjective(o)
          /\ Len(o) <= Len(tree[d].children)
      BY <2>3, OnlyKeeps
    <3> HIDE DEF o
    <3>2. y = [tree[d] EXCEPT !.children = o]
      BY DEF o
    <3>3. /\ y \in Nodes /\ y.kind = tree[d].kind /\ y.parent = tree[d].parent
          /\ y.name = tree[d].name /\ y.lazy = tree[d].lazy /\ y.children = o
      BY <2>3, <3>1, <3>2 DEF Nodes
    <3>4. y.kind = "file" => y.children = <<>>
      <4>1. tree[d].kind = "file" => Len(tree[d].children) = 0
        BY <2>3
      <4>2. QED  BY <3>1, <3>3, <4>1
    <3> HIDE DEF y
    <3>5. QED  BY <3>1, <3>3, <3>4
  <2> HIDE DEF y
  <2>5. \A j \in 1 .. Len(tree) : tree'[j].name = tree[j].name /\ tree'[j].lazy = tree[j].lazy
    BY <1>1, <2>1, <2>2, <2>4 DEF Trees
  <2>6. Len(tree') = Len(tree)
    BY <1>1, <2>1 DEF Trees
  <2>7. CleanTree(tree')
    BY <1>1, <1>2, <2>5, <2>6, CleanSame
  <2>8. ASSUME NEW g, NEW I, Found(g, I)
        PROVE  Found(g, I)'
    <3>1. Holds(tree, g, I)
      BY <2>8 DEF Found
    <3>2. d \notin I \union {g, g + 1} /\ c # g
      BY <3>1, UserDirsOutside DEF Outside
    <3> HIDE DEF c
    <3>3. Keeping(tree, tree', g, I)
      <4> DEFINE u == [tree EXCEPT ![d] = y]
      <4>1. \A e \in Range(tree[d].children) :
              e = g \/ d \in I \union {g, g + 1} => e \in Range(y.children)
        BY <2>4, <3>2
      <4>2. Range(y.children) \subseteq Range(tree[d].children)
        BY <2>4
      <4>3. Keeping(tree, u, g, I)
        BY <2>2, <2>4, <3>1, <4>1, <4>2, RetouchKeeps
      <4>4. QED  BY <2>1, <4>3
    <3>4. tree'[g + 1].lazy = tree[g + 1].lazy
      <4>1. g + 1 \in 1 .. Len(tree)
        BY <1>1, <3>1 DEF Holds
      <4>2. QED  BY <2>5, <4>1
    <3>5. QED  BY <2>1, <2>8, <3>3, <3>4, FoundOn
  <2>9. QED  BY <1>5, <2>1, <2>7, <2>8
<1>16. ASSUME NEW i \in DOMAIN tree, NEW b \in Blobs, Uploaded(i, b)
       PROVE  RepoInv'
  <2> DEFINE y == [tree[i] EXCEPT !.content = b]
  <2>1. /\ phase = "up" /\ UNCHANGED <<event, cloning, disk>> /\ i \in 1 .. Len(tree)
        /\ tree' = [tree EXCEPT ![i] = y]
    BY <1>1, <1>16 DEF Uploaded, SetContent
  <2>2. /\ tree[i] \in Nodes /\ IsInjective(tree[i].children) /\ b \in Contents
        /\ (tree[i].kind = "file" => tree[i].children = <<>>)
    BY <1>1, <2>1, TreeParts, Words
  <2>3. /\ y \in Nodes /\ y.kind = tree[i].kind /\ y.parent = tree[i].parent
        /\ y.name = tree[i].name /\ y.lazy = tree[i].lazy /\ y.children = tree[i].children
    BY <2>2 DEF Nodes
  <2> HIDE DEF y
  <2>4. \A j \in 1 .. Len(tree) : tree'[j].name = tree[j].name /\ tree'[j].lazy = tree[j].lazy
    BY <1>1, <2>1, <2>3 DEF Trees
  <2>5. Len(tree') = Len(tree)
    BY <1>1, <2>1 DEF Trees
  <2>6. CleanTree(tree')
    BY <1>1, <1>2, <2>4, <2>5, CleanSame
  <2>7. ASSUME NEW g, NEW I, Found(g, I)
        PROVE  Found(g, I)'
    <3>1. Holds(tree, g, I)
      BY <2>7 DEF Found
    <3>2. Keeping(tree, tree', g, I)
      <4> DEFINE u == [tree EXCEPT ![i] = y]
      <4>1. /\ IsInjective(y.children) /\ Range(y.children) \subseteq Range(tree[i].children)
            /\ (y.kind = "file" => y.children = <<>>)
        BY <2>2, <2>3
      <4>2. \A e \in Range(tree[i].children) :
              e = g \/ i \in I \union {g, g + 1} => e \in Range(y.children)
        BY <2>3
      <4>3. i \in 1 .. Len(tree) /\ (y.lazy => tree[i].lazy)
        BY <2>1, <2>3
      <4>4. Keeping(tree, u, g, I)
        BY <2>3, <3>1, <4>1, <4>2, <4>3, RetouchKeeps
      <4>5. QED  BY <2>1, <4>4
    <3>3. tree'[g + 1].lazy = tree[g + 1].lazy
      <4>1. g + 1 \in 1 .. Len(tree)
        BY <1>1, <3>1 DEF Holds
      <4>2. QED  BY <2>4, <4>1
    <3>4. QED  BY <2>1, <2>7, <3>2, <3>3, FoundOn
  <2>8. QED  BY <1>5, <2>1, <2>6, <2>7
<1>17. ASSUME NEW d \in UserDirs, Opendir(d)
       PROVE  RepoInv'
  BY <1>6, <1>17 DEF Opendir
<1>18. CASE Readdir \/ Closedir
  BY <1>6, <1>18 DEF Readdir, Closedir
<1>19. QED
  BY <1>7, <1>8, <1>9, <1>10, <1>11, <1>12, <1>13, <1>14, <1>15, <1>16, <1>17, <1>18
  DEF Next
-----------------------------------------------------------------------------
(* What is shown of the repository.                                        *)

\* How a path begins with two names.
LEMMA BeginningTwo ==
  ASSUME NEW S, NEW s \in Seq(S), NEW a, NEW b
  PROVE  Len(s) > Len(<<a, b>>) /\ SubSeq(s, 1, Len(<<a, b>>)) = <<a, b>>
           <=> Len(s) > 2 /\ s[1] = a /\ s[2] = b
<1>1. Len(<<a, b>>) = 2 /\ Len(s) \in Nat
  OBVIOUS
<1>2. CASE Len(s) > 2
  <2> DEFINE u == SubSeq(s, 1, 2)
             v == <<a, b>>
  <2>1. u \in Seq(S) /\ Len(u) = 2 /\ \A i \in 1 .. 2 : u[i] = s[i]
    BY <1>2
  <2>2. v[1] = a /\ v[2] = b /\ Len(v) = 2 /\ v \in Seq({a, b})
    OBVIOUS
  <2> HIDE DEF u, v
  <2>3. 1 \in 1 .. 2 /\ 2 \in 1 .. 2
    OBVIOUS
  <2>4. u = v => s[1] = a /\ s[2] = b
    BY <2>1, <2>2, <2>3
  <2>5. ASSUME s[1] = a, s[2] = b
        PROVE  u = v
    <3>1. \A i \in 1 .. 2 : i = 1 \/ i = 2
      OBVIOUS
    <3>2. \A i \in 1 .. 2 : u[i] = v[i]
      BY <2>1, <2>2, <2>5, <3>1
    <3> DEFINE T == S \union {a, b}
    <3> HIDE DEF T
    <3>3. u \in Seq(T) /\ v \in Seq(T)
      BY <2>1, <2>2 DEF T
    <3>4. QED  BY <2>1, <2>2, <3>2, <3>3, SeqEqual
  <2>6. QED  BY <1>1, <1>2, <2>4, <2>5 DEF u, v
<1>3. QED  BY <1>1, <1>2

\* at has the nodes a path passes, from the root.
Passes(path, at) ==
  /\ at \in [0 .. Len(path) -> 0 .. Len(tree)]
  /\ at[0] = Root
  /\ \A k \in 1 .. Len(path) : at[k] = Lookup(tree, at[k - 1], path[k])

\* Resolving goes through a path name by name.
LEMMA ResolveSteps ==
  ASSUME tree \in Trees, Root \in DOMAIN tree, NEW path \in Seq(AllNames)
  PROVE  \E at : Passes(path, at) /\ Resolve(path) = at[Len(path)]
<1> DEFINE n == Len(path)
           X == 0 .. Len(tree)
           Step(v, k) == Lookup(tree, v, path[k])
           G == [k \in 1 .. n |-> [v \in X |-> Step(v, k)]]
           Eq(f) == f = [k \in 0 .. n |-> IF k = 0 THEN Root ELSE Step(f[k - 1], k)]
           at == CHOOSE f : Eq(f)
<1>1. Resolve(path) = at[n]
  BY DEF Resolve
<1>2. n \in Nat /\ Root \in X
  BY TreeParts DEF Root
<1>3. ASSUME NEW k \in 1 .. n, NEW v \in X
      PROVE  Step(v, k) \in X
  <2>1. Lookup(tree, v, path[k]) \in DOMAIN tree \/ Lookup(tree, v, path[k]) = 0
    BY LookupIs
  <2>2. QED  BY <2>1, TreeParts
<1>4. \A f, k : Step(f[k - 1], k) = Lookup(tree, f[k - 1], path[k])
  OBVIOUS
<1> HIDE DEF n, X, Step
<1>5. \E g : Eq(g)
  <2>1. G \in [1 .. n -> [X -> X]]
    BY <1>3
  <2>2. PICK g : Iteration(n, X, Root, G, g)
    <3> HIDE DEF G
    <3> QED BY <1>2, <2>1, Iterates
  <2>3. ASSUME NEW k \in 1 .. n
        PROVE  g[k] = Step(g[k - 1], k)
    <3>1. k - 1 \in 0 .. n
      BY <1>2
    <3>2. QED  BY <2>2, <3>1 DEF Iteration
  <2>4. \A k \in 0 .. n : k = 0 \/ k \in 1 .. n
    BY <1>2
  <2>5. \A k \in 0 .. n : g[k] = IF k = 0 THEN Root ELSE Step(g[k - 1], k)
    BY <2>2, <2>3, <2>4 DEF Iteration
  <2>6. QED  BY <2>2, <2>5 DEF Iteration
<1>6. Eq(at)
  <2> HIDE DEF Eq
  <2> QED BY <1>5
<1>7. at[0] = Root /\ \A k \in 1 .. n : at[k] = Step(at[k - 1], k)
  <2> HIDE DEF at
  <2> QED BY <1>2, <1>6
<1> HIDE DEF at
<1>8. 0 .. n \subseteq {k \in 0 .. n : at[k] \in X}
  <2> DEFINE R == {k \in 0 .. n : at[k] \in X}
  <2>1. 0 \in R
    BY <1>2, <1>7
  <2>2. \A k \in 1 .. n : k - 1 \in R => k \in R
    BY <1>2, <1>3, <1>7
  <2> HIDE DEF R
  <2>3. 0 .. n \subseteq R
    BY <1>2, <2>1, <2>2, IntervalInduction
  <2>4. QED  BY <2>3 DEF R
<1>9. at \in [0 .. n -> X]
  BY <1>6, <1>8
<1>10. QED  BY <1>1, <1>4, <1>7, <1>9 DEF X, n, Passes

\* The root, and one name more.
LEMMA ResolveIs ==
  ASSUME tree \in Trees, Root \in DOMAIN tree
  PROVE  /\ Resolve(<<>>) = Root
         /\ \A s \in Seq(AllNames), n \in AllNames :
              Resolve(Append(s, n)) = Lookup(tree, Resolve(s), n)
<1>1. Resolve(<<>>) = Root
  <2> DEFINE none == <<>>
  <2>1. none \in Seq(AllNames) /\ Len(none) = 0
    OBVIOUS
  <2> HIDE DEF none
  <2>2. Resolve(none) = Root
    BY <2>1, ResolveSteps DEF Passes
  <2>3. QED  BY <2>2 DEF none
<1>2. ASSUME NEW s \in Seq(AllNames), NEW n \in AllNames
      PROVE  Resolve(Append(s, n)) = Lookup(tree, Resolve(s), n)
  <2> DEFINE u == Append(s, n)
             m == Len(s)
  <2>1. /\ u \in Seq(AllNames) /\ Len(u) = m + 1 /\ u[m + 1] = n /\ m \in Nat
        /\ \A k \in 1 .. m : u[k] = s[k]
    OBVIOUS
  <2> HIDE DEF u
  <2>2. PICK at : Passes(s, at) /\ Resolve(s) = at[m]
    BY ResolveSteps
  <2>3. PICK up : Passes(u, up) /\ Resolve(u) = up[m + 1]
    BY <2>1, ResolveSteps
  <2> HIDE DEF m
  <2> DEFINE R == {k \in 0 .. m : at[k] = up[k]}
  <2>4. 0 \in R
    BY <2>1, <2>2, <2>3 DEF Passes
  <2>5. ASSUME NEW k \in 1 .. m, k - 1 \in R
        PROVE  k \in R
    <3>1. k \in 1 .. m + 1 /\ k \in 0 .. m
      BY <2>1
    <3>2. at[k] = Lookup(tree, at[k - 1], s[k])
      BY <2>2 DEF Passes, m
    <3>3. up[k] = Lookup(tree, up[k - 1], u[k])
      BY <2>1, <2>3, <3>1 DEF Passes
    <3>4. QED  BY <2>1, <2>5, <3>1, <3>2, <3>3
  <2> HIDE DEF R
  <2>6. 0 .. m \subseteq R
    BY <2>1, <2>4, <2>5, IntervalInduction
  <2>7. at[m] = up[m]
    BY <2>1, <2>6 DEF R
  <2>8. up[m + 1] = Lookup(tree, up[m], u[m + 1])
    <3>1. m + 1 \in 1 .. m + 1 /\ (m + 1) - 1 = m
      BY <2>1
    <3>2. QED  BY <2>1, <2>3, <3>1 DEF Passes
  <2>9. QED  BY <2>1, <2>2, <2>3, <2>7, <2>8 DEF u
<1>3. QED  BY <1>1, <1>2
\* The repository is found at its path.
LEMMA RepoResolves ==
  ASSUME NEW g, NEW I, Holds(tree, g, I)
  PROVE  Resolve(<<"git", "repo">>) = g + 1
<1> DEFINE none == <<>>
           repo == <<"git", "repo">>
<1>1. /\ none \in Seq(AllNames) /\ <<"git">> \in Seq(AllNames)
      /\ "git" \in AllNames /\ "repo" \in AllNames
      /\ Append(none, "git") = <<"git">> /\ Append(<<"git">>, "repo") = repo
  BY TwoNames, Words
<1>2. tree \in Trees /\ Root \in DOMAIN tree
  BY TreeParts DEF Holds, Root
<1>3. Resolve(<<>>) = Root
  BY <1>2, ResolveIs
<1> HIDE DEF none, repo
<1>4. Resolve(Append(none, "git")) = Lookup(tree, Resolve(none), "git")
  BY <1>1, <1>2, ResolveIs
<1>5. Resolve(Append(<<"git">>, "repo")) = Lookup(tree, Resolve(<<"git">>), "repo")
  BY <1>1, <1>2, ResolveIs
<1>6. Resolve(none) = Root
  BY <1>3 DEF none
<1>7. Resolve(repo) = g + 1
  BY <1>1, <1>4, <1>5, <1>6, LookupRepo
<1>8. QED  BY <1>7 DEF repo

\* The path of an entry is that of what it is in, and its sanitised name.
LEMMA EntryPathIs ==
  /\ EntryPath[0] = <<"git", "repo">>
  /\ \A k \in 0 .. Len(Repo) : EntryPath[k] \in Seq(AllNames)
  /\ \A k \in 1 .. Len(Repo) :
       EntryPath[k] = Append(EntryPath[Repo[k].up], San[Repo[k].name])
<1> DEFINE n == Len(Repo)
           D == 0 .. n
           X == Seq(AllNames)
           repo == <<"git", "repo">>
           Body(g, k) == IF k = 0 THEN repo ELSE Append(g[Repo[k].up], San[Repo[k].name])
           G == [k \in D |-> [g \in [D -> X] |-> Body(g, k)]]
           Eq(f) == f = [k \in D |-> Body(f, k)]
           path == CHOOSE f : Eq(f)
           r == [k \in D |-> k]
<1>1. EntryPath = path
  BY DEF EntryPath
<1>2. n \in Nat /\ repo \in X
  BY RepoIs, Words
<1>3. ASSUME NEW k \in D, k # 0
      PROVE  Repo[k].up \in D /\ San[Repo[k].name] \in AllNames /\ Repo[k].up < k
  <2>1. k \in 1 .. n
    BY <1>2, <1>3
  <2>2. Repo[k].up \in Nat /\ Repo[k].up < k /\ San[Repo[k].name] \in AllNames
    BY <2>1, RepoIs
  <2>3. QED  BY <1>2, <2>2
<1>4. ASSUME NEW k \in D, NEW g, k = 0 \/ g[Repo[k].up] \in X
      PROVE  Body(g, k) \in X
  BY <1>2, <1>3, <1>4
<1> HIDE DEF n, X, repo
<1>5. G \in [D -> [[D -> X] -> X]]
  <2>1. \A k \in D : \A g \in [D -> X] : Body(g, k) \in X
    <3> HIDE DEF D, Body
    <3> QED BY <1>3, <1>4
  <2> HIDE DEF D, Body
  <2>2. QED  BY <2>1
<1>6. ASSUME NEW k \in D, NEW g \in [D -> X], NEW h \in [D -> X],
             \A j \in D : r[j] < r[k] => g[j] = h[j]
      PROVE  G[k][g] = G[k][h]
  <2>1. Body(g, k) = Body(h, k)
    <3>1. CASE k = 0
      BY <3>1
    <3>2. CASE k # 0
      <4>1. Repo[k].up \in D /\ r[Repo[k].up] < r[k]
        BY <1>3, <3>2
      <4>2. g[Repo[k].up] = h[Repo[k].up]
        BY <1>6, <4>1
      <4>3. QED  BY <3>2, <4>2
    <3>3. QED  BY <3>1, <3>2
  <2> HIDE DEF D, Body
  <2>2. QED  BY <2>1
<1>7. r \in [D -> 0 .. n]
  OBVIOUS
<1>8. PICK g : Recursive(D, X, G, g)
  <2>1. X # {}
    BY <1>2
  <2>2. Founded(D, X, G, r)
    <3> HIDE DEF G, D, r
    <3> QED BY <1>6, Zenon DEF Founded
  <2>3. n \in Nat
    BY <1>2
  <2> HIDE DEF G, D, r
  <2>4. QED  BY <1>5, <1>7, <2>1, <2>2, <2>3, Recursion
<1>9. Eq(g)
  <2> HIDE DEF D, Body
  <2> QED BY <1>8 DEF Recursive
<1>10. Eq(path)
  <2> HIDE DEF Eq
  <2> QED BY <1>9
<1>11. \A k \in D : path[k] = Body(path, k)
  <2> HIDE DEF path, D, Body
  <2> QED BY <1>10
<1> HIDE DEF path
<1>12. path[0] = repo /\ \A k \in 1 .. n : path[k] = Append(path[Repo[k].up], San[Repo[k].name])
  <2>1. 0 \in D /\ Body(path, 0) = repo
    BY <1>2
  <2>2. ASSUME NEW k \in 1 .. n
        PROVE  path[k] = Append(path[Repo[k].up], San[Repo[k].name])
    <3>1. k \in D /\ k # 0
      BY <1>2
    <3>2. QED  BY <1>11, <3>1
  <2>3. path[0] = Body(path, 0)
    BY <1>11, <2>1
  <2>4. QED  BY <2>1, <2>2, <2>3
<1>13. D \subseteq {k \in D : path[k] \in X}
  <2> DEFINE S == {k \in D : path[k] \in X}
  <2>1. ASSUME NEW k \in D, \A j \in D : j < k => j \in S
        PROVE  k \in S
    <3>1. CASE k = 0
      BY <1>2, <1>12, <3>1
    <3>2. CASE k # 0
      <4>1. path[Repo[k].up] \in X
        BY <1>3, <2>1, <3>2
      <4>2. Body(path, k) \in X
        BY <1>4, <4>1
      <4>3. QED  BY <1>11, <4>2
    <3>3. QED  BY <3>1, <3>2
  <2>2. D \in SUBSET Nat
    BY <1>2
  <2> HIDE DEF S, D
  <2>3. D \subseteq S
    BY <2>1, <2>2, StrongInduction
  <2>4. QED  BY <2>3 DEF S
<1>14. QED  BY <1>1, <1>12, <1>13 DEF n, X, repo

\* The node of entry k, if the entries come after w; 0 stands for the repository.
EntryNode(g, w, k) == IF k = 0 THEN g + 1 ELSE w + k

\* Each entry of a whole clone is linked, at its path, and found there.
LEMMA EntriesShown ==
  ASSUME NEW g, NEW I, NEW w, Holds(tree, g, I), Checkout(tree, g, I, w)
  PROVE  \A k \in 0 .. Len(Repo) :
           /\ PathOf(tree)[EntryNode(g, w, k)] = EntryPath[k]
           /\ Resolve(EntryPath[k]) = EntryNode(g, w, k)
           /\ EntryNode(g, w, k) \in Linked(tree)
<1> DEFINE D == 0 .. Len(Repo)
           node(k) == EntryNode(g, w, k)
           At(k) == /\ PathOf(tree)[node(k)] = EntryPath[k]
                    /\ Resolve(EntryPath[k]) = node(k)
                    /\ node(k) \in Linked(tree)
           S == {k \in D : At(k)}
<1>1. /\ tree \in Trees /\ Len(tree) \in Nat /\ DOMAIN tree = 1 .. Len(tree) /\ Root = 1
      /\ g \in Nat /\ w \in Nat /\ g \in 2 .. Len(tree) /\ g + 1 \in 2 .. Len(tree)
      /\ Root \in DOMAIN tree
  BY TreeParts DEF Holds, Checkout, Root
<1>2. At(0)
  <2>1. PathOf(tree)[g + 1] = <<"git", "repo">>
    BY RepoPaths
  <2>2. Resolve(<<"git", "repo">>) = g + 1
    BY RepoResolves
  <2>3. g + 1 \in Linked(tree)
    <3>1. Root \in Linked(tree)
      BY <1>1, LinkedIs
    <3>2. g \in Linked(tree)
      BY <1>1, <3>1, LinkedIs DEF Holds
    <3>3. g + 1 \in 1 .. Len(tree) /\ tree[g + 1].parent = g /\ g + 1 \in Range(tree[g].children)
      BY <1>1 DEF Holds
    <3>4. QED  BY <1>1, <3>2, <3>3, LinkedIs
  <2>4. node(0) = g + 1
    BY DEF EntryNode
  <2>5. QED  BY <2>1, <2>2, <2>3, <2>4, EntryPathIs
<1>3. ASSUME NEW k \in D, \A j \in D : j < k => j \in S
      PROVE  k \in S
  <2>1. CASE k = 0
    BY <1>2, <2>1
  <2>2. CASE k # 0
    <3> DEFINE q == Repo[k].up
               n == San[Repo[k].name]
               i == w + k
               d == node(q)
    <3>1. k \in 1 .. Len(Repo) /\ q \in D /\ q < k /\ n \in AllNames
      <4>1. k \in 1 .. Len(Repo)
        BY <2>2, RepoIs
      <4>2. QED  BY <4>1, RepoIs
    <3>2. At(q)
      BY <1>3, <3>1
    <3>3. /\ i \in I /\ tree[i].name = n /\ tree[i].parent = d
          /\ i \in Range(tree[d].children) /\ node(k) = i
      BY <2>2, <3>1 DEF Checkout, Above, EntryNode
    <3>4. i \in 2 .. Len(tree) /\ i \in 1 .. Len(tree)
      BY <1>1, <3>3 DEF Holds
    <3>5. EntryPath[q] \in Seq(AllNames) /\ EntryPath[k] = Append(EntryPath[q], n)
      BY <3>1, EntryPathIs
    <3> HIDE DEF node, n
    <3>6. PathOf(tree)[i] = EntryPath[k]
      BY <1>1, <3>2, <3>3, <3>4, <3>5, PathOn
    <3>7. Resolve(EntryPath[k]) = i
      <4>1. Resolve(EntryPath[k]) = Lookup(tree, d, n)
        BY <1>1, <3>1, <3>2, <3>5, ResolveIs
      <4>2. IsDir(tree, d)
        <5>1. d \in 1 .. Len(tree)
          BY <1>1, <3>2, LinkedIs
        <5>2. tree[d].kind = "file" => tree[d].children = <<>>
          BY <1>1, <5>1, TreeParts
        <5>3. tree[d].children # <<>>
          BY <3>3 DEF Range
        <5>4. tree[d].kind \in {"dir", "file"}
          BY <1>1, <5>1, TreeParts
        <5>5. QED  BY <1>1, <5>1, <5>2, <5>3, <5>4 DEF IsDir
      <4>3. ASSUME NEW j \in 1 .. Len(tree), tree[j].parent = d, tree[j].name = tree[i].name
            PROVE  j = i
        <5>1. d \in I \union {g + 1}
          BY <3>3, <3>4 DEF Holds
        <5>2. j \in I
          BY <4>3, <5>1 DEF Holds
        <5>3. QED  BY <3>3, <4>3, <5>2 DEF Holds
      <4> HIDE DEF i, d
      <4>4. Lookup(tree, d, tree[i].name) = i
        BY <1>1, <3>3, <4>2, <4>3, LookupFinds
      <4>5. QED  BY <3>3, <4>1, <4>4
    <3>8. i \in Linked(tree)
      BY <1>1, <3>2, <3>3, <3>4, LinkedIs
    <3>9. QED  BY <3>3, <3>6, <3>7, <3>8
  <2>3. QED  BY <2>1, <2>2
<1>4. D \in SUBSET Nat
  BY RepoIs
<1> HIDE DEF D, S
<1>5. D \subseteq S
  BY <1>3, <1>4, StrongInduction
<1>6. QED  BY <1>5 DEF D, S
\* What is linked below the repository, and what makes it restored.
LEMMA BelowRepo ==
  ASSUME tree \in Trees
  PROVE  Beneath(<<"git", "repo">>) = {i \in Linked(tree) : Below(PathOf(tree)[i])}
<1> DEFINE repo == <<"git", "repo">>
           path == PathOf(tree)
<1>1. ASSUME NEW i \in Linked(tree)
      PROVE  Len(path[i]) > Len(repo) /\ SubSeq(path[i], 1, Len(repo)) = repo
               <=> Below(path[i])
  <2>1. i \in 0 .. Len(tree)
    BY LinkedIs, TreeParts
  <2>2. path[i] \in Seq(AllNames)
    BY <2>1, PathIs
  <2> HIDE DEF path
  <2>3. \A s \in Seq(AllNames) :
          Len(s) > Len(repo) /\ SubSeq(s, 1, Len(repo)) = repo <=> Below(s)
    BY BeginningTwo DEF Below
  <2> HIDE DEF repo
  <2>4. QED  BY <2>2, <2>3
<1>2. Beneath(repo) = {i \in Linked(tree) :
                         Len(path[i]) > Len(repo) /\ SubSeq(path[i], 1, Len(repo)) = repo}
  BY DEF Beneath
<1> HIDE DEF path, repo
<1>3. Beneath(repo) = {i \in Linked(tree) : Below(path[i])}
  BY <1>1, <1>2
<1>4. QED  BY <1>3 DEF path, repo

\* While the repository is there, it is shown.
LEMMA RepoFound ==
  ASSUME TypeInv, RepoInv
  PROVE  RepoShown
<1> DEFINE repo == <<"git", "repo">>
           above == \E h \in Range(event) :
                      Len(h.path) > 2 /\ SubSeq(h.path, 1, 2) = repo
           shown == Beneath(repo)
<1>1. tree \in Trees /\ \A h \in Range(event) : h.path \in Seq(Pure)
  BY DEF TypeInv, TreeInv, RepoInv
<1>2. Restored => above
  <2>1. ASSUME NEW h \in Range(event), Below(h.path)
        PROVE  Len(h.path) > 2 /\ SubSeq(h.path, 1, 2) = repo
    <3> DEFINE s == h.path
    <3>1. s \in Seq(Pure)
      BY <1>1
    <3>2. Len(repo) = 2 /\ Below(s)
      BY <2>1
    <3> HIDE DEF s
    <3>3. Len(s) > Len(repo) /\ SubSeq(s, 1, Len(repo)) = repo
      BY <3>1, <3>2, BeginningTwo DEF Below
    <3> HIDE DEF repo
    <3>4. QED  BY <3>2, <3>3 DEF s
  <2> HIDE DEF repo
  <2>2. QED  BY <2>1 DEF Restored
<1>3. SUFFICES ASSUME phase = "up", ~above
               PROVE  /\ \A i, j \in shown : PathOf(tree)[i] = PathOf(tree)[j] => i = j
                      /\ cloning = 0 /\ disk = "whole" /\ ~tree[Resolve(repo)].lazy =>
                           \A k \in DOMAIN Repo : Resolve(EntryPath[k]) \in shown
  <2> HIDE DEF above, shown
  <2>1. RepoShown <=>
          (phase = "up" /\ ~above =>
             /\ \A i, j \in shown : PathOf(tree)[i] = PathOf(tree)[j] => i = j
             /\ cloning = 0 /\ disk = "whole" /\ ~tree[Resolve(repo)].lazy =>
                  \A k \in DOMAIN Repo : Resolve(EntryPath[k]) \in shown)
    BY Zenon DEF RepoShown, above, shown
  <2>2. QED  BY <1>3, <2>1
<1>4. PICK g, I : Found(g, I)
  BY <1>2, <1>3 DEF RepoInv
<1>5. Holds(tree, g, I)
  BY <1>4 DEF Found
<1>6. shown = {i \in Linked(tree) : Below(PathOf(tree)[i])}
  BY <1>1, BelowRepo
<1>7. shown \subseteq I
  BY <1>5, <1>6, LinkedBelow
<1>8. \A i, j \in shown : PathOf(tree)[i] = PathOf(tree)[j] => i = j
  BY <1>5, <1>7, RepoApart
<1>9. ASSUME cloning = 0, disk = "whole", ~tree[Resolve(repo)].lazy, NEW k \in DOMAIN Repo
      PROVE  Resolve(EntryPath[k]) \in shown
  <2>1. Resolve(repo) = g + 1
    BY <1>5, RepoResolves
  <2>2. PICK w : Checkout(tree, g, I, w)
    BY <1>4, <1>9, <2>1 DEF Found
  <2>3. k \in 1 .. Len(Repo) /\ k \in 0 .. Len(Repo) /\ k # 0
    BY RepoIs
  <2>4. Resolve(EntryPath[k]) = w + k /\ w + k \in Linked(tree)
    <3>1. EntryNode(g, w, k) = w + k
      BY <2>3 DEF EntryNode
    <3>2. QED  BY <1>5, <2>2, <2>3, <3>1, EntriesShown
  <2>5. Below(PathOf(tree)[w + k])
    BY <1>5, <2>2, <2>3, RepoPaths DEF Checkout
  <2>6. QED  BY <1>6, <2>4, <2>5
<1>10. QED  BY <1>8, <1>9

\* In every state published paths are sanitised, and the repository is found.
LEMMA RepoInvHolds == Spec => []RepoInv
<1>1. Init => RepoInv
  <2>1. SUFFICES ASSUME Init PROVE RepoInv
    OBVIOUS
  <2>2. phase # "up" /\ event = <<>> /\ tree = <<>>
    BY <2>1 DEF Init
  <2>3. Range(event) = {} /\ CleanTree(tree)
    <3>1. DOMAIN event = {}
      BY <2>2
    <3>2. Range(event) = {}
      BY <3>1 DEF Range
    <3>3. 2 .. Len(tree) = {}
      BY <2>2
    <3>4. QED  BY <3>2, <3>3 DEF CleanTree
  <2>4. QED  BY <2>2, <2>3 DEF RepoInv
<1>2. TypeInv /\ RepoInv /\ [Next]_vars => RepoInv'
  <2>1. TypeInv /\ RepoInv /\ UNCHANGED vars => RepoInv'
    BY DEF RepoInv, Restored, Found, vars, treeVars
  <2>2. QED  BY <2>1, RepoSteps
<1>3. QED  BY <1>1, <1>2, TypeInvHolds, PTL DEF Spec

\* /git: however lookups and listings of the repository interleave with its clone,
\* with restored directories and with unmounting, the repository is walked once per
\* mount, and a clone that is whole shows each of its entries at its path.
THEOREM RepoIsShown == Spec => []RepoShown
<1>1. TypeInv /\ RepoInv => RepoShown
  BY RepoFound
<1>2. QED  BY <1>1, RepoInvHolds, TypeInvHolds, PTL

-----------------------------------------------------------------------------
(* The user's directories and files.                                       *)

\* Only one set of nodes is what the recursion of Linked makes of a tree.
LEMMA LinkedBy ==
  ASSUME NEW t \in Trees, NEW L \in SUBSET (1 .. Len(t)),
         \A i \in 1 .. Len(t) :
           i \in L <=> i = Root \/ (/\ t[i].parent \in L
                                    /\ i \in Range(t[t[i].parent].children))
  PROVE  Linked(t) = L
<1> DEFINE D == 1 .. Len(t)
           S == {i \in D : i \in L <=> i \in Linked(t)}
<1>1. D \in SUBSET Nat
  BY TreeParts
<1>2. ASSUME NEW i \in D, \A j \in D : j < i => j \in S
      PROVE  i \in S
  <2>1. t[i].parent \in Nat /\ t[i].parent < i /\ Len(t) \in Nat
    BY TreeParts
  <2>2. t[i].parent \in L <=> t[i].parent \in Linked(t)
    <3>1. CASE t[i].parent \in D
      BY <1>2, <2>1, <3>1
    <3>2. CASE t[i].parent \notin D
      BY <3>2, LinkedIs
    <3>3. QED  BY <3>1, <3>2
  <2>3. QED  BY <2>2, LinkedIs
<1> HIDE DEF S
<1>3. D \subseteq S
  BY <1>1, <1>2, StrongInduction
<1>4. \A i \in D : i \in L <=> i \in Linked(t)
  BY <1>3 DEF S
<1>5. QED  BY <1>4, LinkedIs

\* A path is made of parents and names.
LEMMA SamePaths ==
  ASSUME NEW t \in Trees, NEW u \in Trees, Len(t) <= Len(u),
         \A i \in 1 .. Len(t) : u[i].parent = t[i].parent /\ u[i].name = t[i].name
  PROVE  \A i \in 0 .. Len(t) : PathOf(u)[i] = PathOf(t)[i]
<1> DEFINE D == 0 .. Len(t)
           S == {i \in D : PathOf(u)[i] = PathOf(t)[i]}
<1>1. D \in SUBSET Nat /\ Len(t) \in Nat /\ Len(u) \in Nat
  BY TreeParts
<1>2. ASSUME NEW i \in D, \A j \in D : j < i => j \in S
      PROVE  i \in S
  <2>1. i \in 0 .. Len(u)
    BY <1>1
  <2>2. CASE i <= Root
    BY <2>1, <2>2, PathIs
  <2>3. CASE ~(i <= Root)
    <3>1. i \in 1 .. Len(t) /\ i \in 1 .. Len(u)
      BY <1>1, <2>3 DEF Root
    <3>2. t[i].parent \in D /\ t[i].parent < i
      BY <1>1, <3>1, TreeParts
    <3>3. PathOf(u)[t[i].parent] = PathOf(t)[t[i].parent]
      BY <1>2, <3>2
    <3>4. QED  BY <2>1, <2>3, <3>1, <3>3, PathIs
  <2>4. QED  BY <2>2, <2>3
<1> HIDE DEF S
<1>3. D \subseteq S
  BY <1>1, <1>2, StrongInduction
<1>4. QED  BY <1>3 DEF S

\* Only the root has the empty path.
LEMMA EmptyPath ==
  ASSUME NEW t \in Trees, NEW i \in 1 .. Len(t)
  PROVE  /\ PathOf(t)[i] \in Seq(AllNames) /\ Len(PathOf(t)[i]) \in Nat
         /\ PathOf(t)[i] = <<>> <=> i = Root
<1>1. Len(t) \in Nat /\ i \in 0 .. Len(t)
  BY TreeParts
<1>2. PathOf(t)[i] \in Seq(AllNames)
  BY <1>1, PathIs
<1>3. CASE i = Root
  BY <1>1, <1>2, <1>3, PathIs DEF Root
<1>4. CASE i # Root
  <2>1. i \in 2 .. Len(t)
    BY <1>1, <1>4 DEF Root
  <2>2. PathOf(t)[i] = Append(PathOf(t)[t[i].parent], t[i].name)
        /\ PathOf(t)[t[i].parent] \in Seq(AllNames) /\ t[i].name \in AllNames
    BY <2>1, PathOn
  <2>3. Len(PathOf(t)[i]) > 0
    BY <2>2
  <2>4. QED  BY <1>2, <1>4, <2>3
<1>5. QED  BY <1>3, <1>4

\* Only a directory has children, each in its place.
LEMMA ChildrenAre ==
  ASSUME NEW t \in Trees, NEW i \in 1 .. Len(t), NEW c \in Range(t[i].children)
  PROVE  c \in 1 .. Len(t) /\ t[c].parent = i /\ t[i].kind = "dir" /\ c # Root
<1>1. /\ t[i].children \in Seq(Nat) /\ t[i].kind \in {"dir", "file"} /\ DOMAIN t = 1 .. Len(t)
      /\ i \in Nat /\ i > 0 /\ Len(t) \in Nat
  BY TreeParts
<1>2. /\ t[i].kind = "file" => t[i].children = <<>>
      /\ c \in DOMAIN t /\ t[c].parent = i
  BY <1>1 DEF Trees, TreeShape
<1>3. t[i].children # <<>>
  BY DEF Range
<1>4. c # Root
  BY <1>1, <1>2, TreeParts DEF Root
<1>5. QED  BY <1>1, <1>2, <1>3, <1>4

\* What is added is linked if its directory is.
LEMMA AddLinks ==
  ASSUME NEW t \in Trees, NEW x \in Fresh, x.parent \in 1 .. Len(t)
  PROVE  Linked(Add(t, x)) = Linked(t) \union
           {i \in {Len(t) + 1} : x.parent \in Linked(t) /\ t[x.parent].kind = "dir"}
<1> DEFINE u == Add(t, x)
           n == Len(t) + 1
           L == Linked(t) \union
                  {i \in {n} : x.parent \in Linked(t) /\ t[x.parent].kind = "dir"}
<1>1. Len(t) \in Nat /\ Linked(t) \subseteq 1 .. Len(t) /\ Root = 1
  BY TreeParts, LinkedIs DEF Root
<1>2. u \in Trees /\ Len(u) = n
  BY <1>1, AddGrows
<1>3. /\ u[n].parent = x.parent
      /\ \A i \in 1 .. Len(t) :
           /\ u[i].parent = t[i].parent
           /\ u[i].children = IF i = x.parent /\ t[i].kind = "dir"
                              THEN Append(t[i].children, n) ELSE t[i].children
  BY <1>2, AddIs
<1>4. \A i \in 1 .. Len(t) : /\ t[i].children \in Seq(Nat)
                              /\ Range(t[i].children) \subseteq 1 .. Len(t)
  BY TreeParts, ChildrenAre
<1>5. ASSUME NEW i \in 1 .. Len(t)
      PROVE  Range(u[i].children) = IF i = x.parent /\ t[i].kind = "dir"
                                    THEN Range(t[i].children) \union {n}
                                    ELSE Range(t[i].children)
  <2>1. Range(Append(t[i].children, n)) = Range(t[i].children) \union {n}
    <3>1. t[i].children \in Seq(Nat) /\ n \in Nat
      BY <1>1, <1>4
    <3> HIDE DEF n
    <3>2. QED  BY <3>1, RangeAppend
  <2> HIDE DEF n, u
  <2>2. QED  BY <1>3, <2>1
<1> HIDE DEF u
<1>6. ASSUME NEW i \in 1 .. Len(u)
      PROVE  i \in L <=> i = Root \/ (/\ u[i].parent \in L
                                      /\ i \in Range(u[u[i].parent].children))
  <2>1. CASE i \in 1 .. Len(t)
    <3>1. i # n /\ (i \in L <=> i \in Linked(t)) /\ t[i].parent \in Nat /\ t[i].parent < i
      BY <1>1, <2>1, TreeParts
    <3>2. u[i].parent = t[i].parent /\ (t[i].parent \in L <=> t[i].parent \in Linked(t))
      BY <1>1, <1>3, <2>1, <3>1
    <3>3. t[i].parent \in Linked(t) =>
            (i \in Range(u[t[i].parent].children) <=> i \in Range(t[t[i].parent].children))
      BY <1>1, <1>5, <3>1
    <3>4. QED  BY <2>1, <3>1, <3>2, <3>3, LinkedIs
  <2>2. CASE i = n
    <3>1. n # Root /\ n \notin Linked(t) /\ n \notin 1 .. Len(t)
      BY <1>1
    <3>2. x.parent \in L <=> x.parent \in Linked(t)
      BY <1>1
    <3>3. n \in Range(u[x.parent].children) <=> t[x.parent].kind = "dir"
      BY <1>4, <1>5, <3>1
    <3>4. QED  BY <1>3, <2>2, <3>1, <3>2, <3>3
  <2>3. QED  BY <1>1, <1>2, <2>1, <2>2
<1>7. L \in SUBSET (1 .. Len(u))
  BY <1>1, <1>2
<1> HIDE DEF L
<1>8. Linked(u) = L
  BY <1>2, <1>6, <1>7, LinkedBy
<1>9. QED  BY <1>8 DEF L, u
\* The nodes of the user's directories and files, what these are, and that no two
\* have one path.
User(t) == {i \in Linked(t) : OfUser(PathOf(t)[i])}
DriveOn(t) == {<<PathOf(t)[i], t[i].content>> : i \in User(t)}
Sole(t) == \A i, j \in User(t) : PathOf(t)[i] = PathOf(t)[j] => i = j

\* What is below something of the user is his.
LEMMA OfUserOn ==
  ASSUME NEW s \in Seq(AllNames), NEW n \in AllNames
  PROVE  OfUser(Append(s, n)) <=> IF s = <<>> THEN n \in UserNames \ Published ELSE OfUser(s)
<1>1. Append(s, n) # <<>>
  BY OneName
<1>2. CASE s = <<>>
  <2>1. Append(s, n)[1] = n
    BY <1>2
  <2>2. QED  BY <1>1, <1>2, <2>1 DEF OfUser
<1>3. CASE s # <<>>
  <2>1. 1 \in 1 .. Len(s)
    BY <1>3
  <2>2. Append(s, n)[1] = s[1]
    BY <2>1, OneName
  <2>3. QED  BY <1>1, <1>3, <2>2 DEF OfUser
<1>4. QED  BY <1>2, <1>3

\* When a directory has no child of a name, none of the user's things has its path.
LEMMA FreePath ==
  ASSUME NEW t \in Trees, Sole(t), NEW d \in Linked(t), IsDir(t, d), NEW n \in AllNames,
         Lookup(t, d, n) = 0, OfUser(Append(PathOf(t)[d], n))
  PROVE  \A j \in User(t) : PathOf(t)[j] # Append(PathOf(t)[d], n)
<1> SUFFICES ASSUME NEW j \in User(t), PathOf(t)[j] = Append(PathOf(t)[d], n)
             PROVE  FALSE
  OBVIOUS
<1>1. /\ j \in Linked(t) /\ j \in 1 .. Len(t) /\ d \in 1 .. Len(t) /\ Len(t) \in Nat
      /\ OfUser(PathOf(t)[j])
  BY LinkedIs, TreeParts DEF User
<1>2. PathOf(t)[d] \in Seq(AllNames)
  BY <1>1, EmptyPath
<1>3. j # Root /\ j \in 2 .. Len(t)
  <2>1. j # Root
    BY <1>1, EmptyPath DEF OfUser
  <2>2. QED  BY <1>1, <2>1 DEF Root
<1> DEFINE q == t[j].parent
<1>4. q \in Linked(t) /\ j \in Range(t[q].children) /\ q \in 1 .. Len(t)
  BY <1>1, <1>3, LinkedIs
<1>5. PathOf(t)[q] = PathOf(t)[d] /\ t[j].name = n
  <2>1. /\ PathOf(t)[q] \in Seq(AllNames) /\ t[j].name \in AllNames
        /\ PathOf(t)[j] = Append(PathOf(t)[q], t[j].name)
    BY <1>3, PathOn
  <2> DEFINE s == PathOf(t)[q]
             r == PathOf(t)[d]
             m == t[j].name
  <2>2. s \in Seq(AllNames) /\ r \in Seq(AllNames) /\ m \in AllNames
        /\ Append(s, m) = Append(r, n)
    BY <1>2, <2>1
  <2> HIDE DEF s, r, m
  <2>3. s = r /\ m = n
    BY <2>2, SameAppend
  <2>4. QED  BY <2>3 DEF s, r, m
<1>6. q = d
  <2>1. CASE PathOf(t)[d] = <<>>
    BY <1>1, <1>4, <1>5, <2>1, EmptyPath
  <2>2. CASE PathOf(t)[d] # <<>>
    <3>1. OfUser(PathOf(t)[d])
      BY <1>2, <2>2, OfUserOn
    <3>2. q \in User(t) /\ d \in User(t)
      BY <1>4, <1>5, <3>1 DEF User
    <3>3. QED  BY <1>5, <3>2 DEF Sole
  <2>3. QED  BY <2>1, <2>2
<1>7. ~IsDir(t, d) \/ \A c \in Range(t[d].children) : t[c].name # n
  BY <1>1, LookupIs
<1>8. QED  BY <1>4, <1>5, <1>6, <1>7

\* What adding a node does to the user's things.
LEMMA AddDrive ==
  ASSUME NEW t \in Trees, Sole(t), NEW x \in Fresh, x.parent \in 1 .. Len(t),
         OfUser(PathOf(Add(t, x))[Len(t) + 1]) => Lookup(t, x.parent, San[x.name]) = 0
  PROVE  LET u     == Add(t, x)
             p     == PathOf(u)[Len(t) + 1]
             there == x.parent \in Linked(t) /\ t[x.parent].kind = "dir" /\ OfUser(p)
         IN
         /\ Sole(u)
         /\ User(u) = User(t) \union {i \in {Len(t) + 1} : there}
         /\ DriveOn(u) = DriveOn(t) \union {f \in {<<p, x.content>>} : there}
         /\ there => \A f \in DriveOn(t) : f[1] # p
<1> DEFINE u == Add(t, x)
           n == Len(t) + 1
           p == PathOf(u)[n]
           there == x.parent \in Linked(t) /\ t[x.parent].kind = "dir" /\ OfUser(p)
<1>1. Len(t) \in Nat /\ Linked(t) \subseteq 1 .. Len(t) /\ Len(t) > 0 /\ DOMAIN t = 1 .. Len(t)
  BY TreeParts, LinkedIs
<1>2. u \in Trees /\ Len(u) = n /\ u[n].content = x.content
      /\ \A i \in 1 .. Len(t) : u[i].content = t[i].content
  BY <1>1, AddGrows, AddIs
<1>3. Linked(u) = Linked(t) \union
        {i \in {n} : x.parent \in Linked(t) /\ t[x.parent].kind = "dir"}
  BY AddLinks
<1>4. (\A i \in 1 .. Len(t) : PathOf(u)[i] = PathOf(t)[i])
      /\ p = Append(PathOf(t)[x.parent], San[x.name])
  BY <1>1, AddPath
<1>5. x.name \in AllNames /\ San[x.name] \in AllNames
  BY NameAssumption DEF Fresh, Nodes
<1>6. n \notin 1 .. Len(t)
  BY <1>1
<1>7. OfUser(p) => Lookup(t, x.parent, San[x.name]) = 0
  OBVIOUS
<1> HIDE DEF u, n
<1>8. User(u) = User(t) \union {i \in {n} : there}
  BY <1>1, <1>3, <1>4, <1>6 DEF User
<1>9. User(t) \subseteq 1 .. Len(t)
  BY <1>1 DEF User
<1>10. DriveOn(u) = DriveOn(t) \union {f \in {<<p, x.content>>} : there}
  BY <1>2, <1>4, <1>8, <1>9 DEF DriveOn
<1>11. there => \A j \in User(t) : PathOf(t)[j] # p
  BY <1>1, <1>4, <1>5, <1>7, FreePath DEF IsDir
<1>12. Sole(u)
  BY <1>4, <1>8, <1>9, <1>11 DEF Sole
<1>13. there => \A f \in DriveOn(t) : f[1] # p
  BY <1>11 DEF DriveOn
<1>14. QED  BY <1>8, <1>10, <1>12, <1>13 DEF u, n

\* Where nothing is renamed or moved, what is linked keeps its path.
LEMMA StayDrive ==
  ASSUME NEW t \in Trees, Sole(t), NEW u \in Trees, Len(u) = Len(t),
         Linked(u) \subseteq Linked(t),
         \A j \in 1 .. Len(t) : u[j].parent = t[j].parent /\ u[j].name = t[j].name
  PROVE  /\ Sole(u)
         /\ User(u) = User(t) \cap Linked(u)
         /\ \A j \in 1 .. Len(t) : PathOf(u)[j] = PathOf(t)[j]
<1>1. Len(t) \in Nat /\ Linked(t) \subseteq 1 .. Len(t)
  BY TreeParts, LinkedIs
<1>2. \A j \in 0 .. Len(t) : PathOf(u)[j] = PathOf(t)[j]
  BY <1>1, SamePaths
<1>3. \A j \in 1 .. Len(t) : PathOf(u)[j] = PathOf(t)[j]
  BY <1>1, <1>2
<1>4. User(u) = User(t) \cap Linked(u)
  BY <1>1, <1>3 DEF User
<1>5. User(t) \subseteq 1 .. Len(t)
  BY <1>1 DEF User
<1>6. Sole(u)
  BY <1>3, <1>4, <1>5 DEF Sole
<1>7. QED  BY <1>3, <1>4, <1>6

\* What is taken out of a directory, without children of its own, is gone, and
\* nothing else is.
LEMMA DropDrive ==
  ASSUME NEW t \in Trees, Sole(t), NEW d \in Linked(t), NEW n,
         NEW i, i = Lookup(t, d, n), i # 0, t[i].children = <<>>
  PROVE  LET u == Drop(t, d, i) IN
         /\ u \in Trees /\ Len(u) = Len(t) /\ Sole(u)
         /\ i \in User(t) <=> OfUser(PathOf(t)[i])
         /\ \A j \in 1 .. Len(t) : /\ u[j].kind = t[j].kind /\ u[j].content = t[j].content
                                   /\ u[j].lazy = t[j].lazy /\ u[j].name = t[j].name
                                   /\ PathOf(u)[j] = PathOf(t)[j]
         /\ User(u) = User(t) \ {i}
         /\ DriveOn(u) = IF OfUser(PathOf(t)[i]) THEN {f \in DriveOn(t) : f[1] # PathOf(t)[i]}
                         ELSE DriveOn(t)
<1> DEFINE u == Drop(t, d, i)
           L == Linked(t) \ {i}
<1>1. /\ Len(t) \in Nat /\ Linked(t) \subseteq 1 .. Len(t) /\ d \in 1 .. Len(t)
      /\ DOMAIN t = 1 .. Len(t)
  BY TreeParts, LinkedIs
<1>2. i \in 1 .. Len(t) /\ i \in Range(t[d].children) /\ t[i].parent = d
  BY <1>1, LookupIs
<1>3. i # Root /\ t[d].kind = "dir"
  BY <1>1, <1>2, ChildrenAre
<1>4. u \in Trees /\ Dropped(t, d, i, u)
  BY <1>1, DropKeeps DEF Keeps
<1>5. /\ \A j \in 1 .. Len(t) : /\ u[j].kind = t[j].kind /\ u[j].content = t[j].content
                                /\ u[j].lazy = t[j].lazy /\ u[j].name = t[j].name
                                /\ u[j].parent = t[j].parent
  <2>1. t[d] \in Nodes /\ t \in Seq(Nodes)
    BY <1>1, TreeParts
  <2>2. /\ u[d].kind = t[d].kind /\ u[d].content = t[d].content
        /\ u[d].lazy = t[d].lazy /\ u[d].name = t[d].name
        /\ u[d].parent = t[d].parent
    BY <1>1, <2>1 DEF Drop, Nodes
  <2> HIDE DEF u
  <2>3. QED  BY <1>4, <2>2 DEF Dropped
<1>6. \A j \in 1 .. Len(t) : t[j].children \in Seq(Nat)
  BY TreeParts
<1>7. Range(u[d].children) = Range(t[d].children) \ {i}
  <2>1. u[d].children = Only(t[d].children, Range(t[d].children) \ {i})
    BY <1>4 DEF Dropped
  <2>2. QED  BY <1>1, <1>6, <2>1, OnlyKeeps
<1>8. i \in Linked(t)
  BY <1>2, LinkedIs
<1>9. Len(u) = Len(t) /\ \A j \in 1 .. Len(t) : j # d => u[j] = t[j]
  BY <1>4 DEF Dropped
<1> HIDE DEF u
<1>10. ASSUME NEW j \in 1 .. Len(u)
       PROVE  j \in L <=> j = Root \/ (/\ u[j].parent \in L
                                       /\ j \in Range(u[u[j].parent].children))
  <2> DEFINE q == t[j].parent
  <2>1. j \in 1 .. Len(t) /\ u[j].parent = q
    BY <1>5, <1>9
  <2>2. CASE q = i
    <3>1. Range(t[i].children) = {}
      BY DEF Range
    <3>2. j \notin Linked(t) \/ j = Root
      BY <2>1, <2>2, <3>1, LinkedIs
    <3>3. QED  BY <1>3, <2>1, <2>2, <3>2, LinkedIs
  <2>3. CASE q = d
    <3>1. j \in Linked(t) <=> j = Root \/ j \in Range(t[d].children)
      BY <2>1, <2>3, LinkedIs
    <3>2. d # i
      BY <1>1, <1>2, TreeParts
    <3>3. QED  BY <1>3, <1>7, <2>1, <2>3, <3>1, <3>2
  <2>4. CASE q # i /\ q # d
    <3>1. j # i
      BY <1>2, <2>4
    <3>2. q \in Linked(t) => u[q].children = t[q].children
      BY <1>1, <1>9, <2>4
    <3>3. QED  BY <2>1, <2>4, <3>1, <3>2, LinkedIs
  <2>5. QED  BY <2>2, <2>3, <2>4
<1>11. L \in SUBSET (1 .. Len(u))
  BY <1>1, <1>9
<1>12. Linked(u) = Linked(t) \ {i}
  <2> HIDE DEF L
  <2>1. Linked(u) = L
    BY <1>4, <1>10, <1>11, LinkedBy
  <2>2. QED  BY <2>1 DEF L
<1>13. /\ Sole(u) /\ User(u) = User(t) \ {i}
       /\ \A j \in 1 .. Len(t) : PathOf(u)[j] = PathOf(t)[j]
  <2>1. Sole(u) /\ User(u) = User(t) \cap Linked(u)
        /\ \A j \in 1 .. Len(t) : PathOf(u)[j] = PathOf(t)[j]
    BY <1>4, <1>5, <1>9, <1>12, StayDrive
  <2>2. QED  BY <1>12, <2>1 DEF User
<1>14. User(t) \subseteq 1 .. Len(t) /\ (i \in User(t) <=> OfUser(PathOf(t)[i]))
  BY <1>1, <1>8 DEF User
<1>15. DriveOn(u) = IF OfUser(PathOf(t)[i]) THEN {f \in DriveOn(t) : f[1] # PathOf(t)[i]}
                    ELSE DriveOn(t)
  <2>1. DriveOn(u) = {<<PathOf(t)[j], t[j].content>> : j \in User(t) \ {i}}
    BY <1>5, <1>13, <1>14 DEF DriveOn
  <2>2. CASE OfUser(PathOf(t)[i])
    <3>1. \A j \in User(t) : j # i <=> PathOf(t)[j] # PathOf(t)[i]
      BY <1>14, <2>2 DEF Sole
    <3>2. QED  BY <2>1, <2>2, <3>1 DEF DriveOn
  <2>3. CASE ~OfUser(PathOf(t)[i])
    BY <1>14, <2>1, <2>3 DEF DriveOn
  <2>4. QED  BY <2>2, <2>3
<1>16. QED  BY <1>4, <1>5, <1>9, <1>13, <1>14, <1>15 DEF u

\* Writing over contents, or taking the mark, moves nothing.
LEMMA TouchDrive ==
  ASSUME NEW t \in Trees, Sole(t), NEW u \in Trees, Len(u) = Len(t),
         \A j \in 1 .. Len(t) : /\ u[j].parent = t[j].parent /\ u[j].name = t[j].name
                                /\ u[j].children = t[j].children
  PROVE  /\ Sole(u) /\ User(u) = User(t) /\ Linked(u) = Linked(t)
         /\ \A j \in 1 .. Len(t) : PathOf(u)[j] = PathOf(t)[j]
<1>1. Len(t) \in Nat /\ Linked(t) \subseteq 1 .. Len(t)
  BY TreeParts, LinkedIs
<1>2. ASSUME NEW j \in 1 .. Len(u)
      PROVE  j \in Linked(t) <=> j = Root \/ (/\ u[j].parent \in Linked(t)
                                              /\ j \in Range(u[u[j].parent].children))
  BY <1>1, <1>2, LinkedIs
<1>3. Linked(u) = Linked(t)
  BY <1>1, <1>2, LinkedBy
<1>4. /\ Sole(u) /\ User(u) = User(t) \cap Linked(u)
      /\ \A j \in 1 .. Len(t) : PathOf(u)[j] = PathOf(t)[j]
  BY <1>3, StayDrive
<1>5. QED  BY <1>3, <1>4 DEF User

\* Who has a path has every beginning of it.
LEMMA OfUserPrefix ==
  ASSUME NEW S, NEW s \in Seq(S), NEW k \in 1 .. Len(s)
  PROVE  OfUser(SubSeq(s, 1, k)) <=> OfUser(s)
<1>1. k \in 0 .. Len(s) /\ 1 \in 1 .. k /\ Len(s) \in Nat
  OBVIOUS
<1>2. SubSeq(s, 1, k)[1] = s[1] /\ Len(SubSeq(s, 1, k)) = k
  BY <1>1, PrefixIs
<1>3. s # <<>> /\ SubSeq(s, 1, k) # <<>>
  BY <1>1, <1>2
<1>4. QED  BY <1>2, <1>3 DEF OfUser
-----------------------------------------------------------------------------
(* What is published comes back.                                           *)

\* What DriveService may hold: what is below something is below a directory, and
\* there is one thing at a path.
Mapped(F) ==
  /\ \A f \in F : /\ OfUser(f[1]) /\ f[1] \in Paths /\ f[2] # Local
                  /\ \A k \in 1 .. Len(f[1]) - 1 : <<SubSeq(f[1], 1, k), None>> \in F
  /\ \A f, g \in F : f[1] = g[1] => f = g

\* Directories and files are told apart by what they hold, and only below /git are
\* directories still to be filled.
Marked(t) ==
  /\ t[Root].kind = "dir" /\ ~t[Root].lazy
  /\ \A i \in 1 .. Len(t) : /\ t[i].kind = "dir" <=> t[i].content = None
                            /\ t[i].lazy => PathOf(t)[i][1] = "git"

\* A tree that has some of F, and nothing else of the user.
Bearing(t, F) ==
  t \in Trees /\ Len(t) > 0 /\ Marked(t) /\ Sole(t) /\ DriveOn(t) \subseteq F

\* Adding a node keeps them apart.
LEMMA AddMarked ==
  ASSUME NEW t \in Trees, Len(t) > 0, Marked(t), NEW x \in Fresh, x.parent \in 1 .. Len(t),
         x.kind = "dir" <=> x.content = None,
         x.lazy => Append(PathOf(t)[x.parent], San[x.name])[1] = "git"
  PROVE  Marked(Add(t, x))
<1> DEFINE u == Add(t, x)
           n == Len(t) + 1
           p == Append(PathOf(t)[x.parent], San[x.name])
<1>1. Len(t) \in Nat /\ Root \in 1 .. Len(t)
  BY TreeParts DEF Root
<1>2. /\ Len(u) = n
      /\ u[n].kind = x.kind /\ u[n].lazy = x.lazy /\ u[n].content = x.content
      /\ \A i \in 1 .. Len(t) : /\ u[i].kind = t[i].kind /\ u[i].lazy = t[i].lazy
                                /\ u[i].content = t[i].content
  BY <1>1, AddIs
<1>3. (\A i \in 1 .. Len(t) : PathOf(u)[i] = PathOf(t)[i]) /\ PathOf(u)[n] = p
  BY <1>1, AddPath
<1>4. \A i \in 1 .. Len(u) : i = n \/ i \in 1 .. Len(t)
  BY <1>1, <1>2
<1> HIDE DEF u, n, p
<1>5. x.lazy => p[1] = "git"
  BY DEF p
<1>6. QED  BY <1>1, <1>2, <1>3, <1>4, <1>5 DEF Marked, u

\* The path of a child of that name.
ChildPath(t, d, n) == Append(PathOf(t)[d], n)

\* One step of get_or_create_path, along a path of F or one that is not the user's.
LEMMA StepBears ==
  ASSUME NEW t, NEW F, Bearing(t, F), Mapped(F), NEW d \in 1 .. Len(t), NEW n \in Pure,
         OfUser(ChildPath(t, d, n)) =>
           <<ChildPath(t, d, n), None>> \in F /\ d \in Linked(t) /\ IsDir(t, d)
  PROVE  LET r == GetOrCreateDir(t, d, n)
             p == ChildPath(t, d, n)
         IN
         /\ Bearing(r.tree, F) /\ DriveOn(t) \subseteq DriveOn(r.tree)
         /\ r.ino \in 1 .. Len(r.tree) /\ PathOf(r.tree)[r.ino] = p
         /\ OfUser(p) => /\ r.ino \in Linked(r.tree) /\ IsDir(r.tree, r.ino)
                         /\ <<p, None>> \in DriveOn(r.tree)
<1> DEFINE r == GetOrCreateDir(t, d, n)
           p == ChildPath(t, d, n)
           c == Lookup(t, d, n)
<1>1. /\ t \in Trees /\ Len(t) > 0 /\ Marked(t) /\ Sole(t) /\ DriveOn(t) \subseteq F
      /\ Len(t) \in Nat /\ DOMAIN t = 1 .. Len(t) /\ d \in Nat
      /\ n \in AllNames /\ San[n] = n
  BY TreeParts DEF Bearing, Pure
<1> HIDE DEF p
<1>2. CASE c # 0
  <2>1. r.tree = t /\ r.ino = c
    BY <1>2 DEF GetOrCreateDir
  <2>2. /\ c \in 1 .. Len(t) /\ c \in Range(t[d].children)
        /\ t[c].name = n /\ t[c].parent = d
    BY <1>1, <1>2, LookupIs
  <2>3. c \in 2 .. Len(t)
    BY <1>1, <2>2, ChildrenAre DEF Root
  <2> HIDE DEF c, r
  <2>4. PathOf(t)[c] = p
    BY <1>1, <2>2, <2>3, PathOn DEF p, ChildPath
  <2>5. ASSUME OfUser(p)
        PROVE  c \in Linked(t) /\ IsDir(t, c) /\ <<p, None>> \in DriveOn(t)
    <3>1. c \in Linked(t)
      BY <1>1, <2>2, <2>5, LinkedIs DEF p
    <3>2. <<p, t[c].content>> \in DriveOn(t)
      BY <2>4, <2>5, <3>1 DEF DriveOn, User
    <3>3. <<p, t[c].content>> \in F /\ <<p, None>> \in F
      BY <1>1, <2>5, <3>2 DEF p
    <3>4. <<p, t[c].content>> = <<p, None>>
      BY <3>3 DEF Mapped
    <3>5. t[c].content = None
      BY <3>4
    <3>6. QED  BY <1>1, <2>2, <3>1, <3>2, <3>5 DEF Marked, IsDir
  <2>6. QED  BY <1>1, <2>1, <2>2, <2>4, <2>5 DEF r, p
<1>3. CASE c = 0
  <2> DEFINE x == Dir(d, n)
             u == Add(t, x)
  <2>1. r.tree = u /\ r.ino = Len(t) + 1
    BY <1>3 DEF GetOrCreateDir, AddDirectory
  <2>2. /\ x \in Fresh /\ x.parent = d /\ x.kind = "dir" /\ x.content = None
        /\ ~x.lazy /\ x.name = n
    BY <1>1, NewNodes DEF Dir, Contents
  <2> HIDE DEF x
  <2>3. u \in Trees /\ Len(u) = Len(t) + 1
    BY <1>1, <2>2, AddGrows
  <2>4. PathOf(u)[Len(t) + 1] = p
    BY <1>1, <2>2, AddPath DEF p, ChildPath
  <2> DEFINE there == d \in Linked(t) /\ t[d].kind = "dir" /\ OfUser(p)
  <2>5. /\ Sole(u)
        /\ User(u) = User(t) \union {i \in {Len(t) + 1} : there}
        /\ DriveOn(u) = DriveOn(t) \union {f \in {<<p, None>>} : there}
    <3>1. x.parent \in 1 .. Len(t) /\ Lookup(t, x.parent, San[x.name]) = 0
      BY <1>1, <1>3, <2>2
    <3> DEFINE q == PathOf(u)[Len(t) + 1]
               at == x.parent \in Linked(t) /\ t[x.parent].kind = "dir" /\ OfUser(q)
    <3>2. /\ Sole(u)
          /\ User(u) = User(t) \union {i \in {Len(t) + 1} : at}
          /\ DriveOn(u) = DriveOn(t) \union {f \in {<<q, x.content>>} : at}
      BY <1>1, <2>2, <3>1, AddDrive
    <3> HIDE DEF u
    <3>3. QED  BY <2>2, <2>4, <3>2
  <2>6. Marked(u)
    BY <1>1, <2>2, AddMarked
  <2>7. Len(u) > 0 /\ Len(t) + 1 \in 1 .. Len(u)
    BY <1>1, <2>3
  <2>8. Bearing(u, F) /\ DriveOn(t) \subseteq DriveOn(u)
    BY <1>1, <2>3, <2>5, <2>6, <2>7 DEF Bearing, p
  <2>9. ASSUME OfUser(p)
        PROVE  /\ Len(t) + 1 \in Linked(u) /\ IsDir(u, Len(t) + 1)
               /\ <<p, None>> \in DriveOn(u)
    <3>1. there
      BY <2>9 DEF IsDir, p
    <3>2. u[Len(t) + 1].kind = "dir"
      BY <1>1, <2>2, <2>3, AddIs
    <3>3. DOMAIN u = 1 .. Len(u)
      BY <2>3, TreeParts
    <3> HIDE DEF u
    <3>4. QED  BY <2>5, <2>7, <3>1, <3>2, <3>3 DEF User, IsDir
  <2> HIDE DEF u, r
  <2>10. QED  BY <2>1, <2>4, <2>7, <2>8, <2>9 DEF r, p
<1>4. QED  BY <1>2, <1>3
\* get_or_create_path, along a path of F or one that is not the user's.
LEMMA PathBears ==
  ASSUME NEW t, NEW F, Bearing(t, F), Mapped(F), NEW s \in Seq(Pure),
         OfUser(s) => \A k \in 1 .. Len(s) : <<SubSeq(s, 1, k), None>> \in F
  PROVE  LET r == GetOrCreatePath(t, s) IN
         /\ Bearing(r.tree, F) /\ DriveOn(t) \subseteq DriveOn(r.tree)
         /\ r.ino \in 1 .. Len(r.tree) /\ PathOf(r.tree)[r.ino] = s
         /\ s = <<>> \/ OfUser(s) => r.ino \in Linked(r.tree) /\ IsDir(r.tree, r.ino)
         /\ OfUser(s) => <<s, None>> \in DriveOn(r.tree)
<1> DEFINE n == Len(s)
           w(k) == SubSeq(s, 1, k)
           Good(k, v) ==
             /\ Bearing(v.tree, F) /\ DriveOn(t) \subseteq DriveOn(v.tree)
             /\ v.ino \in 1 .. Len(v.tree) /\ PathOf(v.tree)[v.ino] = w(k)
             /\ k = 0 \/ OfUser(s) => v.ino \in Linked(v.tree) /\ IsDir(v.tree, v.ino)
             /\ k # 0 /\ OfUser(s) => <<w(k), None>> \in DriveOn(v.tree)
<1>1. /\ t \in Trees /\ Len(t) > 0 /\ t[Root].kind = "dir" /\ DOMAIN t = 1 .. Len(t)
      /\ Len(t) \in Nat /\ n \in Nat /\ Root \in 0 .. Len(t) /\ Root \in 1 .. Len(t)
  BY TreeParts DEF Bearing, Marked, Root
<1>2. s \in Seq(AllNames)
  BY DEF Pure
<1>3. PICK at : Leads(t, Root, s, at)
  BY <1>1, <1>2, PathSteps
<1>4. Good(0, at[0])
  <2>1. at[0] = [tree |-> t, ino |-> Root]
    BY <1>3 DEF Leads
  <2>2. PathOf(t)[Root] = <<>> /\ w(0) = <<>>
    BY <1>1, EmptyPath, PrefixSteps
  <2>3. Root \in Linked(t) /\ IsDir(t, Root)
    BY <1>1, LinkedIs DEF IsDir
  <2> HIDE DEF w
  <2>4. QED  BY <1>1, <2>1, <2>2, <2>3
<1>5. ASSUME NEW k \in 1 .. n, Good(k - 1, at[k - 1])
      PROVE  Good(k, at[k])
  <2> DEFINE v == at[k - 1]
             p == w(k)
             r == GetOrCreateDir(v.tree, v.ino, s[k])
  <2>1. at[k] = r
    BY <1>3 DEF Leads
  <2>2. s[k] \in Pure /\ k - 1 \in 0 .. n /\ k \in 0 .. n /\ (k - 1 = 0 <=> k = 1)
    BY <1>1
  <2>3. ChildPath(v.tree, v.ino, s[k]) = p
    <3>1. PathOf(v.tree)[v.ino] = w(k - 1)
      BY <1>5
    <3>2. Append(w(k - 1), s[k]) = w(k)
      BY PrefixSteps
    <3>3. QED  BY <3>1, <3>2 DEF ChildPath
  <2>4. OfUser(p) <=> OfUser(s)
    BY OfUserPrefix
  <2>5. OfUser(s) => <<p, None>> \in F
    OBVIOUS
  <2>6. OfUser(s) => v.ino \in Linked(v.tree) /\ IsDir(v.tree, v.ino)
    BY <1>5
  <2>7. Bearing(v.tree, F) /\ v.ino \in 1 .. Len(v.tree) /\ DriveOn(t) \subseteq DriveOn(v.tree)
    BY <1>5
  <2> HIDE DEF p, v, w
  <2>8. /\ Bearing(r.tree, F) /\ DriveOn(v.tree) \subseteq DriveOn(r.tree)
        /\ r.ino \in 1 .. Len(r.tree) /\ PathOf(r.tree)[r.ino] = p
        /\ OfUser(p) => /\ r.ino \in Linked(r.tree) /\ IsDir(r.tree, r.ino)
                        /\ <<p, None>> \in DriveOn(r.tree)
    BY <2>2, <2>3, <2>4, <2>5, <2>6, <2>7, StepBears
  <2> HIDE DEF r
  <2>9. k # 0
    BY <1>1
  <2>10. QED  BY <2>1, <2>4, <2>7, <2>8, <2>9 DEF p
<1> HIDE DEF w
<1>6. \A k \in 0 .. n : Good(k, at[k])
  <2> DEFINE S == {k \in 0 .. n : Good(k, at[k])}
  <2> HIDE DEF Good, n
  <2>1. 0 \in S
    BY <1>1, <1>4
  <2>2. \A k \in 1 .. n : k - 1 \in S => k \in S
    BY <1>1, <1>5
  <2> HIDE DEF S
  <2>3. 0 .. n \subseteq S
    BY <1>1, <2>1, <2>2, IntervalInduction
  <2>4. QED  BY <2>3 DEF S
<1>7. Good(n, at[n]) /\ w(n) = s
  <2>1. w(n) = s
    BY PrefixSteps DEF w
  <2> HIDE DEF Good, n
  <2>2. n \in 0 .. n
    BY <1>1
  <2>3. QED  BY <1>6, <2>1, <2>2
<1>8. GetOrCreatePath(t, s) = at[n]
  BY <1>3 DEF Leads, GetOrCreatePath
<1>9. (n = 0 <=> s = <<>>) /\ (OfUser(s) => s # <<>>)
  BY <1>2 DEF OfUser
<1> HIDE DEF n
<1>10. QED  BY <1>7, <1>8, <1>9
\* What an event says of the user's things is in F, and files have a name.
Fits(g, F) ==
  /\ g.path \in Seq(Pure) /\ (g.tag = "folder" <=> g.content = None)
  /\ OfUser(g.path) => <<g.path, g.content>> \in F

\* A tag of F is restored, and nothing else of the user.
LEMMA TagBears ==
  ASSUME NEW t, NEW F, Bearing(t, F), Mapped(F), NEW g \in Tags, Fits(g, F)
  PROVE  /\ Bearing(ApplyTag(t, g), F) /\ DriveOn(t) \subseteq DriveOn(ApplyTag(t, g))
         /\ OfUser(g.path) => <<g.path, g.content>> \in DriveOn(ApplyTag(t, g))
<1> DEFINE s == g.path
<1>1. /\ g.tag \in {"folder", "x"} /\ g.content \in Contents /\ s # <<>>
      /\ s \in Seq(Pure) /\ s \in Seq(AllNames) /\ Len(s) \in Nat /\ Len(s) > 0
  BY DEF Tags, Fits, Pure
<1>2. ASSUME OfUser(s)
      PROVE  /\ <<s, g.content>> \in F /\ s \in Paths
             /\ \A k \in 1 .. Len(s) - 1 : <<SubSeq(s, 1, k), None>> \in F
  <2>1. <<s, g.content>> \in F
    BY <1>2 DEF Fits
  <2> DEFINE f == <<s, g.content>>
  <2>2. f \in F /\ f[1] = s
    BY <2>1
  <2> HIDE DEF f, s
  <2>3. f[1] \in Paths /\ \A k \in 1 .. Len(f[1]) - 1 : <<SubSeq(f[1], 1, k), None>> \in F
    BY <2>2 DEF Mapped
  <2>4. QED  BY <2>1, <2>2, <2>3
<1>3. CASE g.tag = "folder"
  <2> DEFINE r == GetOrCreatePath(t, s)
  <2>1. ApplyTag(t, g) = r.tree /\ g.content = None
    BY <1>3 DEF ApplyTag, Fits
  <2>2. OfUser(s) => \A k \in 1 .. Len(s) : <<SubSeq(s, 1, k), None>> \in F
    <3>1. SubSeq(s, 1, Len(s)) = s
      BY <1>1, PrefixSteps
    <3>2. \A k \in 1 .. Len(s) : k = Len(s) \/ k \in 1 .. Len(s) - 1
      BY <1>1
    <3> HIDE DEF s
    <3>3. QED  BY <1>2, <2>1, <3>1, <3>2
  <2>3. /\ Bearing(r.tree, F) /\ DriveOn(t) \subseteq DriveOn(r.tree)
        /\ OfUser(s) => <<s, None>> \in DriveOn(r.tree)
    <3> HIDE DEF s
    <3> QED BY <1>1, <2>2, PathBears
  <2> HIDE DEF r
  <2>4. QED  BY <2>1, <2>3
<1>4. CASE g.tag = "x"
  <2> DEFINE front == Front(s)
             n == Last(s)
             r == GetOrCreatePath(t, front)
             u == ApplyTag(t, g)
  <2>1. u = IF n = "" \/ Lookup(r.tree, r.ino, n) # 0 THEN r.tree
            ELSE Add(r.tree, File(r.ino, n, g.content))
    BY <1>4 DEF ApplyTag, AddRemoteFile
  <2>2. /\ front \in Seq(Pure) /\ n \in Pure /\ Len(front) = Len(s) - 1 /\ n = s[Len(s)]
        /\ front = SubSeq(s, 1, Len(s) - 1)
    BY <1>1, FrontIs DEF Front
  <2>3. s = Append(front, n)
    <3>1. SubSeq(s, 1, Len(s)) = s /\ Len(s) \in 1 .. Len(s)
      BY <1>1, PrefixSteps
    <3>2. SubSeq(s, 1, Len(s)) = Append(SubSeq(s, 1, Len(s) - 1), s[Len(s)])
      BY <1>1, <3>1, PrefixSteps
    <3> HIDE DEF s, front, n
    <3>3. QED  BY <2>2, <3>1, <3>2
  <2>4. OfUser(front) => \A k \in 1 .. Len(front) : <<SubSeq(front, 1, k), None>> \in F
    <3> SUFFICES ASSUME OfUser(front), NEW k \in 1 .. Len(front)
                 PROVE  <<SubSeq(front, 1, k), None>> \in F
      OBVIOUS
    <3>1. Len(s) - 1 \in 1 .. Len(s) /\ k \in 1 .. Len(s) - 1
      BY <1>1, <2>2
    <3>2. OfUser(s)
      BY <1>1, <2>2, <3>1, OfUserPrefix
    <3>3. SubSeq(front, 1, k) = SubSeq(s, 1, k)
      <4>1. Len(s) - 1 \in 0 .. Len(s) /\ k \in 0 .. Len(s) - 1
        BY <3>1
      <4>2. SubSeq(SubSeq(s, 1, Len(s) - 1), 1, k) = SubSeq(s, 1, k)
        BY <1>1, <4>1, PrefixSteps
      <4> HIDE DEF s, front
      <4>3. QED  BY <2>2, <4>2
    <3> HIDE DEF s, front
    <3>4. QED  BY <1>2, <3>1, <3>2, <3>3
  <2>5. /\ Bearing(r.tree, F) /\ DriveOn(t) \subseteq DriveOn(r.tree)
        /\ r.ino \in 1 .. Len(r.tree) /\ PathOf(r.tree)[r.ino] = front
        /\ front = <<>> \/ OfUser(front) => r.ino \in Linked(r.tree) /\ IsDir(r.tree, r.ino)
    <3>1. front \in Seq(Pure)
      BY <2>2
    <3> HIDE DEF front
    <3>2. QED  BY <2>4, <3>1, PathBears
  <2>6. OfUser(s) => front = <<>> \/ OfUser(front)
    <3>1. front \in Seq(AllNames) /\ n \in AllNames
      BY <2>2 DEF Pure
    <3>2. OfUser(Append(front, n)) => front = <<>> \/ OfUser(front)
      <4> HIDE DEF front, n
      <4> QED BY <3>1, OfUserOn
    <3> HIDE DEF front, n, s
    <3>3. QED  BY <2>3, <3>2
  <2>7. OfUser(s) => n # ""
    <3>1. s \in Paths => n \in UserNames
      <4> SUFFICES ASSUME s \in Paths
                   PROVE  n \in UserNames
        OBVIOUS
      <4>1. PICK k \in 1 .. MaxDepth : s \in [1 .. k -> UserNames]
        BY DEF Paths
      <4>2. Len(s) = k /\ k \in Nat /\ k > 0
        BY <1>1, <4>1, MountAssumption
      <4>3. s[k] \in UserNames
        BY <4>1, <4>2
      <4> HIDE DEF s, n
      <4>4. QED  BY <2>2, <4>2, <4>3
    <3>2. QED  BY <1>2, <3>1, UserAssumption
  <2>8. /\ r.tree \in Trees /\ Len(r.tree) > 0 /\ Marked(r.tree) /\ Sole(r.tree)
        /\ DriveOn(r.tree) \subseteq F /\ Len(r.tree) \in Nat
        /\ DOMAIN r.tree = 1 .. Len(r.tree)
    BY <2>5, TreeParts DEF Bearing
  <2>9. g.content # None /\ n \in AllNames /\ San[n] = n
    BY <1>4, <2>2 DEF Fits, Pure
  <2> HIDE DEF s, front, n, r
  <2>10. CASE Lookup(r.tree, r.ino, n) # 0
    <3> DEFINE c == Lookup(r.tree, r.ino, n)
    <3>1. /\ c \in 2 .. Len(r.tree) /\ c \in Range(r.tree[r.ino].children)
          /\ r.tree[c].name = n /\ r.tree[c].parent = r.ino
      <4>1. /\ c \in 1 .. Len(r.tree) /\ c \in Range(r.tree[r.ino].children)
            /\ r.tree[c].name = n /\ r.tree[c].parent = r.ino
        BY <2>8, <2>10, LookupIs
      <4> HIDE DEF c
      <4>2. c # Root
        BY <2>5, <2>8, <4>1, ChildrenAre
      <4>3. QED  BY <2>8, <4>1, <4>2 DEF Root
    <3> HIDE DEF c
    <3>2. PathOf(r.tree)[c] = s
      BY <2>3, <2>5, <2>8, <3>1, PathOn
    <3>3. ASSUME OfUser(s)
          PROVE  <<s, g.content>> \in DriveOn(r.tree)
      <4>1. c \in Linked(r.tree)
        BY <2>5, <2>6, <2>8, <3>1, <3>3, LinkedIs
      <4>2. <<s, r.tree[c].content>> \in DriveOn(r.tree)
        BY <3>2, <3>3, <4>1 DEF DriveOn, User
      <4>3. <<s, r.tree[c].content>> \in F /\ <<s, g.content>> \in F
        BY <1>2, <2>8, <3>3, <4>2 DEF s
      <4>4. <<s, r.tree[c].content>> = <<s, g.content>>
        BY <4>3 DEF Mapped
      <4>5. QED  BY <4>2, <4>4
    <3>4. u = r.tree
      BY <2>1, <2>10
    <3> HIDE DEF u
    <3>5. QED  BY <2>5, <3>3, <3>4 DEF s, u
  <2>11. CASE Lookup(r.tree, r.ino, n) = 0 /\ n = ""
    <3>1. u = r.tree /\ ~OfUser(s)
      BY <2>1, <2>7, <2>11
    <3> HIDE DEF u
    <3>2. QED  BY <2>5, <3>1 DEF s, u
  <2>12. CASE Lookup(r.tree, r.ino, n) = 0 /\ n # ""
    <3> DEFINE x == File(r.ino, n, g.content)
    <3>1. /\ x \in Fresh /\ x.parent = r.ino /\ x.kind = "file" /\ x.content = g.content
          /\ ~x.lazy /\ x.name = n
      <4>1. r.ino \in Nat
        BY <2>5, <2>8
      <4>2. QED  BY <1>1, <2>9, <4>1, NewNodes DEF File
    <3>2. u = Add(r.tree, x)
      BY <2>1, <2>12
    <3> HIDE DEF u, x
    <3> DEFINE q == PathOf(u)[Len(r.tree) + 1]
               at == /\ x.parent \in Linked(r.tree) /\ r.tree[x.parent].kind = "dir"
                     /\ OfUser(q)
    <3>3. q = s /\ u \in Trees /\ Len(u) = Len(r.tree) + 1
      <4>1. x.parent \in 1 .. Len(r.tree) /\ x.parent \in 0 .. Len(r.tree)
        BY <2>5, <2>8, <3>1
      <4>2. u \in Trees /\ Len(u) = Len(r.tree) + 1
        BY <2>8, <3>1, <3>2, <4>1, AddGrows
      <4>3. q = Append(PathOf(r.tree)[x.parent], San[x.name])
        BY <2>8, <3>1, <3>2, <4>1, AddPath
      <4> HIDE DEF q
      <4>4. q = s
        BY <2>3, <2>5, <2>9, <3>1, <4>3
      <4>5. QED  BY <4>2, <4>4
    <3>4. /\ Sole(u)
          /\ DriveOn(u) = DriveOn(r.tree) \union {f \in {<<q, x.content>>} : at}
      <4>1. x.parent \in 1 .. Len(r.tree) /\ Lookup(r.tree, x.parent, San[x.name]) = 0
        BY <2>5, <2>9, <2>12, <3>1
      <4>2. QED  BY <2>8, <3>1, <3>2, <4>1, AddDrive
    <3>5. Marked(u)
      BY <2>5, <2>8, <2>9, <3>1, <3>2, AddMarked
    <3>6. OfUser(s) => r.ino \in Linked(r.tree) /\ r.tree[r.ino].kind = "dir"
                       /\ <<s, g.content>> \in F
      BY <1>2, <2>5, <2>6 DEF IsDir, s
    <3>7. Bearing(u, F)
      BY <2>8, <3>1, <3>3, <3>4, <3>5, <3>6 DEF Bearing
    <3>8. OfUser(s) => <<s, g.content>> \in DriveOn(u)
      BY <3>1, <3>3, <3>4, <3>6
    <3>9. DriveOn(t) \subseteq DriveOn(u)
      BY <2>5, <3>4
    <3>10. QED  BY <3>7, <3>8, <3>9 DEF s, u
  <2>13. QED  BY <2>10, <2>11, <2>12
<1>5. QED  BY <1>1, <1>3, <1>4
\* What was published is restored, and nothing else of the user.
LEMMA PersistedBears ==
  ASSUME NEW t, NEW F, Bearing(t, F), Mapped(F), NEW tags \in Seq(Tags),
         \A g \in Range(tags) : Fits(g, F)
  PROVE  LET u == ApplyPersisted(t, tags) IN
         /\ Bearing(u, F)
         /\ \A g \in Range(tags) : OfUser(g.path) => <<g.path, g.content>> \in DriveOn(u)
<1>1. t \in Trees /\ Len(t) > 0
  BY DEF Bearing
<1>2. PICK todo, apply : Restores(t, tags, todo, apply)
  BY <1>1, PersistedSteps
<1> DEFINE n == Len(todo)
           S == {k \in 0 .. n :
                   /\ Bearing(apply[k], F)
                   /\ \A j \in 1 .. k : OfUser(todo[j].path) =>
                        <<todo[j].path, todo[j].content>> \in DriveOn(apply[k])}
<1>3. /\ todo \in Seq(Tags) /\ n \in Nat /\ Range(todo) = Range(tags)
      /\ apply[0] = t /\ ApplyPersisted(t, tags) = apply[n]
      /\ \A k \in 1 .. n : apply[k] = ApplyTag(apply[k - 1], todo[k])
  BY <1>2 DEF Restores
<1>4. \A k \in 1 .. n : todo[k] \in Tags /\ Fits(todo[k], F)
  <2>1. \A k \in 1 .. n : todo[k] \in Tags /\ todo[k] \in Range(todo)
    BY <1>3 DEF Range
  <2>2. QED  BY <1>3, <2>1
<1>5. 0 \in S
  BY <1>3
<1>6. ASSUME NEW k \in 1 .. n, k - 1 \in S
      PROVE  k \in S
  <2> DEFINE v == apply[k - 1]
             w == apply[k]
             g == todo[k]
  <2>1. /\ Bearing(v, F)
        /\ \A j \in 1 .. k - 1 : OfUser(todo[j].path) =>
             <<todo[j].path, todo[j].content>> \in DriveOn(v)
    BY <1>6
  <2>2. w = ApplyTag(v, g) /\ g \in Tags /\ Fits(g, F)
    BY <1>3, <1>4
  <2> HIDE DEF v, w, g
  <2>3. /\ Bearing(w, F) /\ DriveOn(v) \subseteq DriveOn(w)
        /\ OfUser(g.path) => <<g.path, g.content>> \in DriveOn(w)
    BY <2>1, <2>2, TagBears
  <2>4. \A j \in 1 .. k : j = k \/ j \in 1 .. k - 1
    BY <1>3
  <2>5. ASSUME NEW j \in 1 .. k, OfUser(todo[j].path)
        PROVE  <<todo[j].path, todo[j].content>> \in DriveOn(w)
    <3>1. CASE j = k
      BY <2>3, <2>5, <3>1 DEF g
    <3>2. CASE j \in 1 .. k - 1
      BY <2>1, <2>3, <2>5, <3>2
    <3>3. QED  BY <2>4, <3>1, <3>2
  <2>6. k \in 0 .. n
    BY <1>3
  <2>7. QED  BY <2>3, <2>5, <2>6 DEF w
<1>7. n \in S
  <2> HIDE DEF S, n
  <2>1. 0 .. n \subseteq S
    BY <1>3, <1>5, <1>6, IntervalInduction
  <2>2. QED  BY <1>3, <2>1
<1>8. ASSUME NEW g \in Range(tags), OfUser(g.path)
      PROVE  <<g.path, g.content>> \in DriveOn(apply[n])
  <2>1. g \in Range(todo) /\ DOMAIN todo = 1 .. n
    BY <1>3
  <2>2. PICK j \in 1 .. n : g = todo[j]
    BY <2>1 DEF Range
  <2>3. QED  BY <1>7, <1>8, <2>2
<1>9. QED  BY <1>3, <1>7, <1>8
\* What is in /public, /git or README.txt is not the user's.
LEMMA NotUsers ==
  \A s : s[1] \in {"public", "git", "README.txt"} => ~OfUser(s)
<1>1. San["git"] = "git"
  BY CleanAssumption
<1>2. "git" \notin UserNames /\ "public" \in Published /\ "README.txt" \notin UserNames
  BY <1>1, CleanAssumption, UserAssumption
<1>3. QED  BY <1>2 DEF OfUser

\* What is below a node of /git is.
LEMMA GitBelow ==
  ASSUME NEW t \in Trees, NEW i \in 2 .. Len(t), PathOf(t)[i][1] = "git", NEW n \in AllNames
  PROVE  ChildPath(t, i, n)[1] = "git" /\ ~OfUser(ChildPath(t, i, n))
<1> DEFINE s == PathOf(t)[i]
<1>1. i \in 1 .. Len(t) /\ i # Root
  BY TreeParts DEF Root
<1>2. s \in Seq(AllNames) /\ Len(s) \in Nat /\ s # <<>>
  BY <1>1, EmptyPath
<1> HIDE DEF s
<1>3. 1 \in 1 .. Len(s)
  BY <1>2
<1>4. Append(s, n)[1] = s[1]
  BY <1>2, <1>3, OneName
<1>5. ChildPath(t, i, n)[1] = "git"
  BY <1>4 DEF ChildPath, s
<1>6. QED  BY <1>5, NotUsers

\* Adding what is not the user's leaves what is.
LEMMA AddForeign ==
  ASSUME NEW t, NEW F, Bearing(t, F), NEW x \in Fresh, x.parent \in 1 .. Len(t),
         ~OfUser(ChildPath(t, x.parent, San[x.name])), x.kind = "dir" <=> x.content = None,
         x.lazy => ChildPath(t, x.parent, San[x.name])[1] = "git"
  PROVE  LET u == Add(t, x) IN
         /\ Bearing(u, F) /\ DriveOn(u) = DriveOn(t) /\ User(u) = User(t)
         /\ Len(u) = Len(t) + 1
         /\ PathOf(u)[Len(t) + 1] = ChildPath(t, x.parent, San[x.name])
         /\ \A i \in 1 .. Len(t) : PathOf(u)[i] = PathOf(t)[i]
<1> DEFINE u == Add(t, x)
<1>1. /\ t \in Trees /\ Len(t) > 0 /\ Marked(t) /\ Sole(t) /\ DriveOn(t) \subseteq F
      /\ Len(t) \in Nat
  BY TreeParts DEF Bearing
<1>2. u \in Trees /\ Len(u) = Len(t) + 1
  BY <1>1, AddGrows
<1>3. /\ PathOf(u)[Len(t) + 1] = ChildPath(t, x.parent, San[x.name])
      /\ \A i \in 1 .. Len(t) : PathOf(u)[i] = PathOf(t)[i]
  BY <1>1, AddPath DEF ChildPath
<1>4. ~OfUser(PathOf(u)[Len(t) + 1])
  BY <1>3
<1>5. /\ Sole(u)
      /\ User(u) = User(t) \union {i \in {Len(t) + 1} : FALSE}
      /\ DriveOn(u) = DriveOn(t) \union {f \in {<<PathOf(u)[Len(t) + 1], x.content>>} : FALSE}
  BY <1>1, <1>4, AddDrive
<1>6. Marked(u)
  <2>1. x.lazy => Append(PathOf(t)[x.parent], San[x.name])[1] = "git"
    BY DEF ChildPath
  <2>2. QED  BY <1>1, <2>1, AddMarked
<1> HIDE DEF u
<1>7. User(u) = User(t) /\ DriveOn(u) = DriveOn(t)
  BY <1>5
<1>8. QED  BY <1>1, <1>2, <1>3, <1>5, <1>6, <1>7 DEF Bearing, u

\* A mount begins with nothing of the user's.
LEMMA BuiltBears ==
  ASSUME all \in Seq(Blobs)
  PROVE  Bearing(BuiltTree, {})
<1> DEFINE p     == PublicTree(all)
           g     == Len(p) + 1
           a     == Dir(Root, "git")
           b     == [Dir(g, "repo") EXCEPT !.lazy = TRUE]
           c     == File(g + 1, "INFO.md", Static)
           d     == File(Root, "README.txt", Static)
           git   == Add(p, a)
           repo  == Add(git, b)
           info  == Add(repo, c)
           end   == Add(info, d)
<1>1. Shape(p)
  BY PublicShows DEF Presents
<1>2. p \in Trees /\ Len(p) \in Nat /\ Len(p) >= 6 /\ g \in Nat /\ Root = 1
  BY <1>1, TreeParts DEF Shape, Root
<1>3. BuiltTree = AddStaticFile(AddStaticFile(AddLazyDir(git, Len(git), "repo"),
                                  Len(AddLazyDir(git, Len(git), "repo")), "INFO.md"),
                    Root, "README.txt")
  BY DEF BuiltTree, PublicTree, HostTree, AddDirectory
<1>4. /\ a \in Fresh /\ b \in Fresh /\ c \in Fresh /\ d \in Fresh
      /\ a.parent = Root /\ b.parent = g /\ c.parent = g + 1 /\ d.parent = Root
  <2>1. /\ Root \in Nat /\ g \in Nat /\ g + 1 \in Nat /\ Static \in Contents
        /\ {"git", "repo", "INFO.md", "README.txt"} \subseteq AllNames
    BY <1>2, Words
  <2> HIDE DEF g
  <2>2. QED  BY <2>1, NewNodes
<1>5. /\ a.kind = "dir" /\ a.name = "git" /\ ~a.lazy /\ a.content = None
      /\ b.kind = "dir" /\ b.name = "repo" /\ b.lazy /\ b.content = None
      /\ c.kind = "file" /\ c.name = "INFO.md" /\ ~c.lazy /\ c.content # None
      /\ d.kind = "file" /\ d.name = "README.txt" /\ ~d.lazy /\ d.content # None
  BY DEF Dir, File, Static, None
<1>6. /\ San["git"] = "git" /\ San["repo"] = "repo" /\ San["INFO.md"] = "INFO.md"
      /\ San["README.txt"] = "README.txt" /\ "repo" \in AllNames /\ "INFO.md" \in AllNames
  BY CleanAssumption, Words
<1>7. Bearing(p, {})
  <2>1. ASSUME NEW i \in 2 .. Len(p)
        PROVE  /\ ~OfUser(PathOf(p)[i]) /\ ~p[i].lazy
               /\ p[i].kind = "dir" <=> p[i].content = None
    <3>1. PathOf(p)[i][1] = "public"
      <4>1. CASE i \in 4 .. Len(p)
        BY <1>1, <4>1, ViewPath
      <4>2. CASE i \in {2, 3}
        BY <1>1, <4>2 DEF Shape
      <4>3. QED  BY <1>2, <4>1, <4>2
    <3>2. p[i].kind = "dir" <=> p[i].content = None
      <4>1. CASE i \in 1 .. 6
        BY <1>1, <4>1 DEF Shape
      <4>2. CASE i \in 7 .. Len(p)
        <5>1. Inside(p, i)
          BY <1>1, <4>2 DEF Shape
        <5>2. p[i].kind \in {"dir", "file"}
          BY <1>2, TreeParts
        <5>3. QED  BY <5>1, <5>2, BlobAssumption DEF Inside
      <4>3. QED  BY <1>2, <4>1, <4>2
    <3>3. QED  BY <1>1, <3>1, <3>2, NotUsers DEF Shape
  <2>2. /\ p[1].kind = "dir" /\ p[1].content = None /\ ~p[1].lazy
        /\ ~OfUser(PathOf(p)[1])
    <3>1. 1 \in 1 .. Len(p) /\ 1 \in 1 .. 6
      BY <1>2
    <3>2. PathOf(p)[1] = <<>>
      BY <1>2, <3>1, EmptyPath
    <3>3. QED  BY <1>1, <3>1, <3>2 DEF Shape, OfUser
  <2>3. Linked(p) \subseteq 1 .. Len(p)
    BY <1>2, LinkedIs
  <2>4. \A i \in 1 .. Len(p) : i = 1 \/ i \in 2 .. Len(p)
    BY <1>2
  <2> HIDE DEF p
  <2>5. User(p) = {}
    BY <2>1, <2>2, <2>3, <2>4 DEF User
  <2>6. Marked(p)
    BY <1>2, <2>1, <2>2, <2>4 DEF Marked
  <2>7. QED  BY <1>2, <2>5, <2>6 DEF Bearing, DriveOn, Sole
<1> HIDE DEF p, a, b, c, d
<1>8. ASSUME NEW t, Bearing(t, {}), NEW n \in AllNames, San[n] \in {"git", "README.txt"}
      PROVE  Root \in 1 .. Len(t) /\ ChildPath(t, Root, San[n]) = <<San[n]>>
             /\ ~OfUser(ChildPath(t, Root, San[n]))
  <2>1. t \in Trees /\ Root \in 1 .. Len(t)
    BY <1>8, TreeParts DEF Bearing, Root
  <2>2. PathOf(t)[Root] = <<>>
    BY <2>1, EmptyPath
  <2>3. ChildPath(t, Root, San[n]) = <<San[n]>>
    BY <2>2 DEF ChildPath
  <2>4. <<San[n]>>[1] = San[n]
    OBVIOUS
  <2>5. QED  BY <1>8, <2>1, <2>3, <2>4, NotUsers
<1>9. /\ Bearing(git, {}) /\ Len(git) = g /\ PathOf(git)[g] = <<"git">>
  <2>1. /\ Root \in 1 .. Len(p) /\ ~OfUser(ChildPath(p, Root, San["git"]))
        /\ ChildPath(p, Root, San["git"]) = <<"git">>
    BY <1>6, <1>7, <1>8, Words
  <2>2. /\ a.parent \in 1 .. Len(p) /\ ~OfUser(ChildPath(p, a.parent, San[a.name]))
        /\ ChildPath(p, a.parent, San[a.name]) = <<"git">>
    BY <1>4, <1>5, <2>1
  <2>3. QED  BY <1>4, <1>5, <1>7, <2>2, AddForeign
<1> HIDE DEF git
<1>10. git \in Trees /\ g \in 2 .. Len(git) /\ g \in 1 .. Len(git)
  BY <1>2, <1>9 DEF Bearing
<1>11. Bearing(repo, {}) /\ Len(repo) = g + 1 /\ PathOf(repo)[g + 1][1] = "git"
  <2>1. PathOf(git)[g][1] = "git"
    BY <1>9
  <2> HIDE DEF g
  <2>2. ChildPath(git, g, San["repo"])[1] = "git" /\ ~OfUser(ChildPath(git, g, San["repo"]))
    BY <1>6, <1>10, <2>1, GitBelow
  <2>3. /\ b.parent \in 1 .. Len(git) /\ ~OfUser(ChildPath(git, b.parent, San[b.name]))
        /\ ChildPath(git, b.parent, San[b.name])[1] = "git"
    BY <1>4, <1>5, <1>10, <2>2
  <2>4. QED  BY <1>4, <1>5, <1>9, <2>3, AddForeign
<1> HIDE DEF repo
<1>12. repo \in Trees /\ g + 1 \in 2 .. Len(repo) /\ g + 1 \in 1 .. Len(repo)
  BY <1>2, <1>11 DEF Bearing
<1>13. Bearing(info, {}) /\ Len(info) = g + 2
  <2>1. ~OfUser(ChildPath(repo, g + 1, San["INFO.md"]))
    BY <1>6, <1>11, <1>12, GitBelow
  <2>2. c.parent \in 1 .. Len(repo) /\ ~OfUser(ChildPath(repo, c.parent, San[c.name]))
    BY <1>4, <1>5, <1>12, <2>1
  <2>3. Bearing(info, {}) /\ Len(info) = Len(repo) + 1
    BY <1>4, <1>5, <1>11, <2>2, AddForeign
  <2>4. QED  BY <1>2, <1>11, <2>3
<1> HIDE DEF info
<1>14. Bearing(end, {})
  <2>1. /\ Root \in 1 .. Len(info) /\ ~OfUser(ChildPath(info, Root, San["README.txt"]))
    BY <1>6, <1>8, <1>13, Words
  <2>2. /\ d.parent \in 1 .. Len(info) /\ ~OfUser(ChildPath(info, d.parent, San[d.name]))
    BY <1>4, <1>5, <2>1
  <2>3. QED  BY <1>4, <1>5, <1>13, <2>2, AddForeign
<1>15. BuiltTree = end
  BY <1>3, <1>9, <1>11 DEF AddStaticFile, AddLazyDir, b, c, d, git, repo, info
<1>16. QED  BY <1>14, <1>15
\* Walking a repository below /git adds nothing of the user's.
LEMMA WalkBears ==
  ASSUME NEW t, NEW F, Bearing(t, F), NEW d \in 2 .. Len(t), PathOf(t)[d][1] = "git"
  PROVE  Bearing(WalkRepo(t, d), F) /\ DriveOn(WalkRepo(t, d)) = DriveOn(t)
<1>1. t \in Trees /\ Len(t) \in Nat /\ d \in 1 .. Len(t) /\ Len(Repo) \in Nat
      /\ DOMAIN Repo = 1 .. Len(Repo)
  <2>1. t \in Trees /\ Len(t) \in Nat
    BY TreeParts DEF Bearing
  <2>2. Repo \in Seq([kind : {"dir", "file"}, name : AllNames, up : Nat])
    BY RepoAssumption
  <2>3. QED  BY <2>1, <2>2
<1>2. PICK walk : Walks(t, d, walk)
  BY <1>1, WalkSteps
<1> DEFINE n == Len(Repo)
           S == {k \in 0 .. n :
                   /\ Bearing(walk[k], F) /\ DriveOn(walk[k]) = DriveOn(t)
                   /\ Len(walk[k]) = Len(t) + k
                   /\ PathOf(walk[k])[d][1] = "git"
                   /\ \A i \in 1 .. k : PathOf(walk[k])[Len(t) + i][1] = "git"}
<1>3. /\ walk[0] = t /\ WalkRepo(t, d) = walk[n]
      /\ \A k \in 1 .. n :
           walk[k] = Add(walk[k - 1],
                       IF Repo[k].kind = "dir"
                       THEN Dir(Walked(t, d, Repo[k].up), Repo[k].name)
                       ELSE File(Walked(t, d, Repo[k].up), Repo[k].name, Local))
  BY <1>2 DEF Walks, AddDirectory, AddLocalFile
<1>4. 0 \in S
  BY <1>1, <1>3
<1>5. ASSUME NEW k \in 1 .. n, k - 1 \in S
      PROVE  k \in S
  <2> DEFINE v == walk[k - 1]
             w == walk[k]
             e == Repo[k]
             p == Walked(t, d, e.up)
             x == IF e.kind = "dir" THEN Dir(p, e.name) ELSE File(p, e.name, Local)
  <2>1. /\ Bearing(v, F) /\ DriveOn(v) = DriveOn(t) /\ Len(v) = Len(t) + (k - 1)
        /\ PathOf(v)[d][1] = "git"
        /\ \A i \in 1 .. k - 1 : PathOf(v)[Len(t) + i][1] = "git"
    BY <1>5
  <2>2. e.up \in Nat /\ e.up < k /\ e.name \in AllNames
    <3> DEFINE E == [kind : {"dir", "file"}, name : AllNames, up : Nat]
    <3>1. Repo \in Seq(E) /\ \A j \in DOMAIN Repo : Repo[j].up < j
      BY RepoAssumption
    <3>2. Repo[k] \in E /\ Repo[k].up < k
      <4> HIDE DEF E
      <4> QED BY <1>1, <3>1
    <3>3. QED  BY <3>2
  <2>3. p \in 2 .. Len(v) /\ p \in 1 .. Len(v) /\ p \in Nat /\ PathOf(v)[p][1] = "git"
    <3>1. CASE e.up = 0
      BY <1>1, <2>1, <3>1 DEF Walked
    <3>2. CASE e.up # 0
      <4>1. e.up \in 1 .. k - 1 /\ p = Len(t) + e.up
        BY <2>2, <3>2 DEF Walked
      <4>2. QED  BY <1>1, <2>1, <2>2, <4>1
    <3>3. QED  BY <3>1, <3>2
  <2>4. /\ x \in Fresh /\ x.parent = p /\ x.name = e.name /\ ~x.lazy
        /\ x.kind = "dir" <=> x.content = None
    <3>1. Local \in Contents /\ None \in Contents
      BY DEF Contents
    <3> HIDE DEF p, e
    <3>2. QED  BY <2>2, <2>3, <3>1, NewNodes DEF Dir, File, Local, None
  <2>5. w = Add(v, x)
    BY <1>3
  <2>6. v \in Trees /\ San[e.name] \in AllNames
    BY <2>1, <2>2, NameAssumption DEF Bearing
  <2> HIDE DEF p, x, v, w, e
  <2>7. ChildPath(v, p, San[e.name])[1] = "git" /\ ~OfUser(ChildPath(v, p, San[e.name]))
    BY <2>3, <2>6, GitBelow
  <2>8. x.parent \in 1 .. Len(v) /\ ~OfUser(ChildPath(v, x.parent, San[x.name]))
    BY <2>3, <2>4, <2>7
  <2>9. /\ Bearing(w, F) /\ DriveOn(w) = DriveOn(v) /\ Len(w) = Len(v) + 1
        /\ PathOf(w)[Len(v) + 1] = ChildPath(v, x.parent, San[x.name])
        /\ \A i \in 1 .. Len(v) : PathOf(w)[i] = PathOf(v)[i]
    BY <2>1, <2>4, <2>5, <2>8, AddForeign
  <2>10. Len(w) = Len(t) + k /\ k \in 0 .. n
    BY <1>1, <2>1, <2>9
  <2>11. PathOf(w)[d][1] = "git"
    <3>1. d \in 1 .. Len(v)
      BY <1>1, <2>1
    <3>2. QED  BY <2>1, <2>9, <3>1
  <2>12. ASSUME NEW i \in 1 .. k
         PROVE  PathOf(w)[Len(t) + i][1] = "git"
    <3>1. CASE i = k
      <4>1. Len(t) + i = Len(v) + 1
        BY <1>1, <2>1, <3>1
      <4>2. QED  BY <2>4, <2>7, <2>9, <4>1
    <3>2. CASE i # k
      <4>1. i \in 1 .. k - 1 /\ Len(t) + i \in 1 .. Len(v)
        BY <1>1, <2>1, <3>2
      <4>2. QED  BY <2>1, <2>9, <4>1
    <3>3. QED  BY <3>1, <3>2
  <2>13. QED  BY <2>1, <2>9, <2>10, <2>11, <2>12 DEF w
<1>6. n \in S
  <2> HIDE DEF S, n
  <2>1. n \in Nat
    BY <1>1 DEF n
  <2>2. 0 .. n \subseteq S
    BY <1>4, <1>5, <2>1, IntervalInduction
  <2>3. QED  BY <2>1, <2>2
<1>7. QED  BY <1>3, <1>6
\* The directories on the way to what is the user's are.
LEMMA Ancestors ==
  ASSUME NEW t \in Trees, Marked(t)
  PROVE  \A i \in User(t) : \A k \in 1 .. Len(PathOf(t)[i]) - 1 :
           <<SubSeq(PathOf(t)[i], 1, k), None>> \in DriveOn(t)
<1> DEFINE D == 1 .. Len(t)
           Way(i) == \A k \in 1 .. Len(PathOf(t)[i]) - 1 :
                       <<SubSeq(PathOf(t)[i], 1, k), None>> \in DriveOn(t)
           S == {i \in D : i \in User(t) => Way(i)}
<1>1. D \in SUBSET Nat /\ Len(t) \in Nat /\ User(t) \subseteq D
  BY TreeParts, LinkedIs DEF User
<1>2. ASSUME NEW i \in D, \A j \in D : j < i => j \in S
      PROVE  i \in S
  <2> SUFFICES ASSUME i \in User(t), NEW k \in 1 .. Len(PathOf(t)[i]) - 1
               PROVE  <<SubSeq(PathOf(t)[i], 1, k), None>> \in DriveOn(t)
    OBVIOUS
  <2> DEFINE q == t[i].parent
             s == PathOf(t)[i]
             r == PathOf(t)[q]
  <2>1. i \in Linked(t) /\ OfUser(s) /\ s \in Seq(AllNames) /\ Len(s) \in Nat
    BY EmptyPath DEF User
  <2>2. i # Root
    BY <2>1, EmptyPath DEF OfUser
  <2>3. q \in Linked(t) /\ i \in Range(t[q].children) /\ q \in D
    BY <2>1, <2>2, LinkedIs
  <2>4. t[q].kind = "dir" /\ q < i /\ t[q].content = None
    BY <2>3, ChildrenAre, TreeParts DEF Marked
  <2>5. /\ s = Append(r, t[i].name) /\ r \in Seq(AllNames) /\ t[i].name \in AllNames
        /\ Len(r) \in Nat
    <3>1. i \in 2 .. Len(t)
      BY <1>1, <2>2 DEF Root
    <3>2. QED  BY <2>3, <3>1, PathOn, EmptyPath
  <2>6. /\ r = SubSeq(s, 1, Len(s) - 1)
        /\ \A j \in 0 .. Len(s) - 1 : SubSeq(r, 1, j) = SubSeq(s, 1, j)
        /\ Len(r) = Len(s) - 1 /\ SubSeq(r, 1, Len(r)) = r
    <3>1. Len(s) \in 1 .. Len(s) /\ Len(s) - 1 \in 0 .. Len(s)
      BY <2>1
    <3> HIDE DEF s, r, q
    <3>2. s = Append(SubSeq(s, 1, Len(s) - 1), s[Len(s)])
      BY <2>1, <3>1, PrefixSteps
    <3>3. SubSeq(s, 1, Len(s) - 1) \in Seq(AllNames) /\ s[Len(s)] \in AllNames
          /\ Len(SubSeq(s, 1, Len(s) - 1)) = Len(s) - 1
      <4>1. s[Len(s)] \in AllNames
        BY <2>1, <3>1
      <4> DEFINE K == Len(s) - 1
      <4>2. K \in 0 .. Len(s)
        BY <3>1
      <4> HIDE DEF K
      <4>3. SubSeq(s, 1, K) \in Seq(AllNames) /\ Len(SubSeq(s, 1, K)) = K
        BY <2>1, <4>2, PrefixIs
      <4>4. QED  BY <4>1, <4>3 DEF K
    <3>4. Append(r, t[i].name) = Append(SubSeq(s, 1, Len(s) - 1), s[Len(s)])
      BY <2>5, <3>2
    <3>5. r = SubSeq(s, 1, Len(s) - 1)
      BY <2>5, <3>3, <3>4, SameAppend
    <3>6. \A j \in 0 .. Len(s) - 1 :
            SubSeq(SubSeq(s, 1, Len(s) - 1), 1, j) = SubSeq(s, 1, j)
      BY <2>1, <3>1, PrefixSteps
    <3>7. SubSeq(r, 1, Len(r)) = r
      BY <2>5, PrefixSteps
    <3>8. QED  BY <3>3, <3>5, <3>6, <3>7
  <2>7. k \in 1 .. Len(r) /\ SubSeq(s, 1, k) = SubSeq(r, 1, k)
    BY <2>1, <2>6
  <2>8. q \in User(t)
    <3>1. r # <<>>
      BY <2>5, <2>7
    <3>2. OfUser(Append(r, t[i].name)) <=> OfUser(r)
      <4> HIDE DEF r
      <4> QED BY <2>5, <3>1, OfUserOn
    <3>3. OfUser(r)
      BY <2>1, <2>5, <3>2
    <3>4. QED  BY <2>3, <3>3 DEF User
  <2>9. CASE k = Len(r)
    <3>1. <<r, None>> \in DriveOn(t)
      BY <2>4, <2>8 DEF DriveOn
    <3>2. QED  BY <2>6, <2>7, <2>9, <3>1
  <2>10. CASE k # Len(r)
    <3>1. k \in 1 .. Len(r) - 1
      BY <2>5, <2>7, <2>10
    <3>2. <<SubSeq(r, 1, k), None>> \in DriveOn(t)
      BY <1>2, <2>3, <2>4, <2>8, <3>1
    <3>3. QED  BY <2>7, <3>2
  <2>11. QED  BY <2>9, <2>10
<1> HIDE DEF S
<1>3. D \subseteq S
  BY <1>1, <1>2, StrongInduction
<1>4. QED  BY <1>1, <1>3 DEF S

\* What the user's nodes are.
Kept(t) == \A i \in User(t) : PathOf(t)[i] \in Paths /\ t[i].content # Local

\* The user's things have one place each, in directories of his.
LEMMA OneMap ==
  ASSUME NEW t \in Trees, Marked(t), Sole(t), Kept(t)
  PROVE  Mapped(DriveOn(t))
<1>1. \A f \in DriveOn(t) : \E i \in User(t) : f = <<PathOf(t)[i], t[i].content>>
  BY DEF DriveOn
<1>2. ASSUME NEW f \in DriveOn(t)
      PROVE  /\ OfUser(f[1]) /\ f[1] \in Paths /\ f[2] # Local
             /\ \A k \in 1 .. Len(f[1]) - 1 : <<SubSeq(f[1], 1, k), None>> \in DriveOn(t)
  <2>1. PICK i \in User(t) : f = <<PathOf(t)[i], t[i].content>>
    BY <1>1
  <2>2. OfUser(PathOf(t)[i]) /\ f[1] = PathOf(t)[i] /\ f[2] = t[i].content
    BY <2>1 DEF User
  <2>3. QED  BY <2>2, Ancestors DEF Kept
<1>3. ASSUME NEW f \in DriveOn(t), NEW g \in DriveOn(t), f[1] = g[1]
      PROVE  f = g
  <2>1. PICK i \in User(t) : f = <<PathOf(t)[i], t[i].content>>
    BY <1>1
  <2>2. PICK j \in User(t) : g = <<PathOf(t)[j], t[j].content>>
    BY <1>1
  <2>3. QED  BY <1>3, <2>1, <2>2 DEF Sole
<1>4. QED  BY <1>2, <1>3 DEF Mapped

\* What is the user's is in the root or in a directory of his.
LEMMA UserParent ==
  ASSUME NEW t \in Trees, NEW i \in User(t)
  PROVE  LET q == t[i].parent IN
         /\ i \in 2 .. Len(t) /\ q \in 1 .. Len(t) /\ q < i
         /\ i \in Range(t[q].children) /\ (q = Root \/ q \in User(t))
<1> DEFINE q == t[i].parent
           s == PathOf(t)[i]
           r == PathOf(t)[q]
<1>1. /\ i \in Linked(t) /\ OfUser(s) /\ i \in 1 .. Len(t) /\ Len(t) \in Nat
      /\ Linked(t) \subseteq 1 .. Len(t)
  BY LinkedIs, TreeParts DEF User
<1>2. i # Root /\ i \in 2 .. Len(t)
  <2>1. i # Root
    BY <1>1, EmptyPath DEF OfUser
  <2>2. QED  BY <1>1, <2>1 DEF Root
<1>3. q \in Linked(t) /\ i \in Range(t[q].children) /\ q \in 1 .. Len(t) /\ q < i
  BY <1>1, <1>2, LinkedIs, TreeParts
<1>4. s = Append(r, t[i].name) /\ r \in Seq(AllNames) /\ t[i].name \in AllNames
  BY <1>2, PathOn
<1>5. ASSUME q # Root
      PROVE  q \in User(t)
  <2>1. r # <<>>
    BY <1>3, <1>5, EmptyPath
  <2> HIDE DEF r
  <2>2. OfUser(r)
    BY <1>1, <1>4, <2>1, OfUserOn
  <2>3. QED  BY <1>3, <2>2 DEF User, r
<1>6. QED  BY <1>2, <1>3, <1>5

\* Whatever of the user's has a tag is published with it.
LEMMA TagsReach ==
  ASSUME NEW t \in Trees, Len(t) > 0, NEW i \in User(t)
  PROVE  Range(FirstTag(t, i)) \subseteq Range(PersistTags(t))
<1> DEFINE D == 1 .. Len(t)
<1>1. D \in SUBSET Nat /\ Len(t) \in Nat /\ Root \in D /\ User(t) \subseteq D
  BY TreeParts, LinkedIs DEF User, Root
<1>2. PICK below : Collects(t, below)
  BY TagsSteps
<1>3. \A j \in D : below[j] \in Seq(Tags) /\ FirstTag(t, j) \in Seq(Tags)
  <2>1. \A j \in D : FirstTag(t, j) \in Seq(Tags)
    BY FirstTagIs
  <2>2. \A j \in D : \A c \in Range(t[j].children) : c \in D
    BY ChildrenAre
  <2>3. D \in SUBSET (1 .. Len(t))
    OBVIOUS
  <2> HIDE DEF D
  <2>4. \A j \in D : below[j] \in Seq(Tags)
    BY <1>1, <1>2, <2>1, <2>2, <2>3, TagsBelow
  <2>5. QED  BY <2>1, <2>4
<1>4. ASSUME NEW j \in D
      PROVE  /\ Range(FirstTag(t, j)) \subseteq Range(below[j])
             /\ \A k \in 1 .. Len(Sub(t, j)) :
                  Range(below[Sub(t, j)[k]]) \subseteq Range(below[j])
  <2> DEFINE rest == [k \in 1 .. Len(Sub(t, j)) |-> below[Sub(t, j)[k]]]
  <2>1. Len(Sub(t, j)) \in Nat /\ \A k \in 1 .. Len(Sub(t, j)) : Sub(t, j)[k] \in D
    BY SubIs
  <2>2. /\ rest \in Seq(Seq(Tags)) /\ Len(rest) = Len(Sub(t, j))
        /\ \A k \in 1 .. Len(Sub(t, j)) : rest[k] = below[Sub(t, j)[k]]
    BY <1>3, <2>1
  <2>3. below[j] = FirstTag(t, j) \o FlattenSeq(rest)
    BY <1>2 DEF Collects
  <2> HIDE DEF rest
  <2>4. FlattenSeq(rest) \in Seq(Tags)
    BY <2>2, FlatType
  <2>5. /\ Range(FirstTag(t, j)) \subseteq Range(below[j])
        /\ Range(FlattenSeq(rest)) \subseteq Range(below[j])
    BY <1>3, <2>3, <2>4, BothRanges
  <2>6. \A k \in 1 .. Len(Sub(t, j)) : Range(rest[k]) \subseteq Range(FlattenSeq(rest))
    BY <2>2, FlatRange
  <2>7. QED  BY <2>2, <2>5, <2>6
<1> DEFINE S == {j \in D : j \in User(t) => Range(below[j]) \subseteq Range(below[Root])}
<1>5. ASSUME NEW j \in D, \A m \in D : m < j => m \in S
      PROVE  j \in S
  <2> SUFFICES ASSUME j \in User(t)
               PROVE  Range(below[j]) \subseteq Range(below[Root])
    OBVIOUS
  <2> DEFINE q == t[j].parent
  <2>1. /\ q \in D /\ q < j /\ j \in Range(t[q].children) /\ (q = Root \/ q \in User(t))
    BY UserParent
  <2>2. PathOf(t)[j][1] \notin Published
    BY DEF User, OfUser
  <2>3. \E k \in 1 .. Len(Sub(t, q)) : Sub(t, q)[k] = j
    <3>1. t[q].children \in Seq(Nat)
      BY <2>1, TreeParts
    <3>2. Sub(t, q) \in Seq(Nat) /\ j \in Range(Sub(t, q))
      <4> DEFINE C == {c \in Range(t[q].children) : PathOf(t)[c][1] \notin Published}
      <4>1. j \in C
        BY <2>1, <2>2
      <4> HIDE DEF C
      <4>2. /\ Only(t[q].children, C) \in Seq(Nat)
            /\ Range(Only(t[q].children, C)) = Range(t[q].children) \cap C
        BY <3>1, OnlyKeeps
      <4>3. Sub(t, q) = Only(t[q].children, C)
        BY DEF Sub, C
      <4>4. QED  BY <2>1, <4>1, <4>2, <4>3
    <3>3. QED  BY <3>2 DEF Range
  <2>4. Range(below[j]) \subseteq Range(below[q])
    BY <1>4, <2>1, <2>3
  <2>5. Range(below[q]) \subseteq Range(below[Root])
    BY <1>5, <2>1
  <2>6. QED  BY <2>4, <2>5
<1>6. D \subseteq S
  <2> HIDE DEF S, D
  <2> QED BY <1>1, <1>5, StrongInduction
<1>7. QED  BY <1>1, <1>2, <1>4, <1>6 DEF Collects
\* The user's part of published tags, and what makes tags be of a structure.
SavedBy(e) == {<<g.path, g.content>> : g \in {h \in Range(e) : OfUser(h.path)}}
Folders(e) ==
  \A g \in Range(e) : (g.tag = "folder" <=> g.content = None) /\ g.content # Static

\* What is published of the user's is all there is but what is not uploaded.
LEMMA Publishes ==
  ASSUME NEW t \in Trees, Len(t) > 0, Marked(t), Kept(t)
  PROVE  /\ Folders(PersistTags(t))
         /\ SavedBy(PersistTags(t)) = {f \in DriveOn(t) : f[2] # Static}
<1> DEFINE e == PersistTags(t)
           U == {g \in Tags : /\ g.tag = "folder" <=> g.content = None
                              /\ g.content # Static
                              /\ OfUser(g.path) => <<g.path, g.content>> \in DriveOn(t)}
           J == Linked(t)
           folder(i) == [tag |-> "folder", path |-> PathOf(t)[i], content |-> None]
           file(i) == [tag |-> "x", path |-> PathOf(t)[i], content |-> t[i].content]
           plain(i) == t[i].kind # "dir" /\ t[i].content \in {Static, Local}
           own(i) == IF t[i].kind = "dir" THEN folder(i) ELSE file(i)
<1>1. J \subseteq 1 .. Len(t) /\ Root \in J /\ User(t) \subseteq J
  BY LinkedIs, TreeParts DEF Root, User
<1>2. ASSUME NEW i \in J
      PROVE  FirstTag(t, i) = IF i = Root \/ plain(i) THEN <<>> ELSE <<own(i)>>
  BY DEF FirstTag, OwnTag
<1>3. ASSUME NEW i \in J, i # Root, ~plain(i)
      PROVE  own(i) \in U /\ own(i).path = PathOf(t)[i] /\ own(i).content = t[i].content
  <2>1. FirstTag(t, i) \in Seq(Tags) /\ i \in 1 .. Len(t)
    BY <1>1, FirstTagIs
  <2>2. FirstTag(t, i) = <<own(i)>>
    BY <1>2, <1>3
  <2>3. own(i) \in Tags
    <3> HIDE DEF own
    <3>1. <<own(i)>> \in Seq(Tags) /\ 1 \in 1 .. Len(<<own(i)>>) /\ <<own(i)>>[1] = own(i)
      BY <2>1, <2>2
    <3>2. QED  BY <3>1
  <2>4. t[i].kind = "dir" <=> t[i].content = None
    BY <2>1 DEF Marked
  <2>5. /\ own(i).path = PathOf(t)[i] /\ own(i).content = t[i].content
        /\ own(i).tag = "folder" <=> own(i).content = None
        /\ own(i).content # Static
    BY <1>3, <2>4 DEF Static, None
  <2>6. OfUser(PathOf(t)[i]) => <<PathOf(t)[i], t[i].content>> \in DriveOn(t)
    BY DEF DriveOn, User
  <2> HIDE DEF own
  <2>7. QED  BY <2>3, <2>5, <2>6
<1>4. e \in Seq(U)
  <2>1. \A i \in J : FirstTag(t, i) \in Seq(U)
    <3>1. \A i \in J : ~(i = Root \/ plain(i)) => own(i) \in U
      BY <1>3
    <3>2. ASSUME NEW i \in J
          PROVE  FirstTag(t, i) \in Seq(U)
      <4>1. FirstTag(t, i) = IF i = Root \/ plain(i) THEN <<>> ELSE <<own(i)>>
        BY <1>2
      <4> HIDE DEF U, own, plain
      <4>2. CASE i = Root \/ plain(i)
        BY <4>1, <4>2
      <4>3. CASE ~(i = Root \/ plain(i))
        BY <3>1, <4>1, <4>3
      <4>4. QED  BY <4>2, <4>3
    <3>3. QED  BY <3>2
  <2>2. \A i \in J : \A c \in Range(t[i].children) : c \in J
    BY <1>1, ChildrenAre, LinkedIs
  <2>3. J \in SUBSET (1 .. Len(t))
    BY <1>1
  <2> HIDE DEF U, J
  <2>4. QED  BY <1>1, <2>1, <2>2, <2>3, TagsFrom
<1>5. \A g \in Range(e) : g \in U
  <2> HIDE DEF U, e
  <2> QED BY <1>4 DEF Range
<1>6. Folders(e)
  BY <1>5 DEF Folders
<1>7. SavedBy(e) \subseteq {f \in DriveOn(t) : f[2] # Static}
  <2>1. ASSUME NEW g \in Range(e), OfUser(g.path)
        PROVE  <<g.path, g.content>> \in DriveOn(t) /\ g.content # Static
    BY <1>5, <2>1
  <2> HIDE DEF e
  <2>2. QED  BY <2>1 DEF SavedBy
<1>8. ASSUME NEW f \in DriveOn(t), f[2] # Static
      PROVE  f \in SavedBy(e)
  <2>1. PICK i \in User(t) : f = <<PathOf(t)[i], t[i].content>>
    BY DEF DriveOn
  <2>2. i \in J /\ i # Root /\ OfUser(PathOf(t)[i])
    BY <1>1, UserParent DEF User, Root
  <2>3. ~plain(i)
    BY <1>8, <2>1 DEF Kept
  <2>4. FirstTag(t, i) = <<own(i)>>
    BY <1>2, <2>2, <2>3
  <2>5. own(i).path = PathOf(t)[i] /\ own(i).content = t[i].content
    BY <1>3, <2>2, <2>3
  <2> HIDE DEF own, plain
  <2>6. own(i) \in Range(FirstTag(t, i))
    <3>1. 1 \in DOMAIN <<own(i)>> /\ <<own(i)>>[1] = own(i)
      OBVIOUS
    <3>2. QED  BY <2>4, <3>1 DEF Range
  <2>7. own(i) \in Range(e)
    BY <2>6, TagsReach
  <2> HIDE DEF e
  <2>8. QED  BY <2>1, <2>2, <2>5, <2>7 DEF SavedBy
<1>9. QED  BY <1>6, <1>7, <1>8
-----------------------------------------------------------------------------
(* Mounting, changing, unmounting and being killed (ServiceSafety).        *)

\* The published structure is one, and the mounted tree carries the user's
\* things in directories of his, with lazy directories and clones below /git.
DriveInv ==
  /\ Folders(event) /\ Mapped(SavedBy(event))
  /\ phase = "up" =>
       /\ Sole(tree) /\ Marked(tree) /\ Kept(tree)
       /\ cloning # 0 => cloning # Root /\ PathOf(tree)[cloning][1] = "git"

\* What the drive of DriveService stands for.
LEMMA DriveIs == DriveOf = DriveOn(tree) /\ SavedOf = SavedBy(event)
BY DEF DriveOf, DriveOn, User, SavedOf, SavedBy

\* And after a step.
LEMMA DriveNext == DriveOf' = DriveOn(tree') /\ SavedOf' = SavedBy(event')
BY DEF DriveOf, DriveOn, User, SavedOf, SavedBy

\* A step that DriveService does not see.
LEMMA Rests ==
  ASSUME phase = "up" <=> phase' = "up", phase = "up" => DriveOn(tree') = DriveOn(tree),
         SavedBy(event') = SavedBy(event)
  PROVE  [Drive!Next]_(Drive!vars)
<1>1. SavedOf' = SavedOf /\ (phase = "up" => DriveOf' = DriveOf)
  BY DriveIs, DriveNext
<1>2. UNCHANGED Drive!vars
  BY <1>1 DEF Drive!vars
<1>3. QED  BY <1>2

\* A mount begins.
LEMMA Starts ==
  ASSUME phase # "up", phase' = "up", DriveOn(tree') \in {SavedBy(event), {}},
         SavedBy(event') = SavedBy(event)
  PROVE  [Drive!Next]_(Drive!vars)
<1>1. SavedOf' = SavedOf /\ DriveOf' \in {SavedOf, {}}
  BY DriveIs, DriveNext
<1>2. Drive!Start
  BY <1>1 DEF Drive!Start
<1>3. QED  BY <1>2 DEF Drive!Next

\* A mount ends.
LEMMA Stops ==
  ASSUME phase = "up", phase' # "up",
         SavedBy(event') \in {SavedBy(event), {f \in DriveOn(tree) : f[2] # Static}}
  PROVE  [Drive!Next]_(Drive!vars)
<1>1. SavedOf' \in {SavedOf, {d \in DriveOf : d[2] # Static}}
  BY DriveIs, DriveNext
<1>2. Drive!Stop
  BY <1>1 DEF Drive!Stop
<1>3. QED  BY <1>2 DEF Drive!Next

\* Something is made, uploaded or removed at a path.
Altered(was, is, p) ==
  \/ \E c \in {None, Static} : (\A f \in was : f[1] # p) /\ is = was \union {<<p, c>>}
  \/ \E b \in Blobs : /\ <<p, Static>> \in was
                      /\ is = (was \ {<<p, Static>>}) \union {<<p, b>>}
  \/ is = {f \in was : f[1] # p}

\* One change.
LEMMA Alters ==
  ASSUME phase = "up", phase' = "up", SavedBy(event') = SavedBy(event),
         NEW p \in Paths, Altered(DriveOn(tree), DriveOn(tree'), p)
  PROVE  [Drive!Next]_(Drive!vars)
<1>1. SavedOf' = SavedOf /\ Altered(DriveOf, DriveOf', p)
  BY DriveIs, DriveNext
<1>2. DriveOf' \in Drive!Changed(DriveOf)
  <2> DEFINE was == DriveOf
             is  == DriveOf'
  <2>1. Altered(was, is, p)
    BY <1>1
  <2> HIDE DEF was, is
  <2>2. CASE \E c \in {None, Static} : (\A f \in was : f[1] # p) /\ is = was \union {<<p, c>>}
    <3>1. is \in Drive!Makes(was, p, None) \union Drive!Makes(was, p, Static)
      BY <2>2 DEF Drive!Makes
    <3>2. QED  BY <3>1 DEF Drive!Changed, was, is
  <2>3. CASE \E b \in Blobs : /\ <<p, Static>> \in was
                              /\ is = (was \ {<<p, Static>>}) \union {<<p, b>>}
    <3>1. PICK b \in Blobs : is \in Drive!Uploads(was, p, b)
      BY <2>3 DEF Drive!Uploads
    <3>2. QED  BY <3>1 DEF Drive!Changed, was, is
  <2>4. CASE is = {f \in was : f[1] # p}
    <3>1. is \in Drive!Removes(was, p)
      BY <2>4 DEF Drive!Removes
    <3>2. QED  BY <3>1 DEF Drive!Changed, was, is
  <2>5. QED  BY <2>1, <2>2, <2>3, <2>4 DEF Altered
<1>3. Drive!Change
  BY <1>1, <1>2 DEF Drive!Change
<1>4. QED  BY <1>3 DEF Drive!Next

\* A tree's things are where those of a structure are.
LEMMA KeptOf ==
  ASSUME NEW t, NEW F, DriveOn(t) \subseteq F,
         \A f \in F : f[1] \in Paths /\ f[2] # Local
  PROVE  Kept(t)
<1>1. ASSUME NEW i \in User(t)
      PROVE  PathOf(t)[i] \in Paths /\ t[i].content # Local
  <2> DEFINE f == <<PathOf(t)[i], t[i].content>>
  <2>1. f \in F
    BY DEF DriveOn
  <2>2. f[1] = PathOf(t)[i] /\ f[2] = t[i].content
    OBVIOUS
  <2>3. QED  BY <2>1, <2>2
<1>2. QED  BY <1>1 DEF Kept

\* And conversely.
LEMMA KeptThen ==
  ASSUME NEW t, Kept(t)
  PROVE  \A f \in DriveOn(t) : f[1] \in Paths /\ f[2] # Local
<1>1. \A f \in DriveOn(t) : \E i \in User(t) : f = <<PathOf(t)[i], t[i].content>>
  BY DEF DriveOn
<1>2. QED  BY <1>1 DEF Kept
\* Where the user makes things is a place for them.
LEMMA UserPath ==
  ASSUME tree \in Trees, Kept(tree), NEW d \in UserDirs, NEW n \in UserNames,
         OfUser(ChildPath(tree, d, n))
  PROVE  ChildPath(tree, d, n) \in Paths
<1> DEFINE s == PathOf(tree)[d]
           m == Len(s)
           p == Append(s, n)
<1>1. /\ d \in Linked(tree) /\ d \in 1 .. Len(tree) /\ m < MaxDepth
      /\ s \in Seq(AllNames) /\ m \in Nat /\ n \in AllNames /\ MaxDepth \in Nat
  <2>1. d \in Linked(tree) /\ m < MaxDepth
    BY DEF UserDirs
  <2>2. d \in 1 .. Len(tree)
    BY UserDirsAre
  <2>3. s \in Seq(AllNames) /\ m \in Nat
    BY <2>2, EmptyPath
  <2>4. QED  BY <2>1, <2>2, <2>3, NameAssumption, MountAssumption
<1>2. p = ChildPath(tree, d, n)
  BY DEF ChildPath
<1>3. \A i \in 1 .. m : s[i] \in UserNames
  <2>1. CASE s = <<>>
    BY <2>1
  <2>2. CASE s # <<>>
    <3>1. OfUser(s)
      <4> HIDE DEF s, m
      <4> QED BY <1>1, <1>2, <2>2, OfUserOn
    <3>2. s \in Paths
      BY <1>1, <3>1 DEF Kept, User
    <3> HIDE DEF s
    <3>3. PICK k \in 1 .. MaxDepth : s \in [1 .. k -> UserNames]
      BY <3>2 DEF Paths
    <3>4. m = k /\ k \in Nat
      BY <1>1, <3>3
    <3>5. QED  BY <3>3, <3>4
  <2>3. QED  BY <2>1, <2>2
<1>4. /\ p \in Seq(AllNames) /\ Len(p) = m + 1
      /\ \A i \in 1 .. m : p[i] = s[i]
      /\ p[m + 1] = n
  <2> HIDE DEF s
  <2> QED BY <1>1, OneName
<1> HIDE DEF s, p
<1>5. m + 1 \in 1 .. MaxDepth
  BY <1>1
<1>6. \A i \in 1 .. m + 1 : p[i] \in UserNames
  <2>1. \A i \in 1 .. m + 1 : i \in 1 .. m \/ i = m + 1
    BY <1>1
  <2>2. QED  BY <1>3, <1>4, <2>1
<1>7. p \in [1 .. m + 1 -> UserNames]
  <2>1. p \in Seq(UserNames)
    BY <1>1, <1>4, <1>6
  <2>2. QED  BY <1>4, <2>1
<1>8. QED  BY <1>2, <1>5, <1>7 DEF Paths

\* What is mounted.
LEMMA MountedIs ==
  ASSUME TypeInv, DriveInv, phase = "up"
  PROVE  /\ tree \in Trees /\ Len(tree) > 0 /\ Len(tree) \in Nat
         /\ DOMAIN tree = 1 .. Len(tree)
         /\ Folders(event) /\ Mapped(SavedBy(event))
         /\ Sole(tree) /\ Marked(tree) /\ Kept(tree)
         /\ cloning # 0 => cloning # Root /\ PathOf(tree)[cloning][1] = "git"
         /\ cloning \in {0} \union 1 .. Len(tree)
         /\ Bearing(tree, DriveOn(tree))
<1>1. tree \in Trees /\ Len(tree) > 0
  BY DEF TypeInv, TreeInv
<1>2. Len(tree) \in Nat /\ DOMAIN tree = 1 .. Len(tree)
  BY <1>1, TreeParts
<1>3. cloning \in {0} \union 1 .. Len(tree)
  BY <1>2 DEF TypeInv, TreeInv
<1>4. QED  BY <1>1, <1>2, <1>3 DEF DriveInv, Bearing

\* mkdir and create.
LEMMA MakeDrives ==
  ASSUME TypeInv, DriveInv, NEW d \in UserDirs, NEW n \in UserNames, Mkdir(d, n) \/ Create(d, n)
  PROVE  DriveInv' /\ [Drive!Next]_(Drive!vars)
<1>1. PICK x \in {Dir(d, n), File(d, n, Static)} :
        /\ phase = "up" /\ phase' = "up" /\ UNCHANGED <<cloning, event>>
        /\ Lookup(tree, d, n) = 0 /\ tree' = Add(tree, x)
  BY DEF Mkdir, Create, UserOp, AddDirectory, AddFileToDir
<1>2. /\ tree \in Trees /\ Len(tree) > 0 /\ Len(tree) \in Nat
      /\ Folders(event) /\ Mapped(SavedBy(event))
      /\ Sole(tree) /\ Marked(tree) /\ Kept(tree)
      /\ cloning # 0 => cloning # Root /\ PathOf(tree)[cloning][1] = "git"
      /\ cloning \in {0} \union 1 .. Len(tree)
  BY <1>1, MountedIs
<1>3. d \in Linked(tree) /\ d \in 1 .. Len(tree) /\ IsDir(tree, d) /\ tree[d].kind = "dir"
  BY <1>2, UserDirsAre DEF UserDirs, IsDir
<1>4. n \in AllNames /\ San[n] = n
  BY NameAssumption, UserAssumption
<1>5. /\ x \in Fresh /\ x.parent = d /\ ~x.lazy /\ x.name = n
      /\ x.kind = "dir" <=> x.content = None
      /\ x.content \in {None, Static}
  <2>1. d \in Nat /\ Static \in Contents
    BY <1>2, <1>3 DEF Contents
  <2>2. /\ Dir(d, n) \in Fresh /\ Dir(d, n).parent = d
        /\ File(d, n, Static) \in Fresh /\ File(d, n, Static).parent = d
    BY <1>4, <2>1, NewNodes
  <2>3. CASE x = Dir(d, n)
    <3>1. ~x.lazy /\ x.name = n /\ x.kind = "dir" /\ x.content = None
      BY <2>3 DEF Dir
    <3>2. QED  BY <2>2, <2>3, <3>1
  <2>4. CASE x = File(d, n, Static)
    <3>1. ~x.lazy /\ x.name = n /\ x.kind = "file" /\ x.content = Static /\ Static # None
      BY <2>4 DEF File, Static, None
    <3>2. QED  BY <2>2, <2>4, <3>1
  <2>5. QED  BY <2>3, <2>4
<1> DEFINE p == ChildPath(tree, d, n)
           v == tree'
<1>6. /\ v \in Trees /\ Len(v) = Len(tree) + 1
      /\ PathOf(v)[Len(tree) + 1] = p
      /\ \A i \in 0 .. Len(tree) : PathOf(v)[i] = PathOf(tree)[i]
  <2>1. x.parent \in 0 .. Len(tree) /\ x.parent <= Len(tree)
    BY <1>2, <1>3, <1>5
  <2>2. v \in Trees /\ Len(v) = Len(tree) + 1
    BY <1>1, <1>2, <1>5, <2>1, AddGrows
  <2>3. /\ \A i \in 0 .. Len(tree) : PathOf(v)[i] = PathOf(tree)[i]
        /\ PathOf(v)[Len(tree) + 1] = Append(PathOf(tree)[x.parent], San[x.name])
    BY <1>1, <1>2, <1>5, <2>1, AddPath
  <2>4. QED  BY <1>4, <1>5, <2>2, <2>3 DEF ChildPath
<1>7. /\ Sole(v)
      /\ DriveOn(v) = DriveOn(tree) \union {f \in {<<p, x.content>>} : OfUser(p)}
      /\ OfUser(p) => \A f \in DriveOn(tree) : f[1] # p
  <2>1. x.parent \in 1 .. Len(tree) /\ Lookup(tree, x.parent, San[x.name]) = 0
    BY <1>1, <1>3, <1>4, <1>5
  <2> HIDE DEF p
  <2>2. LET q     == PathOf(v)[Len(tree) + 1]
            there == x.parent \in Linked(tree) /\ tree[x.parent].kind = "dir" /\ OfUser(q)
        IN
        /\ Sole(v)
        /\ DriveOn(v) = DriveOn(tree) \union {f \in {<<q, x.content>>} : there}
        /\ there => \A f \in DriveOn(tree) : f[1] # q
    BY <1>1, <1>2, <1>5, <2>1, AddDrive
  <2>3. QED  BY <1>3, <1>5, <1>6, <2>2
<1>8. Marked(v)
  BY <1>1, <1>2, <1>3, <1>5, AddMarked
<1>9. OfUser(p) => p \in Paths
  BY <1>2, UserPath
<1>10. Kept(v)
  <2>1. ASSUME NEW f \in DriveOn(v)
        PROVE  f[1] \in Paths /\ f[2] # Local
    <3>1. CASE f \in DriveOn(tree)
      BY <1>2, <3>1, KeptThen
    <3>2. CASE f = <<p, x.content>> /\ OfUser(p)
      <4>1. x.content # Local
        BY <1>5 DEF None, Static, Local
      <4> HIDE DEF p
      <4>2. QED  BY <1>9, <3>2, <4>1
    <3> HIDE DEF p, v
    <3>3. QED  BY <1>7, <3>1, <3>2
  <2>2. QED  BY <2>1, KeptOf
<1>11. cloning # 0 => PathOf(v)[cloning] = PathOf(tree)[cloning]
  BY <1>2, <1>6
<1>12. DriveInv'
  <2>1. Folders(event') /\ Mapped(SavedBy(event')) /\ phase' = "up" /\ cloning' = cloning
    BY <1>1, <1>2
  <2>2. Sole(tree') /\ Marked(tree') /\ Kept(tree')
    BY <1>7, <1>8, <1>10
  <2>3. cloning' # 0 => cloning' # Root /\ PathOf(tree')[cloning'][1] = "git"
    BY <1>2, <1>11, <2>1
  <2>4. QED  BY <2>1, <2>2, <2>3 DEF DriveInv
<1>13. SavedBy(event') = SavedBy(event)
  BY <1>1
<1>14. [Drive!Next]_(Drive!vars)
  <2>1. CASE OfUser(p)
    <3>1. Altered(DriveOn(tree), DriveOn(v), p)
      <4>1. DriveOn(v) = DriveOn(tree) \union {<<p, x.content>>}
        <5> HIDE DEF p, v
        <5> QED BY <1>7, <2>1
      <4> HIDE DEF p, v
      <4>2. QED  BY <1>5, <1>7, <2>1, <4>1 DEF Altered
    <3>2. p \in Paths
      BY <1>9, <2>1
    <3> HIDE DEF p
    <3>3. QED  BY <1>1, <1>13, <3>1, <3>2, Alters
  <2>2. CASE ~OfUser(p)
    <3>1. DriveOn(v) = DriveOn(tree)
      <4> HIDE DEF p, v
      <4> QED BY <1>7, <2>2
    <3>2. QED  BY <1>1, <1>13, <3>1, Rests
  <2>3. QED  BY <2>1, <2>2
<1>15. QED  BY <1>12, <1>14
\* do_upload.
LEMMA UploadDrives ==
  ASSUME TypeInv, DriveInv, NEW i \in DOMAIN tree, NEW b \in Blobs, Uploaded(i, b)
  PROVE  DriveInv' /\ [Drive!Next]_(Drive!vars)
<1>1. /\ phase = "up" /\ phase' = "up" /\ UNCHANGED <<cloning, event>>
      /\ tree[i].kind = "file" /\ tree[i].content = Static
      /\ tree' = SetContent(tree, i, b)
  BY DEF Uploaded, IsFile
<1>2. /\ tree \in Trees /\ Len(tree) > 0 /\ Len(tree) \in Nat /\ i \in 1 .. Len(tree)
      /\ Folders(event) /\ Mapped(SavedBy(event))
      /\ Sole(tree) /\ Marked(tree) /\ Kept(tree)
      /\ cloning # 0 => cloning # Root /\ PathOf(tree)[cloning][1] = "git"
      /\ cloning \in {0} \union 1 .. Len(tree)
  BY <1>1, MountedIs
<1>3. b \notin {Static, Local, None} /\ b \in Contents
  BY BlobAssumption DEF Contents
<1> DEFINE v == tree'
           p == PathOf(tree)[i]
<1>4. /\ v \in Trees /\ Len(v) = Len(tree)
      /\ \A j \in 1 .. Len(tree) :
           /\ v[j].kind = tree[j].kind /\ v[j].children = tree[j].children
           /\ v[j].parent = tree[j].parent /\ v[j].name = tree[j].name
           /\ v[j].lazy = tree[j].lazy
           /\ v[j].content = IF j = i THEN b ELSE tree[j].content
  <2>1. v \in Trees /\ Len(v) = Len(tree)
    <3>1. Keeps(tree, SetContent(tree, i, b)) /\ SameLists(tree, SetContent(tree, i, b))
      BY <1>2, <1>3, MarkKeeps
    <3>2. Keeps(tree, v) /\ SameLists(tree, v)
      BY <1>1, <3>1
    <3> HIDE DEF v
    <3>3. QED  BY <3>2 DEF Keeps, SameLists
  <2> DEFINE y == [tree[i] EXCEPT !.content = b]
  <2>2. v = [tree EXCEPT ![i] = y]
    BY <1>1 DEF SetContent
  <2>3. tree \in Seq(Nodes) /\ tree[i] \in Nodes
    BY <1>2, TreeParts
  <2>4. /\ y.kind = tree[i].kind /\ y.children = tree[i].children
        /\ y.parent = tree[i].parent /\ y.name = tree[i].name
        /\ y.lazy = tree[i].lazy /\ y.content = b
    BY <2>3 DEF Nodes
  <2> HIDE DEF y
  <2>5. \A j \in 1 .. Len(tree) : v[j] = IF j = i THEN y ELSE tree[j]
    BY <1>2, <2>2, <2>3
  <2> HIDE DEF v
  <2>6. QED  BY <2>1, <2>4, <2>5
<1>5. /\ Sole(v) /\ User(v) = User(tree)
      /\ \A j \in 1 .. Len(tree) : PathOf(v)[j] = PathOf(tree)[j]
  <2> HIDE DEF v
  <2> QED BY <1>2, <1>4, TouchDrive
<1> HIDE DEF v, p
<1>6. Marked(v)
  <2>1. Root \in 1 .. Len(tree)
    BY <1>2 DEF Root
  <2>2. \A j \in 1 .. Len(tree) : v[j].content = None <=> tree[j].content = None
    BY <1>1, <1>2, <1>3, <1>4 DEF None, Static
  <2>3. QED  BY <1>2, <1>4, <1>5, <2>1, <2>2 DEF Marked
<1>7. Kept(v)
  <2>1. ASSUME NEW j \in User(v)
        PROVE  PathOf(v)[j] \in Paths /\ v[j].content # Local
    <3>1. j \in User(tree) /\ j \in 1 .. Len(tree)
      BY <1>2, <1>5, LinkedIs DEF User
    <3>2. PathOf(tree)[j] \in Paths /\ tree[j].content # Local
      BY <1>2, <3>1 DEF Kept
    <3>3. QED  BY <1>3, <1>4, <1>5, <3>1, <3>2
  <2>2. QED  BY <2>1 DEF Kept
<1>8. DriveInv'
  <2>1. cloning' # 0 => cloning' # Root /\ PathOf(v)[cloning'][1] = "git"
    BY <1>1, <1>2, <1>5
  <2>2. QED  BY <1>1, <1>2, <1>5, <1>6, <1>7, <2>1 DEF DriveInv, v
<1>9. User(tree) \subseteq 1 .. Len(tree)
  BY <1>2, LinkedIs DEF User
<1>10. CASE i \in User(tree)
  <2>1. OfUser(p) /\ p \in Paths
    BY <1>2, <1>10 DEF User, Kept, p
  <2>2. <<p, Static>> \in DriveOn(tree)
    BY <1>1, <1>10 DEF DriveOn, p
  <2>3. \A j \in User(tree) : j # i => PathOf(tree)[j] # p
    BY <1>2, <1>10 DEF Sole, p
  <2>4. DriveOn(v) = (DriveOn(tree) \ {<<p, Static>>}) \union {<<p, b>>}
    <3> DEFINE R == (DriveOn(tree) \ {<<p, Static>>}) \union {<<p, b>>}
    <3>1. ASSUME NEW j \in User(tree)
          PROVE  <<PathOf(v)[j], v[j].content>> \in R
      <4>1. PathOf(v)[j] = PathOf(tree)[j]
            /\ v[j].content = IF j = i THEN b ELSE tree[j].content
        BY <1>4, <1>5, <1>9
      <4>2. CASE j = i
        BY <4>1, <4>2 DEF p
      <4>3. CASE j # i
        <5>1. <<PathOf(tree)[j], tree[j].content>> \in DriveOn(tree)
          BY DEF DriveOn
        <5>2. <<PathOf(tree)[j], tree[j].content>> # <<p, Static>>
          BY <2>3, <4>3
        <5>3. QED  BY <4>1, <4>3, <5>1, <5>2
      <4>4. QED  BY <4>2, <4>3
    <3>2. ASSUME NEW f \in R
          PROVE  f \in DriveOn(v)
      <4>1. CASE f = <<p, b>>
        BY <1>4, <1>5, <1>9, <1>10, <4>1 DEF DriveOn, p
      <4>2. CASE f \in DriveOn(tree) /\ f # <<p, Static>>
        <5>1. PICK j \in User(tree) : f = <<PathOf(tree)[j], tree[j].content>>
          BY <4>2 DEF DriveOn
        <5>2. j # i
          BY <1>1, <4>2, <5>1 DEF p
        <5>3. PathOf(v)[j] = PathOf(tree)[j] /\ v[j].content = tree[j].content
          BY <1>4, <1>5, <1>9, <5>2
        <5>4. QED  BY <1>5, <5>1, <5>3 DEF DriveOn
      <4>3. QED  BY <4>1, <4>2
    <3>3. ASSUME NEW f \in DriveOn(v)
          PROVE  f \in R
      <4>1. PICK j \in User(tree) : f = <<PathOf(v)[j], v[j].content>>
        BY <1>5 DEF DriveOn
      <4> HIDE DEF R
      <4>2. QED  BY <3>1, <4>1
    <3> HIDE DEF R
    <3>4. DriveOn(v) = R
      BY <3>2, <3>3
    <3>5. QED  BY <3>4 DEF R
  <2>5. Altered(DriveOn(tree), DriveOn(tree'), p)
    BY <2>2, <2>4 DEF Altered, v
  <2>6. SavedBy(event') = SavedBy(event)
    BY <1>1
  <2>7. [Drive!Next]_(Drive!vars)
    BY <1>1, <2>1, <2>5, <2>6, Alters
  <2>8. QED  BY <1>8, <2>7
<1>11. CASE i \notin User(tree)
  <2>1. \A j \in User(tree) : PathOf(v)[j] = PathOf(tree)[j] /\ v[j].content = tree[j].content
    BY <1>4, <1>5, <1>9, <1>11
  <2>2. DriveOn(v) = DriveOn(tree)
    BY <1>5, <2>1 DEF DriveOn
  <2>3. SavedBy(event') = SavedBy(event) /\ DriveOn(tree') = DriveOn(tree)
    BY <1>1, <2>2 DEF v
  <2>4. [Drive!Next]_(Drive!vars)
    BY <1>1, <2>3, Rests
  <2>5. QED  BY <1>8, <2>4
<1>12. QED  BY <1>10, <1>11

\* unlink and rmdir.
LEMMA RemoveDrives ==
  ASSUME TypeInv, DriveInv, NEW d \in UserDirs, NEW n \in UserNames, Unlink(d, n) \/ Rmdir(d, n)
  PROVE  DriveInv' /\ [Drive!Next]_(Drive!vars)
<1> DEFINE i == Lookup(tree, d, n)
           p == PathOf(tree)[i]
           v == tree'
<1>1. /\ phase = "up" /\ phase' = "up" /\ UNCHANGED <<cloning, event>>
      /\ IsFile(tree, i) \/ (IsDir(tree, i) /\ tree[i].children = <<>>)
      /\ v = Drop(tree, d, i)
  BY DEF Unlink, Rmdir, UserOp
<1>2. /\ tree \in Trees /\ Len(tree) > 0 /\ Len(tree) \in Nat /\ DOMAIN tree = 1 .. Len(tree)
      /\ Folders(event) /\ Mapped(SavedBy(event))
      /\ Sole(tree) /\ Marked(tree) /\ Kept(tree)
      /\ cloning # 0 => cloning # Root /\ PathOf(tree)[cloning][1] = "git"
      /\ cloning \in {0} \union 1 .. Len(tree)
  BY <1>1, MountedIs
<1>3. d \in Linked(tree)
  BY DEF UserDirs
<1> HIDE DEF i, v
<1>4. i \in 1 .. Len(tree) /\ i # 0 /\ tree[i].children = <<>>
  <2>1. i \in 1 .. Len(tree)
    BY <1>1, <1>2 DEF IsFile, IsDir
  <2>2. IsFile(tree, i) => tree[i].children = <<>>
    BY <1>2, <2>1, TreeParts DEF IsFile
  <2>3. QED  BY <1>1, <2>1, <2>2
<1>5. /\ v \in Trees /\ Len(v) = Len(tree) /\ Sole(v)
      /\ i \in User(tree) <=> OfUser(p)
      /\ \A j \in 1 .. Len(tree) : /\ v[j].kind = tree[j].kind /\ v[j].content = tree[j].content
                                   /\ v[j].lazy = tree[j].lazy
                                   /\ PathOf(v)[j] = PathOf(tree)[j]
      /\ User(v) = User(tree) \ {i}
      /\ DriveOn(v) = IF OfUser(p) THEN {f \in DriveOn(tree) : f[1] # p}
                      ELSE DriveOn(tree)
  <2>1. i = Lookup(tree, d, n)
    BY DEF i
  <2>2. QED  BY <1>1, <1>2, <1>3, <1>4, <2>1, DropDrive DEF p
<1> HIDE DEF p
<1>6. Marked(v)
  <2>1. Root \in 1 .. Len(tree)
    BY <1>2 DEF Root
  <2>2. QED  BY <1>2, <1>5, <2>1 DEF Marked
<1>7. DriveOn(v) \subseteq DriveOn(tree)
  BY <1>5
<1>8. Kept(v)
  <2>1. \A f \in DriveOn(tree) : f[1] \in Paths /\ f[2] # Local
    BY <1>2, KeptThen
  <2>2. QED  BY <1>7, <2>1, KeptOf
<1>9. DriveInv'
  <2>1. cloning' # 0 => cloning' # Root /\ PathOf(v)[cloning'][1] = "git"
    BY <1>1, <1>2, <1>5
  <2>2. QED  BY <1>1, <1>2, <1>5, <1>6, <1>8, <2>1 DEF DriveInv, v
<1>10. SavedBy(event') = SavedBy(event)
  BY <1>1
<1>11. CASE OfUser(p)
  <2>1. p \in Paths
    BY <1>2, <1>5, <1>11 DEF Kept, p
  <2>2. Altered(DriveOn(tree), DriveOn(tree'), p)
    BY <1>5, <1>11 DEF Altered, v
  <2>3. [Drive!Next]_(Drive!vars)
    BY <1>1, <1>10, <2>1, <2>2, Alters
  <2>4. QED  BY <1>9, <2>3
<1>12. CASE ~OfUser(p)
  <2>1. DriveOn(tree') = DriveOn(tree)
    BY <1>5, <1>12 DEF v
  <2>2. [Drive!Next]_(Drive!vars)
    BY <1>1, <1>10, <2>1, Rests
  <2>3. QED  BY <1>9, <2>2
<1>13. QED  BY <1>11, <1>12
\* The mark of a lazy directory is taken.
LEMMA LazyDrives ==
  ASSUME TypeInv, DriveInv, NEW d \in DOMAIN tree, TakeLazy(d)
  PROVE  DriveInv' /\ [Drive!Next]_(Drive!vars)
<1> DEFINE v == tree'
           y == [tree[d] EXCEPT !.lazy = FALSE]
<1>1. /\ phase = "up" /\ phase' = "up" /\ event' = event /\ cloning' = d /\ tree[d].lazy
      /\ v = [tree EXCEPT ![d] = y]
  BY DEF TakeLazy
<1>2. /\ tree \in Trees /\ Len(tree) > 0 /\ Len(tree) \in Nat /\ d \in 1 .. Len(tree)
      /\ Folders(event) /\ Mapped(SavedBy(event))
      /\ Sole(tree) /\ Marked(tree) /\ Kept(tree)
  BY <1>1, MountedIs
<1>3. /\ v \in Trees /\ Len(v) = Len(tree)
      /\ \A j \in 1 .. Len(tree) :
           /\ v[j].kind = tree[j].kind /\ v[j].children = tree[j].children
           /\ v[j].parent = tree[j].parent /\ v[j].name = tree[j].name
           /\ v[j].content = tree[j].content
           /\ v[j].lazy => tree[j].lazy
  <2>1. v \in Trees /\ Len(v) = Len(tree)
    <3>1. None \in Contents /\ v = [tree EXCEPT ![d].lazy = FALSE]
      BY <1>1, Words
    <3>2. Keeps(tree, v) /\ SameLists(tree, v)
      BY <1>2, <3>1, MarkKeeps
    <3> HIDE DEF v
    <3>3. QED  BY <3>2 DEF Keeps, SameLists
  <2>2. tree \in Seq(Nodes) /\ tree[d] \in Nodes
    BY <1>2, TreeParts
  <2>3. /\ y.kind = tree[d].kind /\ y.children = tree[d].children
        /\ y.parent = tree[d].parent /\ y.name = tree[d].name
        /\ ~y.lazy /\ y.content = tree[d].content
    BY <2>2 DEF Nodes
  <2> HIDE DEF y
  <2>4. \A j \in 1 .. Len(tree) : v[j] = IF j = d THEN y ELSE tree[j]
    BY <1>1, <1>2, <2>2
  <2> HIDE DEF v
  <2>5. QED  BY <2>1, <2>3, <2>4
<1> HIDE DEF v, y
<1>4. /\ Sole(v) /\ User(v) = User(tree)
      /\ \A j \in 1 .. Len(tree) : PathOf(v)[j] = PathOf(tree)[j]
  BY <1>2, <1>3, TouchDrive
<1>5. User(tree) \subseteq 1 .. Len(tree)
  BY <1>2, LinkedIs DEF User
<1>6. DriveOn(v) = DriveOn(tree)
  <2>1. \A j \in User(tree) : PathOf(v)[j] = PathOf(tree)[j] /\ v[j].content = tree[j].content
    BY <1>3, <1>4, <1>5
  <2>2. QED  BY <1>4, <2>1 DEF DriveOn
<1>7. Marked(v)
  <2>1. Root \in 1 .. Len(tree)
    BY <1>2 DEF Root
  <2>2. QED  BY <1>2, <1>3, <1>4, <2>1 DEF Marked
<1>8. Kept(v)
  BY <1>2, <1>6, KeptThen, KeptOf
<1>9. d # Root /\ PathOf(v)[d][1] = "git"
  BY <1>1, <1>2, <1>4 DEF Marked
<1>10. DriveInv'
  BY <1>1, <1>2, <1>4, <1>7, <1>8, <1>9 DEF DriveInv, v
<1>11. SavedBy(event') = SavedBy(event) /\ DriveOn(tree') = DriveOn(tree)
  BY <1>1, <1>6 DEF v
<1>12. [Drive!Next]_(Drive!vars)
  BY <1>1, <1>11, Rests
<1>13. QED  BY <1>10, <1>12

\* A clone ends, or fails.
LEMMA CloneDrives ==
  ASSUME TypeInv, DriveInv, Cloned \/ CloneFails
  PROVE  DriveInv' /\ [Drive!Next]_(Drive!vars)
<1>1. /\ phase' = phase /\ event' = event /\ cloning' = 0 /\ cloning # 0
      /\ tree' \in {tree, WalkRepo(tree, cloning),
                    AddStaticFile(tree, cloning, "CLONE_FAILED.txt")}
  BY DEF Cloned, CloneFails
<1>2. phase = "up"
  BY <1>1 DEF TypeInv, TreeInv
<1>3. /\ tree \in Trees /\ Len(tree) \in Nat /\ cloning \in 2 .. Len(tree)
      /\ Folders(event) /\ Mapped(SavedBy(event)) /\ Kept(tree)
      /\ cloning \in 1 .. Len(tree) /\ PathOf(tree)[cloning][1] = "git"
      /\ Bearing(tree, DriveOn(tree))
  <2>1. /\ tree \in Trees /\ Len(tree) \in Nat
        /\ Folders(event) /\ Mapped(SavedBy(event)) /\ Kept(tree)
        /\ cloning \in 1 .. Len(tree) /\ PathOf(tree)[cloning][1] = "git" /\ cloning # Root
        /\ Bearing(tree, DriveOn(tree))
    BY <1>1, <1>2, MountedIs
  <2>2. cloning \in 2 .. Len(tree)
    BY <2>1 DEF Root
  <2>3. QED  BY <2>1, <2>2
<1> DEFINE F == DriveOn(tree)
           v == tree'
           x == File(cloning, "CLONE_FAILED.txt", Static)
<1>4. Bearing(v, F) /\ DriveOn(v) = F
  <2>1. CASE v = tree
    BY <1>3, <2>1
  <2>2. CASE v = WalkRepo(tree, cloning)
    BY <1>3, <2>2, WalkBears
  <2>3. CASE v = AddStaticFile(tree, cloning, "CLONE_FAILED.txt")
    <3>1. cloning \in Nat /\ "CLONE_FAILED.txt" \in AllNames /\ Static \in Contents
          /\ San["CLONE_FAILED.txt"] = "CLONE_FAILED.txt"
      BY <1>3, Words, CleanAssumption
    <3>2. x \in Fresh /\ x.parent = cloning
      BY <3>1, NewNodes
    <3>3. /\ x.kind = "file" /\ x.name = "CLONE_FAILED.txt" /\ ~x.lazy
          /\ x.content # None /\ v = Add(tree, x)
      BY <2>3 DEF File, Static, None, AddStaticFile
    <3> HIDE DEF x, v, F
    <3>4. ~OfUser(ChildPath(tree, cloning, "CLONE_FAILED.txt"))
      BY <1>3, <3>1, GitBelow
    <3>5. x.parent \in 1 .. Len(tree) /\ ~OfUser(ChildPath(tree, x.parent, San[x.name]))
      BY <1>3, <3>1, <3>2, <3>3, <3>4
    <3>6. Bearing(tree, F) /\ (x.kind = "dir" <=> x.content = None)
      BY <1>3, <3>3 DEF F
    <3>7. Bearing(v, F) /\ DriveOn(v) = DriveOn(tree)
      BY <3>2, <3>3, <3>5, <3>6, AddForeign
    <3>8. QED  BY <3>7 DEF F
  <2>4. QED  BY <1>1, <2>1, <2>2, <2>3
<1>5. Kept(v)
  BY <1>3, <1>4, KeptThen, KeptOf
<1>6. DriveInv'
  BY <1>1, <1>2, <1>3, <1>4, <1>5 DEF DriveInv, Bearing
<1>7. SavedBy(event') = SavedBy(event)
  BY <1>1
<1>8. [Drive!Next]_(Drive!vars)
  BY <1>1, <1>2, <1>4, <1>7, Rests
<1>9. QED  BY <1>6, <1>8

\* The tree is mounted, with what was published or without.
LEMMA MountDrives ==
  ASSUME TypeInv, RepoInv, DriveInv, MountUp
  PROVE  DriveInv' /\ [Drive!Next]_(Drive!vars)
<1>1. /\ phase # "up" /\ phase' = "up" /\ event' = event /\ cloning' = 0
      /\ tree' \in {ApplyPersisted(BuiltTree, event), BuiltTree}
  BY DEF MountUp, TypeInv, TreeInv
<1> DEFINE F == SavedBy(event)
           v == tree'
<1>2. /\ Folders(event) /\ Mapped(F) /\ event \in Seq(Tags)
      /\ \A h \in Range(event) : h.path \in Seq(Pure)
      /\ all \in Seq(Blobs)
  BY DEF DriveInv, TypeInv, ListInv, TreeInv, RepoInv
<1>3. Bearing(BuiltTree, {}) /\ DriveOn(BuiltTree) = {}
  BY <1>2, BuiltBears DEF Bearing
<1>4. Bearing(v, F) /\ DriveOn(v) \in {F, {}}
  <2>1. Bearing(BuiltTree, F)
    BY <1>3 DEF Bearing
  <2>2. CASE v = BuiltTree
    BY <1>3, <2>1, <2>2
  <2>3. CASE v = ApplyPersisted(BuiltTree, event)
    <3>1. \A g \in Range(event) : Fits(g, F)
      BY <1>2 DEF Fits, Folders, SavedBy
    <3> HIDE DEF F
    <3>2. /\ Bearing(v, F)
          /\ \A g \in Range(event) : OfUser(g.path) => <<g.path, g.content>> \in DriveOn(v)
      BY <1>2, <2>1, <2>3, <3>1, PersistedBears
    <3> HIDE DEF v
    <3>3. F \subseteq DriveOn(v)
      BY <3>2 DEF F, SavedBy
    <3>4. QED  BY <3>2, <3>3 DEF Bearing
  <2>4. QED  BY <1>1, <2>2, <2>3
<1>5. Kept(v)
  <2>1. \A f \in F : f[1] \in Paths /\ f[2] # Local
    BY <1>2 DEF Mapped
  <2> HIDE DEF F, v
  <2>2. QED  BY <1>4, <2>1, KeptOf DEF Bearing
<1>6. DriveInv'
  BY <1>1, <1>2, <1>4, <1>5 DEF DriveInv, Bearing
<1>7. SavedBy(event') = SavedBy(event)
  BY <1>1
<1>8. [Drive!Next]_(Drive!vars)
  BY <1>1, <1>4, <1>7, Starts
<1>9. QED  BY <1>6, <1>8

\* Unmounting publishes the structure, or fails to.
LEMMA UnmountDrives ==
  ASSUME TypeInv, DriveInv, Unmount
  PROVE  DriveInv' /\ [Drive!Next]_(Drive!vars)
<1>1. /\ phase = "up" /\ phase' = "down" /\ event' \in {PersistTags(tree), event}
  BY DEF Unmount, Down
<1>2. /\ tree \in Trees /\ Len(tree) > 0
      /\ Folders(event) /\ Mapped(SavedBy(event))
      /\ Sole(tree) /\ Marked(tree) /\ Kept(tree)
  BY <1>1, MountedIs
<1> DEFINE F == DriveOn(tree)
           G == {f \in F : f[2] # Static}
<1>3. Mapped(F)
  BY <1>2, OneMap
<1>4. Mapped(G)
  <2> HIDE DEF F
  <2>1. \A s : <<s, None>>[2] # Static
    BY DEF None, Static
  <2>2. ASSUME NEW f \in G, NEW k \in 1 .. Len(f[1]) - 1
        PROVE  <<SubSeq(f[1], 1, k), None>> \in G
    BY <1>3, <2>1 DEF Mapped
  <2>3. QED  BY <1>3, <2>2 DEF Mapped
<1>5. Folders(PersistTags(tree)) /\ SavedBy(PersistTags(tree)) = G
  BY <1>2, Publishes
<1> HIDE DEF F, G
<1>6. /\ Folders(event') /\ Mapped(SavedBy(event'))
      /\ SavedBy(event') \in {SavedBy(event), G}
  BY <1>1, <1>2, <1>4, <1>5
<1>7. DriveInv'
  BY <1>1, <1>6 DEF DriveInv
<1>8. phase' # "up"
  BY <1>1
<1>9. [Drive!Next]_(Drive!vars)
  BY <1>1, <1>6, <1>8, Stops DEF F, G
<1>10. QED  BY <1>7, <1>9

\* What leaves the tree and the tags alone.
LEMMA OthersDrive ==
  ASSUME DriveInv, event' = event,
         \/ phase' = phase /\ tree' = tree /\ cloning' = cloning
         \/ phase # "up" /\ phase' # "up"
         \/ phase = "up" /\ phase' # "up"
  PROVE  DriveInv' /\ [Drive!Next]_(Drive!vars)
<1>1. SavedBy(event') = SavedBy(event) /\ Folders(event') /\ Mapped(SavedBy(event'))
  BY DEF DriveInv
<1>2. CASE phase' = phase /\ tree' = tree /\ cloning' = cloning
  <2>1. DriveInv'
    BY <1>1, <1>2 DEF DriveInv
  <2>2. DriveOn(tree') = DriveOn(tree)
    BY <1>2
  <2>3. QED  BY <1>1, <1>2, <2>1, <2>2, Rests
<1>3. CASE phase # "up" /\ phase' # "up"
  <2>1. DriveInv'
    BY <1>1, <1>3 DEF DriveInv
  <2>2. QED  BY <1>1, <1>3, <2>1, Rests
<1>4. CASE phase = "up" /\ phase' # "up"
  <2>1. DriveInv'
    BY <1>1, <1>4 DEF DriveInv
  <2>2. QED  BY <1>1, <1>4, <2>1, Stops
<1>5. QED  BY <1>2, <1>3, <1>4

\* Every step of a mount is one of DriveService, or none.
LEMMA DriveSteps ==
  ASSUME TypeInv, RepoInv, DriveInv, Next
  PROVE  DriveInv' /\ [Drive!Next]_(Drive!vars)
<1>1. CASE StartMount \/ ListPage \/ ListFails \/ \E b \in Blobs : Arrives(b) \/ Vanishes(b)
  <2>1. event' = event /\ phase # "up" /\ phase' # "up"
    BY <1>1 DEF StartMount, ListPage, ListFails, Arrives, Vanishes, treeVars
  <2>2. QED  BY <2>1, OthersDrive
<1>2. CASE MountUp
  BY <1>2, MountDrives
<1>3. CASE Unmount
  BY <1>3, UnmountDrives
<1>4. CASE Kill
  <2>1. event' = event /\ phase' # "up"
    BY <1>4 DEF Kill, Down
  <2>2. QED  BY <2>1, OthersDrive
<1>5. CASE \E d \in DOMAIN tree : TakeLazy(d)
  BY <1>5, LazyDrives
<1>6. CASE Cloned \/ CloneFails
  BY <1>6, CloneDrives
<1>7. CASE \E d \in UserDirs : \E n \in UserNames : Mkdir(d, n) \/ Create(d, n)
  BY <1>7, MakeDrives
<1>8. CASE \E d \in UserDirs : \E n \in UserNames : Unlink(d, n) \/ Rmdir(d, n)
  BY <1>8, RemoveDrives
<1>9. CASE \E d \in UserDirs : Opendir(d)
  <2>1. event' = event /\ phase' = phase /\ tree' = tree /\ cloning' = cloning
    BY <1>9 DEF Opendir
  <2>2. QED  BY <2>1, OthersDrive
<1>10. CASE \E i \in DOMAIN tree, b \in Blobs : Uploaded(i, b)
  BY <1>10, UploadDrives
<1>11. CASE Readdir \/ Closedir
  <2>1. event' = event /\ phase' = phase /\ tree' = tree /\ cloning' = cloning
    BY <1>11 DEF Readdir, Closedir
  <2>2. QED  BY <2>1, OthersDrive
<1>12. QED  BY <1>1, <1>2, <1>3, <1>4, <1>5, <1>6, <1>7, <1>8, <1>9, <1>10, <1>11 DEF Next

\* In every state the user's things are his alone.
LEMMA DriveInvHolds == Spec => []DriveInv
<1>1. Init => DriveInv
  <2>1. SUFFICES ASSUME Init
                 PROVE  DriveInv
    OBVIOUS
  <2>2. phase # "up" /\ event = <<>>
    BY <2>1 DEF Init
  <2>3. Range(event) = {}
    <3>1. DOMAIN event = {}
      BY <2>2
    <3>2. QED  BY <3>1 DEF Range
  <2>4. SavedBy(event) = {}
    BY <2>3 DEF SavedBy
  <2>5. QED  BY <2>2, <2>3, <2>4 DEF DriveInv, Folders, Mapped
<1>2. TypeInv /\ RepoInv /\ DriveInv /\ [Next]_vars => DriveInv'
  <2>1. ASSUME DriveInv, UNCHANGED vars
        PROVE  DriveInv'
    <3>1. event' = event /\ phase' = phase /\ tree' = tree /\ cloning' = cloning
      BY <2>1 DEF vars, treeVars
    <3>2. QED  BY <2>1, <3>1, OthersDrive
  <2>2. QED  BY <2>1, DriveSteps
<1>3. QED  BY <1>1, <1>2, TypeInvHolds, RepoInvHolds, PTL DEF Spec

\* --persist: through mounts, clones, directory operations, uploads, unmounts and
\* kills, the user's directories and files are those DriveService promises.
THEOREM ServiceHolds == Spec => ServiceSafety
<1>1. Init => Drive!Init
  <2>1. SUFFICES ASSUME Init
                 PROVE  Drive!Init
    OBVIOUS
  <2>2. phase # "up" /\ event = <<>>
    BY <2>1 DEF Init
  <2>3. Range(event) = {}
    <3>1. DOMAIN event = {}
      BY <2>2
    <3>2. QED  BY <3>1 DEF Range
  <2>4. SavedOf = {}
    BY <2>3 DEF SavedOf
  <2>5. QED  BY <2>2, <2>4 DEF Drive!Init
<1>2. TypeInv /\ RepoInv /\ DriveInv /\ [Next]_vars => [Drive!Next]_(Drive!vars)
  <2>1. ASSUME DriveInv, UNCHANGED vars
        PROVE  [Drive!Next]_(Drive!vars)
    <3>1. event' = event /\ phase' = phase /\ tree' = tree /\ cloning' = cloning
      BY <2>1 DEF vars, treeVars
    <3>2. QED  BY <2>1, <3>1, OthersDrive
  <2>2. QED  BY <2>1, DriveSteps
<1>3. QED
  BY <1>1, <1>2, TypeInvHolds, RepoInvHolds, DriveInvHolds, PTL
     DEF Spec, ServiceSafety, Drive!Spec
=============================================================================
