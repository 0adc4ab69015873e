-------------------------- MODULE DashboardProofs --------------------------
(***************************************************************************)
(* Proofs about Dashboard and NixTree, for any requests, forms, services   *)
(* and users, and for any files that spread no set over several entries.   *)
(*                                                                         *)
(* The first half is about trees: what one edit of set_attrpath does to    *)
(* the bindings of a file, and then what the edits of a save do, one after *)
(* the other, when none binds a path at or above another's.  Both are      *)
(* inductions, over the depth of a node and over the number of edits; they *)
(* are carried by sets of numbers, and the function that Apply defines by  *)
(* recursion is only ever unfolded once.                                   *)
(*                                                                         *)
(* The second half is about the process.  A save spans several steps, and  *)
(* the operator's editor and other saves write the file in between, so the *)
(* invariant says what a save still knows at each of its steps: its edits  *)
(* are apart, its new file is the file it read with these edits, and both  *)
(* are of the file on disk as long as nobody else has written it.          *)
(***************************************************************************)
EXTENDS Dashboard, SequenceTheorems, WellFoundedInduction, TLAPS

(***************************************************************************)
(* Induction over the numbers.                                             *)
(***************************************************************************)

\* A set of numbers that is not empty has a least one.
LEMMA Least ==
  ASSUME NEW T \in SUBSET Nat, T # {}
  PROVE  \E x \in T : \A y \in T : x <= y
  <1>. DEFINE R == OpToRel(<, Nat)
  <1>1. IsWellFoundedOn(R, Nat)
    BY NatLessThanWellFounded
  <1>2. \A x, y \in Nat : x < y => <<x, y>> \in R
    BY DEF OpToRel
  <1>. HIDE DEF R
  <1>3. PICK x \in T : \A y \in T : ~(<<y, x>> \in R)
    BY <1>1, WFMin
  <1>4. \A y \in T : ~(y < x)
    BY <1>2, <1>3
  <1>5. \A y \in T : x <= y
    BY <1>4
  <1>. QED
    BY <1>5

\* Induction over the numbers, for a set instead of a predicate.
LEMMA SetInd ==
  ASSUME NEW S, 0 \in S, \A n \in Nat : n \in S => n + 1 \in S
  PROVE  Nat \subseteq S
  <1>. SUFFICES ASSUME ~(Nat \subseteq S) PROVE FALSE
    OBVIOUS
  <1>. DEFINE T == Nat \ S
  <1>1. PICK x \in T : \A y \in T : x <= y
    BY Least
  <1>2. x # 0 /\ x \in Nat /\ x - 1 \in Nat
    BY <1>1
  <1>3. x - 1 \in S
    BY <1>1, <1>2
  <1>4. (x - 1) + 1 \in S
    BY <1>2, <1>3
  <1>. QED
    BY <1>1, <1>2, <1>4

-----------------------------------------------------------------------------
(***************************************************************************)
(* Prefixes.                                                               *)
(***************************************************************************)

\* What a prefix is, element by element.
LEMMA PrefixIs ==
  ASSUME NEW S, NEW s \in Seq(S), NEW t \in Seq(S)
  PROVE  IsPrefix(s, t) <=> Len(s) <= Len(t) /\ \A i \in 1..Len(s) : s[i] = t[i]
  <1>1. Len(s) \in Nat /\ Len(t) \in Nat
    OBVIOUS
  <1>2. /\ SubSeq(s, 1, Len(s)) \in Seq(S) /\ Len(SubSeq(s, 1, Len(s))) = Len(s)
        /\ \A i \in 1..Len(s) : SubSeq(s, 1, Len(s))[i] = s[i]
    OBVIOUS
  <1>3. ASSUME Len(s) <= Len(t)
        PROVE  /\ SubSeq(t, 1, Len(s)) \in Seq(S) /\ Len(SubSeq(t, 1, Len(s))) = Len(s)
               /\ \A i \in 1..Len(s) : SubSeq(t, 1, Len(s))[i] = t[i]
    BY <1>1, <1>3
  <1>4. ASSUME Len(s) <= Len(t), \A i \in 1..Len(s) : s[i] = t[i]
        PROVE  SubSeq(s, 1, Len(s)) = SubSeq(t, 1, Len(s))
    <2>. DEFINE a == SubSeq(s, 1, Len(s))  b == SubSeq(t, 1, Len(s))
    <2>1. a \in Seq(S) /\ b \in Seq(S) /\ Len(a) = Len(b) /\ \A i \in 1..Len(a) : a[i] = b[i]
      BY <1>2, <1>3, <1>4
    <2>. HIDE DEF a, b
    <2>2. a = b
      BY <2>1, SeqEqual
    <2>. QED
      BY <2>2 DEF a, b
  <1>5. ASSUME Len(s) <= Len(t), SubSeq(s, 1, Len(s)) = SubSeq(t, 1, Len(s)), NEW i \in 1..Len(s)
        PROVE  s[i] = t[i]
    BY <1>2, <1>3, <1>5
  <1>. QED
    BY <1>4, <1>5 DEF IsPrefix

\* Prefixes are ordered, and two prefixes of one sequence are comparable.
LEMMA PrefixOrder ==
  ASSUME NEW S, NEW s \in Seq(S), NEW t \in Seq(S), NEW u \in Seq(S)
  PROVE  /\ IsPrefix(s, s)
         /\ IsPrefix(s, t) /\ IsPrefix(t, u) => IsPrefix(s, u)
         /\ IsPrefix(s, t) /\ IsPrefix(t, s) => s = t
         /\ IsPrefix(s, u) /\ IsPrefix(t, u) => IsPrefix(s, t) \/ IsPrefix(t, s)
         /\ IsPrefix(s, t) => Len(s) <= Len(t)
         /\ IsPrefix(s, t) /\ Len(s) = Len(t) => s = t
  <1>. DEFINE P(a, b) == Len(a) <= Len(b) /\ \A i \in 1..Len(a) : a[i] = b[i]
  <1>0. Len(s) \in Nat /\ Len(t) \in Nat /\ Len(u) \in Nat
    OBVIOUS
  <1>1. \A a, b \in Seq(S) : IsPrefix(a, b) <=> P(a, b)
    BY PrefixIs
  <1>2. P(s, s)
    BY <1>0
  <1>3. P(s, t) /\ P(t, u) => P(s, u)
    BY <1>0
  <1>4. P(s, t) /\ Len(s) = Len(t) => s = t
    BY SeqEqual
  <1>5. P(s, t) /\ P(t, s) => s = t
    BY <1>0, <1>4
  <1>6. P(s, u) /\ P(t, u) => P(s, t) \/ P(t, s)
    <2>1. CASE Len(s) <= Len(t)
      BY <1>0, <2>1
    <2>2. CASE Len(t) <= Len(s)
      BY <1>0, <2>2
    <2>. QED
      BY <1>0, <2>1, <2>2
  <1>. HIDE DEF P
  <1>7. P(s, t) => Len(s) <= Len(t)
    BY DEF P
  <1>. QED
    BY <1>1, <1>2, <1>3, <1>4, <1>5, <1>6, <1>7

\* The empty sequence is a prefix of all.
LEMMA EmptyPrefix ==
  ASSUME NEW S, NEW s \in Seq(S)
  PROVE  IsPrefix(<<>>, s) /\ (s # <<>> => ~IsPrefix(s, <<>>))
  <1>. DEFINE e == <<>>
  <1>1. e \in Seq(S) /\ Len(e) = 0 /\ Len(s) \in Nat /\ (s # e => Len(s) # 0)
    OBVIOUS
  <1>. HIDE DEF e
  <1>2. IsPrefix(e, s)
    <2>1. Len(e) <= Len(s) /\ \A i \in 1..Len(e) : e[i] = s[i]
      BY <1>1
    <2>. QED
      BY <1>1, <2>1, PrefixIs
  <1>3. s # e => ~IsPrefix(s, e)
    <2>1. s # e => ~(Len(s) <= Len(e))
      BY <1>1
    <2>. QED
      BY <1>1, <2>1 DEF IsPrefix
  <1>. QED
    BY <1>2, <1>3 DEF e

\* Cutting a sequence.
LEMMA Cut ==
  ASSUME NEW S, NEW s \in Seq(S), NEW k \in 0..Len(s)
  PROVE  /\ SubSeq(s, 1, k) \in Seq(S) /\ Len(SubSeq(s, 1, k)) = k
         /\ \A i \in 1..k : SubSeq(s, 1, k)[i] = s[i]
         /\ IsPrefix(SubSeq(s, 1, k), s)
         /\ k = Len(s) => SubSeq(s, 1, k) = s
  <1>. DEFINE c == SubSeq(s, 1, k)
  <1>1. c \in Seq(S) /\ Len(c) = k /\ (\A i \in 1..k : c[i] = s[i]) /\ Len(s) \in Nat /\ k <= Len(s)
    OBVIOUS
  <1>. HIDE DEF c
  <1>2. IsPrefix(c, s)
    BY <1>1, PrefixIs
  <1>3. k = Len(s) => c = s
    BY <1>1, SeqEqual
  <1>. QED
    BY <1>1, <1>2, <1>3 DEF c

\* All but the last element.
LEMMA FrontIs ==
  ASSUME NEW S, NEW s \in Seq(S), s # <<>>
  PROVE  /\ Len(s) \in Nat \ {0}
         /\ Front(s) = SubSeq(s, 1, Len(s) - 1)
         /\ Front(s) \in Seq(S) /\ Len(Front(s)) = Len(s) - 1
         /\ \A i \in 1..(Len(s) - 1) : Front(s)[i] = s[i]
         /\ Last(s) = s[Len(s)] /\ Last(s) \in S
         /\ s = Append(Front(s), Last(s))
         /\ IsStrictPrefix(Front(s), s)
  <1>1. Len(s) \in Nat \ {0}
    OBVIOUS
  <1>2. Front(s) = SubSeq(s, 1, Len(s) - 1) /\ Last(s) = s[Len(s)]
    BY DEF Front, Last
  <1>3. /\ Front(s) \in Seq(S) /\ Len(Front(s)) = Len(s) - 1
        /\ \A i \in 1..(Len(s) - 1) : Front(s)[i] = s[i]
        /\ IsPrefix(Front(s), s)
    <2>. DEFINE m == Len(s) - 1
    <2>1. m \in 0..Len(s)
      BY <1>1
    <2>. HIDE DEF m
    <2>2. /\ SubSeq(s, 1, m) \in Seq(S) /\ Len(SubSeq(s, 1, m)) = m
          /\ \A i \in 1..m : SubSeq(s, 1, m)[i] = s[i]
          /\ IsPrefix(SubSeq(s, 1, m), s)
      BY <2>1, Cut
    <2>. QED
      BY <1>2, <2>2 DEF m
  <1>4. Last(s) \in S
    BY <1>1, <1>2
  <1>. DEFINE f == Front(s)  l == Last(s)
  <1>5. f \in Seq(S) /\ l \in S /\ Len(f) = Len(s) - 1 /\ l = s[Len(s)]
        /\ \A i \in 1..(Len(s) - 1) : f[i] = s[i]
    BY <1>2, <1>3, <1>4
  <1>. HIDE DEF f, l
  <1>6. s = Append(f, l)
    <2>. DEFINE a == Append(f, l)
    <2>1. a \in Seq(S) /\ Len(a) = Len(s)
      BY <1>1, <1>5
    <2>2. ASSUME NEW i \in 1..Len(s) PROVE s[i] = a[i]
      BY <1>1, <1>5
    <2>. HIDE DEF a
    <2>3. s = a
      BY <2>1, <2>2, SeqEqual
    <2>. QED
      BY <2>3 DEF a
  <1>7. f # s
    BY <1>1, <1>5
  <1>. QED
    BY <1>1, <1>2, <1>3, <1>4, <1>6, <1>7 DEF f, l, IsStrictPrefix

\* One more element.
LEMMA AppendIs ==
  ASSUME NEW S, NEW s \in Seq(S), NEW x \in S
  PROVE  /\ Append(s, x) \in Seq(S) /\ Len(Append(s, x)) = Len(s) + 1 /\ Append(s, x) # <<>>
         /\ Front(Append(s, x)) = s /\ Last(Append(s, x)) = x
  <1>. DEFINE a == Append(s, x)
  <1>1. /\ a \in Seq(S) /\ Len(a) = Len(s) + 1 /\ a[Len(s) + 1] = x /\ Len(s) \in Nat
        /\ \A i \in 1..Len(s) : a[i] = s[i]
    OBVIOUS
  <1>. HIDE DEF a
  <1>2. a # <<>>
    BY <1>1
  <1>3. /\ Front(a) \in Seq(S) /\ Len(Front(a)) = Len(s) /\ Last(a) = x
        /\ \A i \in 1..Len(s) : Front(a)[i] = a[i]
    BY <1>1, <1>2, FrontIs
  <1>4. Front(a) = s
    BY <1>1, <1>3, SeqEqual
  <1>. QED
    BY <1>1, <1>2, <1>3, <1>4 DEF a

\* Two sequences of which neither is a prefix of the other part somewhere.
LEMMA Parting ==
  ASSUME NEW S, NEW s \in Seq(S), NEW t \in Seq(S), ~IsPrefix(s, t), ~IsPrefix(t, s)
  PROVE  \E k \in 1..Len(s) : /\ k \in 1..Len(t) /\ s[k] # t[k]
                              /\ SubSeq(s, 1, k - 1) = SubSeq(t, 1, k - 1)
  <1>. DEFINE D == {i \in Nat : i \in 1..Len(s) /\ i \in 1..Len(t) /\ s[i] # t[i]}
  <1>0. Len(s) \in Nat /\ Len(t) \in Nat
    OBVIOUS
  <1>1. D # {}
    <2>1. ASSUME D = {} PROVE FALSE
      <3>1. \A i \in 1..Len(s) : i \in 1..Len(t) => s[i] = t[i]
        BY <1>0, <2>1
      <3>2. CASE Len(s) <= Len(t)
        BY <1>0, <3>1, <3>2, PrefixIs
      <3>3. CASE Len(t) <= Len(s)
        BY <1>0, <3>1, <3>3, PrefixIs
      <3>. QED
        BY <1>0, <3>2, <3>3
    <2>. QED
      BY <2>1
  <1>2. PICK k \in D : \A i \in D : k <= i
    BY <1>1, Least
  <1>3. k \in 1..Len(s) /\ k \in 1..Len(t) /\ s[k] # t[k] /\ k - 1 \in 0..Len(s) /\ k - 1 \in 0..Len(t)
    BY <1>0, <1>2
  <1>4. ASSUME NEW i \in 1..(k - 1) PROVE s[i] = t[i]
    BY <1>0, <1>2, <1>3
  <1>. HIDE DEF D
  <1>. DEFINE a == SubSeq(s, 1, k - 1)  b == SubSeq(t, 1, k - 1)
  <1>5. /\ a \in Seq(S) /\ Len(a) = k - 1 /\ \A i \in 1..(k - 1) : a[i] = s[i]
        /\ b \in Seq(S) /\ Len(b) = k - 1 /\ \A i \in 1..(k - 1) : b[i] = t[i]
    BY <1>3, Cut
  <1>. HIDE DEF a, b
  <1>6. a = b
    BY <1>4, <1>5, SeqEqual
  <1>. QED
    BY <1>3, <1>6 DEF a, b

\* Two sequences that differ somewhere.
LEMMA Differ ==
  ASSUME NEW S, NEW s \in Seq(S), NEW t \in Seq(S),
         \E k \in 1..Len(s) : k \in 1..Len(t) /\ s[k] # t[k]
  PROVE  ~IsPrefix(s, t) /\ ~IsPrefix(t, s)
  BY PrefixIs

\* Short sequences.
LEMMA Tuples ==
  ASSUME NEW S, NEW a \in S, NEW b \in S, NEW c \in S, NEW d \in S
  PROVE  /\ <<a>> \in Seq(S)
         /\ <<a, b>> \in Seq(S) /\ Len(<<a, b>>) = 2 /\ <<a, b>>[1] = a /\ <<a, b>>[2] = b
         /\ <<a, b, c, d>> \in Seq(S) /\ Len(<<a, b, c, d>>) = 4
         /\ <<a, b, c, d>>[1] = a /\ <<a, b, c, d>>[2] = b /\ <<a, b, c, d>>[3] = c
  OBVIOUS

-----------------------------------------------------------------------------
(***************************************************************************)
(* Trees.                                                                  *)
(***************************************************************************)

\* A value, and a node of a tree.
NixValues == [kind : Kinds, text : Seq(STRING)]
Nodes == [path : Seq(STRING), value : NixValues, entries : Nat]

\* What a tree is, in the form the proofs use it.
LEMMA TreeIs ==
  ASSUME NEW t, IsTree(t)
  PROVE  /\ DOMAIN t \subseteq Seq(Nat) /\ <<>> \in DOMAIN t /\ <<>> \in Seq(Nat)
         /\ \A p \in DOMAIN t : t[p] \in Nodes /\ t[p].path \in Seq(STRING)
         /\ t[<<>>].path = <<>>
         /\ \A p \in DOMAIN t : p # <<>> =>
              /\ Front(p) \in DOMAIN t /\ IsSet(t[Front(p)])
              /\ Last(p) <= t[Front(p)].entries
              /\ IsStrictPrefix(t[Front(p)].path, t[p].path)
  BY DEF IsTree, Within, Nodes, NixValues

\* Every place on the way to a node has a node, which is a set and binds less.
LEMMA Ancestors ==
  ASSUME NEW t, IsTree(t), NEW p \in DOMAIN t, NEW k \in 0..Len(p)
  PROVE  /\ SubSeq(p, 1, k) \in DOMAIN t
         /\ IsPrefix(t[SubSeq(p, 1, k)].path, t[p].path)
         /\ k < Len(p) => /\ IsSet(t[SubSeq(p, 1, k)])
                          /\ Len(t[SubSeq(p, 1, k)].path) < Len(t[p].path)
  <1>. DEFINE Good(q, m) ==
                /\ SubSeq(q, 1, m) \in DOMAIN t
                /\ IsPrefix(t[SubSeq(q, 1, m)].path, t[q].path)
                /\ m < Len(q) => /\ IsSet(t[SubSeq(q, 1, m)])
                                 /\ Len(t[SubSeq(q, 1, m)].path) < Len(t[q].path)
              S == {n \in Nat : \A q \in DOMAIN t : Len(q) = n => \A m \in 0..n : Good(q, m)}
  <1>1. /\ DOMAIN t \subseteq Seq(Nat)
        /\ \A q \in DOMAIN t : q \in Seq(Nat) /\ Len(q) \in Nat /\ t[q].path \in Seq(STRING)
    BY TreeIs
  <1>2. \A q \in DOMAIN t : Good(q, Len(q))
    <2>. SUFFICES ASSUME NEW q \in DOMAIN t PROVE Good(q, Len(q))
      OBVIOUS
    <2>1. SubSeq(q, 1, Len(q)) = q
      BY <1>1, Cut
    <2>2. IsPrefix(t[q].path, t[q].path)
      BY <1>1, PrefixOrder
    <2>3. Len(q) \in Nat /\ ~(Len(q) < Len(q))
      BY <1>1
    <2>. QED
      BY <2>1, <2>2, <2>3, Zenon
  <1>3. 0 \in S
    BY <1>2
  <1>4. ASSUME NEW n \in Nat, n \in S PROVE n + 1 \in S
    <2>. SUFFICES ASSUME NEW q \in DOMAIN t, Len(q) = n + 1, NEW m \in 0..(n + 1)
                  PROVE  Good(q, m)
      OBVIOUS
    <2>1. CASE m = n + 1
      BY <1>2, <2>1
    <2>2. CASE m \in 0..n
      <3>. DEFINE f == Front(q)
      <3>1. q \in Seq(Nat) /\ q # <<>>
        BY <1>1
      <3>2. /\ f \in Seq(Nat) /\ Len(f) = n /\ \A i \in 1..n : f[i] = q[i]
        <4>1. Len(q) - 1 = n
          OBVIOUS
        <4>. QED
          BY <3>1, <4>1, FrontIs
      <3>3. f \in DOMAIN t /\ IsSet(t[f]) /\ IsStrictPrefix(t[f].path, t[q].path)
        BY <3>1, TreeIs
      <3>. HIDE DEF f
      <3>4. Good(f, m)
        BY <1>4, <2>2, <3>2, <3>3
      <3>5. SubSeq(q, 1, m) = SubSeq(f, 1, m)
        <4>. DEFINE a == SubSeq(q, 1, m)  b == SubSeq(f, 1, m)
        <4>1. /\ a \in Seq(Nat) /\ Len(a) = m /\ \A i \in 1..m : a[i] = q[i]
              /\ b \in Seq(Nat) /\ Len(b) = m /\ \A i \in 1..m : b[i] = f[i]
          BY <2>2, <3>1, <3>2, Cut
        <4>. HIDE DEF a, b
        <4>2. a = b
          BY <2>2, <3>2, <4>1, SeqEqual
        <4>. QED
          BY <4>2 DEF a, b
      <3>. DEFINE c == SubSeq(f, 1, m)
      <3>6. /\ c \in DOMAIN t /\ IsPrefix(t[c].path, t[f].path)
            /\ m < n => IsSet(t[c]) /\ Len(t[c].path) < Len(t[f].path)
            /\ m = n => c = f
        <4>1. m = n => c = f
          BY <3>2, Cut
        <4>. QED
          BY <3>2, <3>4, <4>1
      <3>. HIDE DEF c
      <3>7. /\ t[c].path \in Seq(STRING) /\ t[f].path \in Seq(STRING) /\ t[q].path \in Seq(STRING)
            /\ IsPrefix(t[f].path, t[q].path) /\ t[f].path # t[q].path
        BY <1>1, <3>3, <3>6 DEF IsStrictPrefix
      <3>8. Len(t[f].path) < Len(t[q].path) /\ IsPrefix(t[c].path, t[q].path)
        <4>1. /\ Len(t[f].path) \in Nat /\ Len(t[q].path) \in Nat
              /\ Len(t[f].path) <= Len(t[q].path) /\ Len(t[f].path) # Len(t[q].path)
          BY <3>7, PrefixOrder
        <4>2. IsPrefix(t[c].path, t[q].path)
          BY <3>6, <3>7, PrefixOrder
        <4>. QED
          BY <4>1, <4>2
      <3>9. IsSet(t[c]) /\ Len(t[c].path) < Len(t[q].path)
        <4>1. CASE m = n
          BY <3>3, <3>6, <3>8, <4>1
        <4>2. CASE m < n
          <5>1. Len(t[c].path) \in Nat /\ Len(t[f].path) \in Nat /\ Len(t[q].path) \in Nat
            BY <3>7
          <5>. QED
            BY <3>6, <3>8, <4>2, <5>1
        <4>. QED
          BY <2>2, <4>1, <4>2
      <3>. QED
        BY <3>5, <3>6, <3>8, <3>9 DEF c
    <2>. QED
      BY <2>1, <2>2
  <1>. HIDE DEF S, Good
  <1>5. Nat \subseteq S
    BY <1>3, <1>4, SetInd
  <1>6. Good(p, k)
    BY <1>1, <1>5 DEF S
  <1>. QED
    BY <1>6 DEF Good

\* Of two nodes neither above the other, neither binds a part of what the other
\* binds, unless some set is spread over several entries.
LEMMA Incomparable ==
  ASSUME NEW t, IsTree(t), Unsplit(t), NEW p \in DOMAIN t, NEW q \in DOMAIN t,
         ~IsPrefix(p, q), ~IsPrefix(q, p)
  PROVE  ~IsPrefix(t[p].path, t[q].path)
  <1>. SUFFICES ASSUME IsPrefix(t[p].path, t[q].path) PROVE FALSE
    OBVIOUS
  <1>1. p \in Seq(Nat) /\ q \in Seq(Nat) /\ Len(p) \in Nat /\ Len(q) \in Nat
    BY TreeIs
  <1>2. PICK k \in 1..Len(p) : /\ k \in 1..Len(q) /\ p[k] # q[k]
                               /\ SubSeq(p, 1, k - 1) = SubSeq(q, 1, k - 1)
    BY <1>1, Parting
  <1>. DEFINE a == SubSeq(p, 1, k)  b == SubSeq(q, 1, k)
  <1>3. k \in 0..Len(p) /\ k \in 0..Len(q) /\ k \in Nat \ {0}
    BY <1>1, <1>2
  <1>4. /\ a \in Seq(Nat) /\ Len(a) = k /\ \A i \in 1..k : a[i] = p[i]
        /\ b \in Seq(Nat) /\ Len(b) = k /\ \A i \in 1..k : b[i] = q[i]
    BY <1>1, <1>3, Cut
  <1>5. /\ a \in DOMAIN t /\ IsPrefix(t[a].path, t[p].path)
        /\ b \in DOMAIN t /\ IsPrefix(t[b].path, t[q].path)
    BY <1>3, Ancestors
  <1>6. Front(a) = Front(b)
    <2>1. Front(a) = SubSeq(a, 1, k - 1) /\ Front(b) = SubSeq(b, 1, k - 1)
      BY <1>4 DEF Front
    <2>. DEFINE c == SubSeq(a, 1, k - 1)  d == SubSeq(b, 1, k - 1)
                e == SubSeq(p, 1, k - 1)  f == SubSeq(q, 1, k - 1)  m == k - 1
    <2>2. m \in 0..Len(a) /\ m \in 0..Len(b) /\ m \in 0..Len(p) /\ m \in 0..Len(q)
      BY <1>1, <1>3, <1>4
    <2>3. /\ c \in Seq(Nat) /\ Len(c) = m /\ \A i \in 1..m : c[i] = a[i]
          /\ d \in Seq(Nat) /\ Len(d) = m /\ \A i \in 1..m : d[i] = b[i]
          /\ e \in Seq(Nat) /\ Len(e) = m /\ \A i \in 1..m : e[i] = p[i]
          /\ f \in Seq(Nat) /\ Len(f) = m /\ \A i \in 1..m : f[i] = q[i]
      <3>. HIDE DEF a, b
      <3>1. /\ SubSeq(a, 1, m) \in Seq(Nat) /\ Len(SubSeq(a, 1, m)) = m
            /\ \A i \in 1..m : SubSeq(a, 1, m)[i] = a[i]
        <4>. HIDE DEF m
        <4>. QED
          BY <1>4, <2>2, Cut
      <3>2. /\ SubSeq(b, 1, m) \in Seq(Nat) /\ Len(SubSeq(b, 1, m)) = m
            /\ \A i \in 1..m : SubSeq(b, 1, m)[i] = b[i]
        <4>. HIDE DEF m
        <4>. QED
          BY <1>4, <2>2, Cut
      <3>3. /\ SubSeq(p, 1, m) \in Seq(Nat) /\ Len(SubSeq(p, 1, m)) = m
            /\ \A i \in 1..m : SubSeq(p, 1, m)[i] = p[i]
        <4>. HIDE DEF m
        <4>. QED
          BY <1>1, <2>2, Cut
      <3>4. /\ SubSeq(q, 1, m) \in Seq(Nat) /\ Len(SubSeq(q, 1, m)) = m
            /\ \A i \in 1..m : SubSeq(q, 1, m)[i] = q[i]
        <4>. HIDE DEF m
        <4>. QED
          BY <1>1, <2>2, Cut
      <3>. QED
        BY <3>1, <3>2, <3>3, <3>4
    <2>4. e = f
      BY <1>2
    <2>5. \A i \in 1..m : i \in 1..k
      BY <1>3
    <2>. HIDE DEF a, b, c, d, e, f, m
    <2>6. c = d
      BY <1>4, <2>3, <2>4, <2>5, SeqEqual
    <2>. QED
      BY <2>1, <2>6 DEF c, d
  <1>. HIDE DEF a, b
  <1>7. a # b /\ a # <<>> /\ b # <<>>
    <2>1. a[k] # b[k]
      BY <1>2, <1>3, <1>4
    <2>2. Len(a) # 0 /\ Len(b) # 0
      BY <1>3, <1>4
    <2>. QED
      BY <2>1, <2>2
  <1>8. ~IsPrefix(t[a].path, t[b].path) /\ ~IsPrefix(t[b].path, t[a].path)
    BY <1>5, <1>6, <1>7 DEF Unsplit, Within
  <1>9. /\ t[a].path \in Seq(STRING) /\ t[b].path \in Seq(STRING)
        /\ t[p].path \in Seq(STRING) /\ t[q].path \in Seq(STRING)
    BY <1>5, TreeIs
  <1>10. IsPrefix(t[a].path, t[q].path)
    BY <1>5, <1>9, PrefixOrder
  <1>. QED
    BY <1>5, <1>8, <1>9, <1>10, PrefixOrder

\* A node below another binds more, and the upper one is a set.
LEMMA Below ==
  ASSUME NEW t, IsTree(t), NEW p \in DOMAIN t, NEW q \in DOMAIN t, IsPrefix(p, q), p # q
  PROVE  /\ IsSet(t[p]) /\ IsPrefix(t[p].path, t[q].path) /\ Len(t[p].path) < Len(t[q].path)
         /\ ~IsPrefix(t[q].path, t[p].path)
  <1>1. p \in Seq(Nat) /\ q \in Seq(Nat) /\ Len(p) \in Nat /\ Len(q) \in Nat
    BY TreeIs
  <1>2. Len(p) <= Len(q) /\ Len(p) # Len(q) /\ \A i \in 1..Len(p) : p[i] = q[i]
    BY <1>1, PrefixOrder, PrefixIs
  <1>3. Len(p) \in 0..Len(q) /\ Len(p) < Len(q)
    BY <1>1, <1>2
  <1>4. SubSeq(q, 1, Len(p)) = p
    <2>. DEFINE c == SubSeq(q, 1, Len(p))
    <2>1. c \in Seq(Nat) /\ Len(c) = Len(p) /\ \A i \in 1..Len(p) : c[i] = q[i]
      BY <1>1, <1>3, Cut
    <2>. HIDE DEF c
    <2>2. c = p
      BY <1>1, <1>2, <2>1, SeqEqual
    <2>. QED
      BY <2>2 DEF c
  <1>5. IsSet(t[p]) /\ IsPrefix(t[p].path, t[q].path) /\ Len(t[p].path) < Len(t[q].path)
    BY <1>3, <1>4, Ancestors
  <1>6. ~IsPrefix(t[q].path, t[p].path)
    <2>1. t[p].path \in Seq(STRING) /\ t[q].path \in Seq(STRING)
      BY TreeIs
    <2>2. Len(t[p].path) \in Nat /\ Len(t[q].path) \in Nat
      BY <2>1
    <2>3. IsPrefix(t[q].path, t[p].path) => Len(t[q].path) <= Len(t[p].path)
      BY <2>1, PrefixOrder
    <2>. QED
      BY <1>5, <2>2, <2>3
  <1>. QED
    BY <1>5, <1>6

\* A leaf's path is a part of no other leaf's: Nix accepts the file.
LEMMA UnsplitEvaluates ==
  ASSUME NEW t, IsTree(t), Unsplit(t)
  PROVE  Evaluates(t)
  <1>. SUFFICES ASSUME NEW p \in Leaves(t), NEW q \in Leaves(t), p # q
                PROVE  ~IsPrefix(t[p].path, t[q].path)
    BY DEF Evaluates
  <1>1. p \in DOMAIN t /\ q \in DOMAIN t /\ ~IsSet(t[p]) /\ ~IsSet(t[q])
    BY DEF Leaves, Within
  <1>2. ~IsPrefix(p, q) /\ ~IsPrefix(q, p)
    BY <1>1, Below
  <1>. QED
    BY <1>1, <1>2, Incomparable

-----------------------------------------------------------------------------
(***************************************************************************)
(* One edit.                                                               *)
(***************************************************************************)

\* A value that is written where one stood.
LEMMA ValueSet ==
  ASSUME NEW t, IsTree(t), Unsplit(t), NEW p \in DOMAIN t, p # <<>>,
         NEW v \in NixValues, v.kind # "set", v.kind # "inherit"
  PROVE  /\ IsTree(WithValue(t, p, v)) /\ Unsplit(WithValue(t, p, v))
         /\ \A q \in Inherited(WithValue(t, p, v)) :
              q \in Inherited(t) /\ WithValue(t, p, v)[q].path = t[q].path
         /\ Bindings(WithValue(t, p, v)) =
              {<<t[p].path, v>>} \cup {b \in Bindings(t) : ~IsPrefix(t[p].path, b[1])}
  <1>. DEFINE y == WithValue(t, p, v)
              D == {q \in DOMAIN t : ~IsStrictPrefix(p, q)}
  <1>1. /\ DOMAIN y = D
        /\ \A q \in D : y[q] = IF q = p THEN Node(t[p].path, v, 0) ELSE t[q]
    BY DEF WithValue
  <1>2. \A q \in DOMAIN t : q \in Seq(Nat) /\ t[q] \in Nodes /\ t[q].path \in Seq(STRING)
    BY TreeIs
  <1>3. p \in D
    BY DEF IsStrictPrefix
  <1>4. <<>> \in D
    <2>1. <<>> \in DOMAIN t /\ <<>> \in Seq(Nat) /\ p \in Seq(Nat)
      BY <1>2, TreeIs
    <2>2. ~IsPrefix(p, <<>>)
      BY <2>1, EmptyPrefix
    <2>. QED
      BY <2>1, <2>2 DEF IsStrictPrefix
  <1>5. /\ y[p] \in Nodes /\ y[p].path = t[p].path /\ y[p].value = v /\ ~IsSet(y[p])
        /\ \A q \in D : q # p => y[q] = t[q]
    <2>1. y[p] = Node(t[p].path, v, 0)
      BY <1>1, <1>3
    <2>2. t[p].path \in Seq(STRING)
      BY <1>2
    <2>3. Node(t[p].path, v, 0) \in Nodes
      BY <2>2 DEF Node, Nodes
    <2>4. y[p].path = t[p].path /\ y[p].value = v
      BY <2>1 DEF Node
    <2>5. ~IsSet(y[p])
      BY <2>4 DEF IsSet
    <2>. QED
      BY <1>1, <2>1, <2>3, <2>4, <2>5
  <1>. HIDE DEF y
  <1>6. \A q \in D : y[q].path = t[q].path /\ y[q] \in Nodes
    BY <1>2, <1>5
  <1>7. ASSUME NEW q \in D, q # <<>>
        PROVE  /\ Front(q) \in D /\ Front(q) # p /\ y[Front(q)] = t[Front(q)] /\ IsSet(t[Front(q)])
               /\ Last(q) <= t[Front(q)].entries /\ IsStrictPrefix(t[Front(q)].path, t[q].path)
    <2>1. q \in DOMAIN t /\ q \in Seq(Nat) /\ p \in Seq(Nat)
      BY <1>2
    <2>2. /\ Front(q) \in DOMAIN t /\ IsSet(t[Front(q)])
          /\ Last(q) <= t[Front(q)].entries /\ IsStrictPrefix(t[Front(q)].path, t[q].path)
      BY <1>7, <2>1, TreeIs
    <2>3. Front(q) \in Seq(Nat) /\ IsPrefix(Front(q), q) /\ Front(q) # q
      BY <1>7, <2>1, FrontIs DEF IsStrictPrefix
    <2>4. ~IsStrictPrefix(p, q)
      OBVIOUS
    <2>5. Front(q) # p
      BY <2>3, <2>4 DEF IsStrictPrefix
    <2>6. ~IsStrictPrefix(p, Front(q))
      <3>1. SUFFICES ASSUME IsPrefix(p, Front(q)), p # Front(q) PROVE FALSE
        BY DEF IsStrictPrefix
      <3>2. IsPrefix(p, q)
        BY <2>1, <2>3, <3>1, PrefixOrder
      <3>3. p # q
        BY <2>1, <2>3, <3>1, PrefixOrder
      <3>. QED
        BY <2>4, <3>2, <3>3 DEF IsStrictPrefix
    <2>. QED
      BY <1>5, <2>2, <2>5, <2>6
  <1>8. IsTree(y)
    <2>1. DOMAIN y \subseteq Seq(Nat) /\ <<>> \in DOMAIN y
      BY <1>1, <1>2, <1>4
    <2>2. \A q \in DOMAIN y : y[q] \in Nodes
      BY <1>1, <1>6
    <2>3. y[<<>>].path = <<>>
      BY <1>4, <1>6, TreeIs
    <2>4. \A q \in Within(y) :
            /\ Front(q) \in DOMAIN y /\ IsSet(y[Front(q)])
            /\ Last(q) <= y[Front(q)].entries
            /\ IsStrictPrefix(y[Front(q)].path, y[q].path)
      BY <1>1, <1>6, <1>7 DEF Within
    <2>. QED
      BY <2>1, <2>2, <2>3, <2>4 DEF IsTree, Nodes, NixValues
  <1>9. Unsplit(y)
    <2>1. \A q \in Within(y) : q \in Within(t) /\ y[q].path = t[q].path
      BY <1>1, <1>6 DEF Within
    <2>. QED
      BY <2>1 DEF Unsplit
  <1>. DEFINE x == t[p].path
  <1>10. ASSUME NEW q \in Leaves(y), q # p
         PROVE  q \in Leaves(t) /\ y[q] = t[q] /\ ~IsPrefix(x, t[q].path)
    <2>1. q \in D /\ q # <<>> /\ y[q] = t[q] /\ ~IsSet(t[q]) /\ q \in DOMAIN t
      BY <1>1, <1>5, <1>10 DEF Leaves, Within
    <2>2. ~IsPrefix(p, q)
      BY <1>10, <2>1 DEF IsStrictPrefix
    <2>3. ~IsPrefix(q, p)
      BY <1>10, <2>1, Below
    <2>. QED
      BY <2>1, <2>2, <2>3, Incomparable DEF Leaves, Within
  <1>11. ASSUME NEW q \in Leaves(t), ~IsPrefix(x, t[q].path)
         PROVE  q \in Leaves(y) /\ y[q] = t[q]
    <2>1. q \in DOMAIN t /\ q # <<>> /\ ~IsSet(t[q])
      BY DEF Leaves, Within
    <2>2. q # p
      BY <1>2, <1>11, PrefixOrder
    <2>3. ~IsStrictPrefix(p, q)
      BY <1>11, <2>1, Below DEF IsStrictPrefix
    <2>. QED
      BY <1>1, <1>5, <2>1, <2>2, <2>3 DEF Leaves, Within
  <1>12. p \in Leaves(y)
    BY <1>1, <1>3, <1>5 DEF Leaves, Within
  <1>13. Bindings(y) = {<<x, v>>} \cup {b \in Bindings(t) : ~IsPrefix(x, b[1])}
    <2>1. ASSUME NEW b \in Bindings(y)
          PROVE  b = <<x, v>> \/ (b \in Bindings(t) /\ ~IsPrefix(x, b[1]))
      <3>1. PICK q \in Leaves(y) : b = <<y[q].path, y[q].value>>
        BY DEF Bindings
      <3>2. CASE q = p
        BY <1>5, <3>1, <3>2
      <3>3. CASE q # p
        <4>1. b = <<t[q].path, t[q].value>> /\ q \in Leaves(t) /\ ~IsPrefix(x, t[q].path)
          BY <1>10, <3>1, <3>3
        <4>2. b[1] = t[q].path
          BY <4>1
        <4>. QED
          BY <4>1, <4>2 DEF Bindings
      <3>. QED
        BY <3>2, <3>3
    <2>2. <<x, v>> \in Bindings(y)
      BY <1>5, <1>12 DEF Bindings
    <2>3. ASSUME NEW b \in Bindings(t), ~IsPrefix(x, b[1]) PROVE b \in Bindings(y)
      <3>1. PICK q \in Leaves(t) : b = <<t[q].path, t[q].value>>
        BY DEF Bindings
      <3>2. b[1] = t[q].path
        BY <3>1
      <3>3. q \in Leaves(y) /\ y[q] = t[q]
        BY <1>11, <2>3, <3>2
      <3>. QED
        BY <3>1, <3>3 DEF Bindings
    <2>. QED
      BY <2>1, <2>2, <2>3
  <1>14. \A q \in Inherited(y) : q \in Inherited(t) /\ y[q].path = t[q].path
    BY <1>1, <1>5, <1>6 DEF Inherited, Within
  <1>. QED
    BY <1>8, <1>9, <1>13, <1>14 DEF y

\* A binding that is added where nothing shares its path and nothing inherits it.
LEMMA EntrySet ==
  ASSUME NEW t, IsTree(t), Unsplit(t), NEW p \in DOMAIN t, IsSet(t[p]),
         NEW x \in Seq(STRING), IsStrictPrefix(t[p].path, x), Owners(t, p, x) = {}, Clear(t, x),
         NEW v \in NixValues, v.kind # "set", v.kind # "inherit"
  PROVE  /\ IsTree(WithEntry(t, p, x, v)) /\ Unsplit(WithEntry(t, p, x, v))
         /\ \A q \in Inherited(WithEntry(t, p, x, v)) :
              q \in Inherited(t) /\ WithEntry(t, p, x, v)[q].path = t[q].path
         /\ Bindings(WithEntry(t, p, x, v)) =
              {<<x, v>>} \cup {b \in Bindings(t) : ~IsPrefix(x, b[1])}
  <1>. DEFINE y == WithEntry(t, p, x, v)
              e == t[p].entries + 1
              n == Append(p, e)
  <1>1. \A q \in DOMAIN t : q \in Seq(Nat) /\ t[q] \in Nodes /\ t[q].path \in Seq(STRING)
    BY TreeIs
  <1>2. t[p].entries \in Nat /\ e \in Nat /\ t[p].value \in NixValues
    BY <1>1 DEF Nodes
  <1>3. n \in Seq(Nat) /\ n # <<>> /\ Front(n) = p /\ Last(n) = e
    <2>. HIDE DEF e
    <2>. QED
      BY <1>1, <1>2, AppendIs
  <1>4. n \notin DOMAIN t
    <2>1. n \in DOMAIN t => e <= t[p].entries
      BY <1>3, TreeIs
    <2>. QED
      BY <1>2, <2>1
  <1>5. /\ DOMAIN y = DOMAIN t \cup {n}
        /\ \A q \in DOMAIN t \cup {n} :
             y[q] = IF q = n THEN Node(x, v, 0)
                    ELSE IF q = p THEN Node(t[p].path, t[p].value, e) ELSE t[q]
    BY DEF WithEntry
  <1>. HIDE DEF y, n, e
  <1>6. y[n] \in Nodes /\ y[n].path = x /\ y[n].value = v /\ ~IsSet(y[n])
    <2>1. y[n] = Node(x, v, 0)
      BY <1>5
    <2>2. Node(x, v, 0) \in Nodes
      BY DEF Node, Nodes
    <2>3. y[n].path = x /\ y[n].value = v
      BY <2>1 DEF Node
    <2>. QED
      BY <2>1, <2>2, <2>3 DEF IsSet
  <1>7. /\ y[p] \in Nodes /\ y[p].path = t[p].path /\ y[p].value = t[p].value /\ y[p].entries = e
    <2>1. y[p] = Node(t[p].path, t[p].value, e)
      BY <1>4, <1>5
    <2>2. t[p].path \in Seq(STRING)
      BY <1>1
    <2>3. Node(t[p].path, t[p].value, e) \in Nodes
      BY <1>2, <2>2 DEF Node, Nodes
    <2>. QED
      BY <2>1, <2>3 DEF Node
  <1>8. \A q \in DOMAIN t : q # p => y[q] = t[q]
    BY <1>4, <1>5
  <1>9. \A q \in DOMAIN t : y[q] \in Nodes /\ y[q].path = t[q].path /\ y[q].value = t[q].value
    BY <1>1, <1>7, <1>8
  <1>10. \A q \in DOMAIN t : (IsSet(y[q]) <=> IsSet(t[q])) /\ t[q].entries <= y[q].entries
    <2>1. \A q \in DOMAIN t : t[q].entries \in Nat
      BY <1>1 DEF Nodes
    <2>2. t[p].entries <= e
      BY <1>2 DEF e
    <2>3. \A q \in DOMAIN t : t[q].entries <= y[q].entries
      BY <1>7, <1>8, <2>1, <2>2
    <2>4. \A q \in DOMAIN t : (IsSet(y[q]) <=> IsSet(t[q]))
      BY <1>9 DEF IsSet
    <2>. QED
      BY <2>3, <2>4
  <1>11. IsTree(y)
    <2>1. DOMAIN y \subseteq Seq(Nat) /\ <<>> \in DOMAIN y
      BY <1>1, <1>3, <1>5, TreeIs
    <2>2. \A q \in DOMAIN y : y[q] \in Nodes
      BY <1>5, <1>6, <1>9
    <2>3. y[<<>>].path = <<>>
      BY <1>9, TreeIs
    <2>4. ASSUME NEW q \in DOMAIN y, q # <<>>
          PROVE  /\ Front(q) \in DOMAIN y /\ IsSet(y[Front(q)])
                 /\ Last(q) <= y[Front(q)].entries
                 /\ IsStrictPrefix(y[Front(q)].path, y[q].path)
      <3>1. CASE q = n
        BY <1>2, <1>3, <1>5, <1>6, <1>7, <1>10, <3>1
      <3>2. CASE q \in DOMAIN t
        <4>. DEFINE f == Front(q)
        <4>1. f \in DOMAIN t /\ IsSet(t[f]) /\ Last(q) <= t[f].entries /\ IsStrictPrefix(t[f].path, t[q].path)
          BY <2>4, <3>2, TreeIs
        <4>2. Last(q) \in Nat
          BY <1>1, <2>4, <3>2, FrontIs
        <4>. HIDE DEF f
        <4>3. t[f].entries \in Nat /\ y[f].entries \in Nat /\ t[f].entries <= y[f].entries
          BY <1>1, <1>9, <1>10, <4>1 DEF Nodes
        <4>4. Last(q) <= y[f].entries
          BY <4>1, <4>2, <4>3
        <4>. QED
          BY <1>5, <1>9, <1>10, <3>2, <4>1, <4>4 DEF f
      <3>. QED
        BY <1>5, <3>1, <3>2
    <2>. QED
      BY <2>1, <2>2, <2>3, <2>4 DEF IsTree, Within, Nodes, NixValues
  <1>12. ASSUME NEW q \in DOMAIN t, q # <<>>, Front(q) = p
         PROVE  ~IsPrefix(t[q].path, x) /\ ~IsPrefix(x, t[q].path)
    <2>1. CASE q \in Inherited(t)
      BY <2>1 DEF Clear
    <2>2. CASE q \notin Inherited(t)
      <3>1. ~IsPrefix(t[q].path, x) /\ ~IsStrictPrefix(x, t[q].path)
        BY <1>12, <2>2 DEF Owners, Children, Within
      <3>2. IsPrefix(x, x)
        BY PrefixOrder
      <3>. QED
        BY <3>1, <3>2 DEF IsStrictPrefix
    <2>. QED
      BY <2>1, <2>2
  <1>13. Unsplit(y)
    <2>. SUFFICES ASSUME NEW q \in Within(y), NEW r \in Within(y), q # r, Front(q) = Front(r)
                  PROVE  ~IsPrefix(y[q].path, y[r].path)
      BY DEF Unsplit
    <2>1. q \in DOMAIN y /\ q # <<>> /\ r \in DOMAIN y /\ r # <<>>
      BY DEF Within
    <2>2. CASE q \in DOMAIN t /\ r \in DOMAIN t
      BY <1>9, <2>1, <2>2 DEF Unsplit, Within
    <2>3. CASE q = n /\ r \in DOMAIN t
      BY <1>3, <1>6, <1>9, <1>12, <2>1, <2>3
    <2>4. CASE q \in DOMAIN t /\ r = n
      BY <1>3, <1>6, <1>9, <1>12, <2>1, <2>4
    <2>. QED
      BY <1>5, <2>1, <2>2, <2>3, <2>4
  <1>14. ASSUME NEW q \in Leaves(t)
         PROVE  ~IsPrefix(x, t[q].path)
    <2>. SUFFICES ASSUME IsPrefix(x, t[q].path) PROVE FALSE
      OBVIOUS
    <2>1. q \in DOMAIN t /\ ~IsSet(t[q]) /\ q # p /\ p \in Seq(Nat) /\ q \in Seq(Nat)
      BY <1>1 DEF Leaves, Within
    <2>2. ~IsPrefix(q, p)
      BY <2>1, Below
    <2>3. /\ t[q].path \in Seq(STRING) /\ t[p].path \in Seq(STRING) /\ IsPrefix(t[p].path, x)
      BY <1>1, <2>1 DEF IsStrictPrefix
    <2>4. IsPrefix(t[p].path, t[q].path)
      BY <2>3, PrefixOrder
    <2>5. IsPrefix(p, q)
      BY <2>1, <2>2, <2>4, Incomparable
    <2>. DEFINE k == Len(p) + 1
                c == SubSeq(q, 1, k)
    <2>6. Len(p) \in Nat /\ Len(q) \in Nat /\ Len(p) < Len(q) /\ \A i \in 1..Len(p) : p[i] = q[i]
      <3>1. Len(p) <= Len(q) /\ Len(p) # Len(q)
        BY <2>1, <2>5, PrefixOrder
      <3>2. \A i \in 1..Len(p) : p[i] = q[i]
        BY <2>1, <2>5, PrefixIs
      <3>3. Len(p) \in Nat /\ Len(q) \in Nat
        BY <2>1
      <3>. QED
        BY <3>1, <3>2, <3>3
    <2>7. k \in 0..Len(q) /\ k \in Nat \ {0} /\ k - 1 = Len(p)
      BY <2>6
    <2>. HIDE DEF k
    <2>8. /\ c \in Seq(Nat) /\ Len(c) = k /\ \A i \in 1..k : c[i] = q[i]
          /\ c \in DOMAIN t /\ IsPrefix(t[c].path, t[q].path)
      BY <2>1, <2>7, Cut, Ancestors
    <2>. HIDE DEF c
    <2>9. c # <<>> /\ Front(c) = p
      <3>1. c # <<>>
        BY <2>7, <2>8
      <3>2. Front(c) \in Seq(Nat) /\ Len(Front(c)) = k - 1 /\ \A i \in 1..(k - 1) : Front(c)[i] = c[i]
        BY <2>8, <3>1, FrontIs
      <3>3. \A i \in 1..Len(p) : i \in 1..k
        BY <2>7
      <3>. DEFINE f == Front(c)
      <3>4. f \in Seq(Nat) /\ Len(f) = Len(p) /\ \A i \in 1..Len(f) : f[i] = p[i]
        BY <2>6, <2>7, <2>8, <3>2, <3>3
      <3>. HIDE DEF f
      <3>5. f = p
        BY <2>1, <3>4, SeqEqual
      <3>. QED
        BY <3>1, <3>5 DEF f
    <2>10. t[c].path \in Seq(STRING)
      BY <1>1, <2>8
    <2>11. IsPrefix(t[c].path, x) \/ IsPrefix(x, t[c].path)
      BY <2>3, <2>8, <2>10, PrefixOrder
    <2>. QED
      BY <1>12, <2>8, <2>9, <2>11
  <1>15. \A q \in DOMAIN y : q \in Leaves(y) <=> (q = n \/ q \in Leaves(t))
    BY <1>3, <1>4, <1>5, <1>6, <1>10 DEF Leaves, Within
  <1>16. Bindings(y) = {<<x, v>>} \cup {b \in Bindings(t) : ~IsPrefix(x, b[1])}
    <2>1. Leaves(y) \subseteq DOMAIN y /\ Leaves(t) \subseteq DOMAIN y /\ Leaves(t) \subseteq DOMAIN t
      BY <1>5 DEF Leaves, Within
    <2>2. ASSUME NEW b \in Bindings(y)
          PROVE  b = <<x, v>> \/ (b \in Bindings(t) /\ ~IsPrefix(x, b[1]))
      <3>1. PICK q \in Leaves(y) : b = <<y[q].path, y[q].value>>
        BY DEF Bindings
      <3>2. CASE q = n
        BY <1>6, <3>1, <3>2
      <3>3. CASE q \in Leaves(t)
        <4>1. b = <<t[q].path, t[q].value>> /\ ~IsPrefix(x, t[q].path)
          BY <1>9, <1>14, <2>1, <3>1, <3>3
        <4>2. b[1] = t[q].path
          BY <4>1
        <4>. QED
          BY <3>3, <4>1, <4>2 DEF Bindings
      <3>. QED
        BY <1>15, <2>1, <3>2, <3>3
    <2>3. <<x, v>> \in Bindings(y)
      BY <1>5, <1>6, <1>15 DEF Bindings
    <2>4. ASSUME NEW b \in Bindings(t) PROVE b \in Bindings(y)
      <3>1. PICK q \in Leaves(t) : b = <<t[q].path, t[q].value>>
        BY DEF Bindings
      <3>2. q \in Leaves(y) /\ b = <<y[q].path, y[q].value>>
        BY <1>9, <1>15, <2>1, <3>1
      <3>. QED
        BY <3>2 DEF Bindings
    <2>. QED
      BY <2>2, <2>3, <2>4
  <1>17. \A q \in Inherited(y) : q \in Inherited(t) /\ y[q].path = t[q].path
    BY <1>5, <1>6, <1>9 DEF Inherited, Within
  <1>. QED
    BY <1>11, <1>13, <1>16, <1>17 DEF y

\* set_attrpath: in a file that spreads no set over several entries and inherits
\* nothing the editor edits, an edited path is bound to the new value, what was
\* below it is gone, the rest is as it was, and the file is still such a file.
THEOREM SetExact ==
  ASSUME NEW t, IsTree(t), Tidy(t), NEW x \in Seq(STRING), x # <<>>, x \in EditedPaths,
         NEW v \in NixValues, v.kind # "set", v.kind # "inherit", NEW y \in SetAttrpath(t, x, v)
  PROVE  /\ IsTree(y) /\ Tidy(y)
         /\ Bindings(y) = {<<x, v>>} \cup {b \in Bindings(t) : ~IsPrefix(x, b[1])}
  <1>0. Unsplit(t) /\ Clear(t, x)
    BY DEF Tidy
  <1>. DEFINE Same == \A q \in Inherited(y) : q \in Inherited(t) /\ y[q].path = t[q].path
              Exact == Bindings(y) = {<<x, v>>} \cup {b \in Bindings(t) : ~IsPrefix(x, b[1])}
  <1>. HIDE DEF Same, Exact
  <1>1. ASSUME NEW p \in FindValueNode(t, x), y = WithValue(t, p, v)
        PROVE  IsTree(y) /\ Unsplit(y) /\ Same /\ Exact
    <2>1. p \in DOMAIN t /\ p # <<>> /\ t[p].path = x
      BY DEF FindValueNode, Within
    <2>. QED
      BY <1>0, <1>1, <2>1, ValueSet DEF Same, Exact
  <1>2. ASSUME NEW p \in InsertPoint(t, x), y = WithEntry(t, p, x, v)
        PROVE  IsTree(y) /\ Unsplit(y) /\ Same /\ Exact
    <2>2. p \in DOMAIN t /\ IsSet(t[p]) /\ Owners(t, p, x) = {} /\ p \in Seq(Nat)
      BY TreeIs DEF InsertPoint
    <2>3. IsStrictPrefix(t[p].path, x)
      <3>1. CASE p = <<>>
        <4>1. t[p].path = <<>> /\ <<>> \in Seq(STRING)
          BY <3>1, TreeIs
        <4>2. IsPrefix(<<>>, x)
          BY EmptyPrefix
        <4>. QED
          BY <4>1, <4>2 DEF IsStrictPrefix
      <3>2. CASE p # <<>>
        <4>1. Len(p) \in DOMAIN p /\ SubSeq(p, 1, Len(p)) = p
          BY <2>2, <3>2, Cut
        <4>2. IsStrictPrefix(t[SubSeq(p, 1, Len(p))].path, x)
          BY <4>1 DEF InsertPoint
        <4>. QED
          BY <4>1, <4>2
      <3>. QED
        BY <3>1, <3>2
    <2>. QED
      BY <1>0, <1>2, <2>2, <2>3, EntrySet DEF Same, Exact
  <1>3. IsTree(y) /\ Unsplit(y) /\ Same /\ Exact
    BY <1>1, <1>2 DEF SetAttrpath
  <1>4. Tidy(y)
    BY <1>3 DEF Same, Tidy, Clear
  <1>. QED
    BY <1>3, <1>4 DEF Exact

\* set_attrpath keeps the users a file has, unless it binds something above them.
LEMMA SetKeys ==
  ASSUME NEW t, IsTree(t), NEW x \in Seq(STRING), ~IsPrefix(x, UsersRoot),
         NEW v, v.kind # "inherit", NEW y \in SetAttrpath(t, x, v)
  PROVE  /\ v.kind # "unparsable"
         /\ AttrsetKeys(t, UsersRoot) \subseteq AttrsetKeys(y, UsersRoot)
  <1>. DEFINE U == UsersRoot
  <1>0. U \in Seq(STRING) /\ Len(U) = 2
    BY Tuples, Literals DEF UsersRoot
  <1>. HIDE DEF U
  <1>1. v.kind # "unparsable"
    BY DEF SetAttrpath
  <1>2. \A q \in DOMAIN t : q \in Seq(Nat) /\ t[q].path \in Seq(STRING)
    BY TreeIs
  <1>3. ASSUME NEW k \in AttrsetKeys(t, U) PROVE k \in AttrsetKeys(y, U)
    <2>1. PICK q \in Within(t) \ Inherited(t) :
                 IsStrictPrefix(U, t[q].path) /\ k = t[q].path[Len(U) + 1]
      BY DEF AttrsetKeys
    <2>2. ASSUME NEW r \in DOMAIN y, r # <<>>, IsStrictPrefix(U, y[r].path), k = y[r].path[Len(U) + 1],
                 y[r].value.kind # "inherit"
          PROVE  k \in AttrsetKeys(y, U)
      BY <2>2 DEF AttrsetKeys, Within, Inherited
    <2>3. q \in DOMAIN t /\ q # <<>> /\ t[q].value.kind # "inherit"
      BY DEF Within, Inherited
    <2>4. CASE \E p \in FindValueNode(t, x) : y = WithValue(t, p, v)
      <3>1. PICK p \in FindValueNode(t, x) : y = WithValue(t, p, v)
        BY <2>4
      <3>2. p \in DOMAIN t /\ p # <<>> /\ t[p].path = x
        BY DEF FindValueNode, Within
      <3>3. /\ DOMAIN y = {r \in DOMAIN t : ~IsStrictPrefix(p, r)}
            /\ \A r \in DOMAIN y : y[r] = IF r = p THEN Node(t[p].path, v, 0) ELSE t[r]
        BY <3>1 DEF WithValue
      <3>4. /\ \A r \in DOMAIN y : y[r].path = t[r].path
            /\ \A r \in DOMAIN y : y[r].value = IF r = p THEN v ELSE t[r].value
        BY <3>3 DEF Node
      <3>5. CASE ~IsStrictPrefix(p, q)
        BY <2>1, <2>2, <2>3, <3>3, <3>4, <3>5
      <3>6. CASE IsStrictPrefix(p, q)
        <4>. DEFINE z == t[q].path
        <4>1. z \in Seq(STRING) /\ IsPrefix(x, z) /\ IsPrefix(U, z)
          BY <1>2, <2>1, <2>3, <3>2, <3>6, Below DEF IsStrictPrefix
        <4>2. IsPrefix(U, x) /\ U # x
          BY <1>0, <4>1, PrefixOrder DEF U
        <4>3. Len(x) \in Nat /\ 2 < Len(x)
          <5>1. Len(U) <= Len(x) /\ Len(U) # Len(x)
            BY <1>0, <4>2, PrefixOrder
          <5>. QED
            BY <1>0, <5>1
        <4>4. x[3] = z[3]
          <5>1. \A i \in 1..Len(x) : x[i] = z[i]
            BY <4>1, PrefixIs
          <5>. HIDE DEF z
          <5>. QED
            BY <4>3, <5>1
        <4>5. p \in DOMAIN y /\ y[p].path = x /\ y[p].value = v
          BY <3>2, <3>3, <3>4 DEF IsStrictPrefix
        <4>. QED
          BY <1>0, <2>1, <2>2, <3>2, <4>2, <4>4, <4>5 DEF IsStrictPrefix
      <3>. QED
        BY <3>5, <3>6
    <2>5. CASE \E p \in InsertPoint(t, x) : y = WithEntry(t, p, x, v)
      <3>1. PICK p \in InsertPoint(t, x) : y = WithEntry(t, p, x, v)
        BY <2>5
      <3>. DEFINE n == Append(p, t[p].entries + 1)
      <3>2. p \in DOMAIN t /\ n \notin DOMAIN t
        <4>1. p \in DOMAIN t /\ p \in Seq(Nat)
          BY TreeIs DEF InsertPoint
        <4>2. t[p].entries \in Nat /\ t[p].entries + 1 \in Nat
          BY <4>1, TreeIs DEF Nodes
        <4>. DEFINE e == t[p].entries + 1
        <4>. HIDE DEF e
        <4>3. n # <<>> /\ Front(n) = p /\ Last(n) = e
          BY <4>1, <4>2, AppendIs DEF e
        <4>4. n \in DOMAIN t => e <= t[p].entries
          BY <4>3, TreeIs
        <4>. QED
          BY <4>1, <4>2, <4>4 DEF e
      <3>3. /\ DOMAIN y = DOMAIN t \cup {n}
            /\ \A r \in DOMAIN t : y[r].path = t[r].path /\ y[r].value = t[r].value
        BY <3>1, <3>2 DEF WithEntry, Node
      <3>. QED
        BY <2>1, <2>2, <2>3, <3>3
    <2>. QED
      BY <2>4, <2>5 DEF SetAttrpath
  <1>. QED
    BY <1>1, <1>3 DEF U

\* What the dashboard reads at a path is what the file binds there.
LEMMA ReadIs ==
  ASSUME NEW t, IsTree(t), Unsplit(t), NEW x \in Seq(STRING), x # <<>>,
         NEW k, k # "set", k # "inherit"
  PROVE  /\ \A v : <<x, v>> \in Bindings(t) =>
              Read(t, x, k) = IF v.kind = k THEN {v.text} ELSE {}
         /\ (\A v : <<x, v>> \notin Bindings(t)) => Read(t, x, k) = {}
  <1>1. ASSUME NEW p \in Within(t), NEW q \in Within(t), t[p].path = x, t[q].path = x
        PROVE  p = q
    <2>. SUFFICES ASSUME p # q PROVE FALSE
      OBVIOUS
    <2>1. p \in DOMAIN t /\ q \in DOMAIN t /\ p \in Seq(Nat) /\ q \in Seq(Nat)
      BY TreeIs DEF Within
    <2>2. IsPrefix(x, x)
      BY PrefixOrder
    <2>3. IsPrefix(p, q) \/ IsPrefix(q, p)
      BY <1>1, <2>1, <2>2, Incomparable
    <2>. DEFINE Shorter(a, b) == Len(t[a].path) < Len(t[b].path)
    <2>4. Shorter(p, q) \/ Shorter(q, p)
      BY <2>1, <2>3, Below
    <2>5. Len(x) \in Nat
      OBVIOUS
    <2>. QED
      BY <1>1, <2>4, <2>5
  <1>2. \A p \in FindValueNode(t, x) : p \in Within(t) /\ t[p].path = x
    BY DEF FindValueNode
  <1>3. ASSUME NEW p \in Within(t), t[p].path = x
        PROVE  FindValueNode(t, x) = IF t[p].value.kind = "inherit" THEN {} ELSE {p}
    BY <1>1, <1>3 DEF FindValueNode, Inherited
  <1>4. ASSUME NEW v, <<x, v>> \in Bindings(t)
        PROVE  Read(t, x, k) = IF v.kind = k THEN {v.text} ELSE {}
    <2>1. PICK p \in Leaves(t) : <<x, v>> = <<t[p].path, t[p].value>>
      BY <1>4 DEF Bindings
    <2>2. p \in Within(t) /\ t[p].path = x /\ t[p].value = v
      BY <2>1 DEF Leaves
    <2>3. FindAttrpath(t, x) = IF v.kind = "inherit" THEN {} ELSE {v}
      BY <1>3, <2>2 DEF FindAttrpath
    <2>. QED
      BY <2>3 DEF Read
  <1>5. ASSUME \A v : <<x, v>> \notin Bindings(t) PROVE Read(t, x, k) = {}
    <2>1. ASSUME NEW w \in FindAttrpath(t, x) PROVE w.kind = "set"
      <3>1. PICK p \in FindValueNode(t, x) : w = t[p].value
        BY DEF FindAttrpath
      <3>2. p \in Within(t) /\ t[p].path = x
        BY <1>2
      <3>3. p \notin Leaves(t)
        BY <1>5, <3>2 DEF Bindings
      <3>. QED
        BY <3>1, <3>2, <3>3 DEF Leaves, IsSet
    <2>. QED
      BY <2>1 DEF Read
  <1>. QED
    BY <1>4, <1>5

-----------------------------------------------------------------------------
(***************************************************************************)
(* The edits of a save.                                                    *)
(***************************************************************************)

\* The candidates after one more push.
Pushed(X, push) ==
    IF push = {} THEN X ELSE UNION {SetAttrpath(x, e.path, e.new) : x \in X, e \in push}

\* The candidates of a save, as Apply computes them.
Candidates(c, root, edits) ==
    /\ Apply(root, edits) = c[Len(edits)] /\ c[0] = {root}
    /\ \A n \in 1..Len(edits) : c[n] = Pushed(c[n - 1], edits[n])

\* The function that Apply defines by recursion gives these candidates.
LEMMA ApplyIs ==
  ASSUME NEW root, NEW edits, Len(edits) \in Nat
  PROVE  \E c : Candidates(c, root, edits)
  <1>. DEFINE L == Len(edits)
              Body(f, n) == IF n = 0 THEN {root} ELSE Pushed(f[n - 1], edits[n])
              Is(f, m) == f = [n \in 0..m |-> Body(f, n)]
              S == {m \in Nat : \E f : Is(f, m)}
              c == CHOOSE f : Is(f, L)
  <1>1. Apply(root, edits) = c[L]
    BY DEF Apply, Pushed
  <1>2. L \in Nat
    OBVIOUS
  <1>. HIDE DEF L
  <1>3. 0 \in S
    <2>. DEFINE f == [n \in 0..0 |-> {root}]
    <2>1. Is(f, 0)
      OBVIOUS
    <2>. QED
      BY <2>1
  <1>4. ASSUME NEW m \in Nat, m \in S PROVE m + 1 \in S
    <2>1. PICK f : Is(f, m)
      BY <1>4
    <2>. DEFINE g == [n \in 0..(m + 1) |-> IF n <= m THEN f[n] ELSE Pushed(f[m], edits[m + 1])]
    <2>2. \A n \in 0..m : f[n] = Body(f, n)
      BY <2>1
    <2>3. ASSUME NEW n \in 0..(m + 1) PROVE g[n] = Body(g, n)
      <3>1. CASE n = 0
        BY <2>2, <3>1
      <3>2. CASE n \in 1..m
        <4>1. g[n] = f[n] /\ g[n - 1] = f[n - 1]
          BY <3>2
        <4>. QED
          BY <2>2, <3>2, <4>1
      <3>3. CASE n = m + 1
        <4>1. g[n] = Pushed(f[m], edits[n]) /\ g[n - 1] = f[m] /\ n # 0
          BY <3>3
        <4>. QED
          BY <4>1
      <3>. QED
        BY <3>1, <3>2, <3>3
    <2>4. g = [n \in 0..(m + 1) |-> Body(g, n)]
      <3>1. g = [n \in 0..(m + 1) |-> g[n]]
        OBVIOUS
      <3>. HIDE DEF g, Body
      <3>. QED
        BY <2>3, <3>1
    <2>. HIDE DEF g
    <2>. QED
      BY <2>4
  <1>. HIDE DEF S, Is
  <1>5. L \in S
    BY <1>2, <1>3, <1>4, SetInd
  <1>6. Is(c, L)
    BY <1>5 DEF S
  <1>. HIDE DEF c
  <1>7. \A n \in 0..L : c[n] = Body(c, n)
    BY <1>6 DEF Is
  <1>8. c[0] = {root} /\ \A n \in 1..L : c[n] = Pushed(c[n - 1], edits[n])
    BY <1>2, <1>7
  <1>. QED
    BY <1>1, <1>8 DEF L, Candidates

\* The edits of one save: each slot holds one or none, they have a value, and no
\* two of them bind the same or one below the other.
Disjoint(edits) ==
    /\ Len(edits) \in Nat /\ DOMAIN edits = 1..Len(edits)
    /\ \A i \in 1..Len(edits) : \A e \in edits[i] :
         /\ e.path \in Seq(STRING) /\ e.path # <<>> /\ ~IsPrefix(e.path, UsersRoot)
         /\ e.path \in EditedPaths
         /\ e.new \in NixValues /\ e.new.kind # "set" /\ e.new.kind # "inherit"
    /\ \A i \in 1..Len(edits) : \A e, d \in edits[i] : e = d
    /\ \A i, j \in 1..Len(edits) : \A e \in edits[i], d \in edits[j] :
         i # j => ~IsPrefix(e.path, d.path)

\* The bindings of a file after some edits.
After(root, edits) ==
    {<<e.path, e.new>> : e \in edits}
    \cup {b \in Bindings(root) : \A e \in edits : ~IsPrefix(e.path, b[1])}

\* One more edit that is apart from those before.
LEMMA OneMore ==
  ASSUME NEW root, NEW D, NEW e, \A d \in D : ~IsPrefix(e.path, d.path), NEW B,
         B = {<<e.path, e.new>>} \cup {b \in After(root, D) : ~IsPrefix(e.path, b[1])}
  PROVE  B = After(root, D \cup {e})
  <1>1. ASSUME NEW b \in B PROVE b \in After(root, D \cup {e})
    BY DEF After
  <1>2. ASSUME NEW b \in After(root, D \cup {e}) PROVE b \in B
    <2>1. CASE b \in {<<d.path, d.new>> : d \in D \cup {e}}
      <3>1. PICK d \in D \cup {e} : b = <<d.path, d.new>>
        BY <2>1
      <3>2. b[1] = d.path
        BY <3>1
      <3>. QED
        BY <3>1, <3>2 DEF After
    <2>2. CASE b \in Bindings(root) /\ \A d \in D \cup {e} : ~IsPrefix(d.path, b[1])
      BY <2>2 DEF After
    <2>. QED
      BY <1>2, <2>1, <2>2 DEF After
  <1>. QED
    BY <1>1, <1>2

\* All the edits, one after the other.
LEMMA ApplyExact ==
  ASSUME NEW root, IsTree(root), Tidy(root), NEW edits, Disjoint(edits),
         NEW y \in Apply(root, edits)
  PROVE  /\ IsTree(y) /\ Tidy(y)
         /\ Bindings(y) = After(root, UNION Range(edits))
         /\ \A e \in UNION Range(edits) : e.new.kind # "unparsable"
         /\ AttrsetKeys(root, UsersRoot) \subseteq AttrsetKeys(y, UsersRoot)
  <1>. DEFINE L == Len(edits)
              D(n) == UNION {edits[i] : i \in 1..n}
              Good(z, n) == /\ IsTree(z) /\ Tidy(z) /\ Bindings(z) = After(root, D(n))
                            /\ \A e \in D(n) : e.new.kind # "unparsable"
                            /\ AttrsetKeys(root, UsersRoot) \subseteq AttrsetKeys(z, UsersRoot)
  <1>1. L \in Nat
    BY DEF Disjoint
  <1>2. PICK c : Candidates(c, root, edits)
    BY <1>1, ApplyIs
  <1>3. /\ Apply(root, edits) = c[L] /\ c[0] = {root}
        /\ \A n \in 1..L : c[n] = Pushed(c[n - 1], edits[n])
    BY <1>2 DEF Candidates
  <1>. HIDE DEF L
  <1>. DEFINE S == {n \in Nat : n <= L => \A z \in c[n] : Good(z, n)}
  <1>4. 0 \in S
    <2>1. D(0) = {}
      OBVIOUS
    <2>2. After(root, {}) = Bindings(root)
      BY DEF After
    <2>3. Good(root, 0)
      BY <2>1, <2>2
    <2>. QED
      BY <1>3, <2>3
  <1>5. ASSUME NEW n \in Nat, n \in S PROVE n + 1 \in S
    <2>. DEFINE m == n + 1
    <2>. HIDE DEF Good
    <2>. SUFFICES ASSUME m <= L, NEW z \in c[m] PROVE Good(z, m)
      OBVIOUS
    <2>. USE DEF Good
    <2>1. m \in 1..L /\ m - 1 = n /\ n <= L
      BY <1>1
    <2>2. \A x \in c[n] : Good(x, n)
      BY <1>5, <2>1
    <2>3. D(m) = D(n) \cup edits[m]
      <3>1. \A i : i \in 1..m <=> i \in 1..n \/ i = m
        BY <2>1
      <3>. QED
        BY <3>1
    <2>4. c[m] = Pushed(c[n], edits[m])
      BY <1>3, <2>1
    <2>5. z \in c[m]
      OBVIOUS
    <2>. HIDE DEF m
    <2>6. CASE edits[m] = {}
      <3>1. z \in c[n] /\ D(m) = D(n)
        BY <2>3, <2>4, <2>5, <2>6 DEF Pushed
      <3>2. Good(z, m)
        BY <2>2, <3>1
      <3>. QED
        BY <3>2
    <2>7. CASE edits[m] # {}
      <3>. HIDE DEF D
      <3>1. PICK x \in c[n], e \in edits[m] : z \in SetAttrpath(x, e.path, e.new)
        BY <2>4, <2>5, <2>7 DEF Pushed
      <3>2. /\ IsTree(x) /\ Tidy(x) /\ Bindings(x) = After(root, D(n))
            /\ \A d \in D(n) : d.new.kind # "unparsable"
            /\ AttrsetKeys(root, UsersRoot) \subseteq AttrsetKeys(x, UsersRoot)
        BY <2>2, <3>1
      <3>3. /\ e.path \in Seq(STRING) /\ e.path # <<>> /\ ~IsPrefix(e.path, UsersRoot)
            /\ e.path \in EditedPaths
            /\ e.new \in NixValues /\ e.new.kind # "set" /\ e.new.kind # "inherit"
            /\ edits[m] = {e}
        BY <2>1, <3>1 DEF Disjoint, L
      <3>4. \A d \in D(n) : ~IsPrefix(e.path, d.path)
        <4>. SUFFICES ASSUME NEW d \in D(n) PROVE ~IsPrefix(e.path, d.path)
          OBVIOUS
        <4>1. PICK i \in 1..n : d \in edits[i]
          BY DEF D
        <4>2. i \in 1..L /\ i # m
          BY <1>1, <2>1, <4>1 DEF m
        <4>. QED
          BY <2>1, <3>1, <4>1, <4>2 DEF Disjoint, L
      <3>5. /\ IsTree(z) /\ Tidy(z)
            /\ Bindings(z) = {<<e.path, e.new>>} \cup {b \in After(root, D(n)) : ~IsPrefix(e.path, b[1])}
            /\ e.new.kind # "unparsable"
            /\ AttrsetKeys(x, UsersRoot) \subseteq AttrsetKeys(z, UsersRoot)
        <4>. DEFINE x1 == e.path  v1 == e.new
        <4>1. /\ x1 \in Seq(STRING) /\ x1 # <<>> /\ x1 \in EditedPaths
              /\ v1 \in NixValues /\ v1.kind # "set" /\ v1.kind # "inherit"
              /\ z \in SetAttrpath(x, x1, v1) /\ ~IsPrefix(x1, UsersRoot)
          BY <3>1, <3>3
        <4>. HIDE DEF x1, v1
        <4>2. /\ IsTree(z) /\ Tidy(z)
              /\ Bindings(z) = {<<x1, v1>>} \cup {b \in Bindings(x) : ~IsPrefix(x1, b[1])}
          BY <3>2, <4>1, SetExact
        <4>3. /\ v1.kind # "unparsable"
              /\ AttrsetKeys(x, UsersRoot) \subseteq AttrsetKeys(z, UsersRoot)
          BY <3>2, <4>1, SetKeys
        <4>. QED
          BY <3>2, <4>2, <4>3 DEF x1, v1
      <3>6. Bindings(z) = After(root, D(n) \cup {e})
        BY <3>4, <3>5, OneMore
      <3>7. Good(z, m)
        BY <2>3, <3>2, <3>3, <3>5, <3>6
      <3>. QED
        BY <3>7
    <2>. QED
      BY <2>6, <2>7
  <1>. HIDE DEF S, Good, D
  <1>6. L \in S
    BY <1>1, <1>4, <1>5, SetInd
  <1>7. Good(y, L)
    BY <1>1, <1>3, <1>6 DEF S
  <1>8. D(L) = UNION Range(edits)
    <2>1. DOMAIN edits = 1..L
      BY DEF Disjoint, L
    <2>. QED
      BY <2>1 DEF D, Range
  <1>. QED
    BY <1>7, <1>8 DEF Good

\* The paths a save edits: none is the same as another or above it.
LEMMA PathsApart ==
  /\ HostnamePath \in Seq(STRING) /\ HostnamePath # <<>>
  /\ DomainPath \in Seq(STRING) /\ DomainPath # <<>>
  /\ ~IsPrefix(HostnamePath, DomainPath) /\ ~IsPrefix(DomainPath, HostnamePath)
  /\ \A s \in STRING :
       /\ ServicePath(s) \in Seq(STRING) /\ ServicePath(s) # <<>>
       /\ ~IsPrefix(HostnamePath, ServicePath(s)) /\ ~IsPrefix(ServicePath(s), HostnamePath)
       /\ ~IsPrefix(DomainPath, ServicePath(s)) /\ ~IsPrefix(ServicePath(s), DomainPath)
  /\ \A u \in STRING :
       /\ GroupsPath(u) \in Seq(STRING) /\ GroupsPath(u) # <<>>
       /\ ~IsPrefix(HostnamePath, GroupsPath(u)) /\ ~IsPrefix(GroupsPath(u), HostnamePath)
       /\ ~IsPrefix(DomainPath, GroupsPath(u)) /\ ~IsPrefix(GroupsPath(u), DomainPath)
  /\ \A s, u \in STRING :
       ~IsPrefix(ServicePath(s), GroupsPath(u)) /\ ~IsPrefix(GroupsPath(u), ServicePath(s))
  /\ ~IsPrefix(HostnamePath, UsersRoot) /\ ~IsPrefix(DomainPath, UsersRoot)
  /\ \A s \in STRING : ~IsPrefix(ServicePath(s), UsersRoot) /\ ~IsPrefix(GroupsPath(s), UsersRoot)
  /\ \A s, z \in STRING : s # z => ~IsPrefix(ServicePath(s), ServicePath(z))
  /\ \A u, z \in STRING : u # z => ~IsPrefix(GroupsPath(u), GroupsPath(z))
  <1>. DEFINE H == HostnamePath  D == DomainPath
              V(a) == ServicePath(a)  G(a) == GroupsPath(a)  U == UsersRoot
  <1>1. H \in Seq(STRING) /\ Len(H) = 2 /\ H[1] = "networking"
    BY Tuples, Literals DEF HostnamePath
  <1>2. D \in Seq(STRING) /\ Len(D) = 2 /\ D[1] = "fortress" /\ D[2] = "baseDomain"
    BY Tuples, Literals DEF DomainPath
  <1>3. ASSUME NEW a \in STRING
        PROVE  V(a) \in Seq(STRING) /\ Len(V(a)) = 4
               /\ V(a)[1] = "fortress" /\ V(a)[2] = "services" /\ V(a)[3] = a
    BY Tuples, Literals DEF ServicePath
  <1>4. ASSUME NEW a \in STRING
        PROVE  G(a) \in Seq(STRING) /\ Len(G(a)) = 4 /\ G(a)[1] = "users" /\ G(a)[3] = a
    BY Tuples, Literals DEF GroupsPath
  <1>5. /\ H # <<>> /\ D # <<>>
        /\ \A a \in STRING : V(a) # <<>> /\ G(a) # <<>>
    BY <1>1, <1>2, <1>3, <1>4
  <1>0. U \in Seq(STRING) /\ Len(U) = 2 /\ U[1] = "users"
    BY Tuples, Literals DEF UsersRoot
  <1>. HIDE DEF H, D, V, G, U
  <1>6. 1 \in 1..2 /\ 2 \in 1..2 /\ 1 \in 1..4 /\ 2 \in 1..4 /\ 3 \in 1..4
    OBVIOUS
  <1>7. ~IsPrefix(H, D) /\ ~IsPrefix(D, H)
    BY <1>1, <1>2, <1>6, Differ
  <1>8. ASSUME NEW s \in STRING
        PROVE  /\ ~IsPrefix(H, V(s)) /\ ~IsPrefix(V(s), H)
               /\ ~IsPrefix(D, V(s)) /\ ~IsPrefix(V(s), D)
    BY <1>1, <1>2, <1>3, <1>6, Differ
  <1>9. ASSUME NEW u \in STRING
        PROVE  /\ ~IsPrefix(H, G(u)) /\ ~IsPrefix(G(u), H)
               /\ ~IsPrefix(D, G(u)) /\ ~IsPrefix(G(u), D)
    BY <1>1, <1>2, <1>4, <1>6, Differ
  <1>10. ASSUME NEW s \in STRING, NEW u \in STRING
         PROVE  ~IsPrefix(V(s), G(u)) /\ ~IsPrefix(G(u), V(s))
    BY <1>3, <1>4, <1>6, Differ
  <1>11. ASSUME NEW s \in STRING, NEW z \in STRING, s # z PROVE ~IsPrefix(V(s), V(z))
    BY <1>3, <1>6, <1>11, Differ
  <1>12. ASSUME NEW u \in STRING, NEW z \in STRING, u # z PROVE ~IsPrefix(G(u), G(z))
    BY <1>4, <1>6, <1>12, Differ
  <1>13. ~IsPrefix(H, U) /\ ~IsPrefix(D, U)
    BY <1>0, <1>1, <1>2, <1>6, Differ
  <1>14. ASSUME NEW s \in STRING PROVE ~IsPrefix(V(s), U) /\ ~IsPrefix(G(s), U)
    BY <1>0, <1>3, <1>4, PrefixOrder
  <1>. QED
    BY <1>1, <1>2, <1>3, <1>4, <1>5, <1>7, <1>8, <1>9, <1>10, <1>11, <1>12, <1>13, <1>14
       DEF H, D, V, G, U

\* A function from 1..n is a sequence.
LEMMA FunctionSeq ==
  ASSUME NEW S, NEW n \in Nat, NEW f \in [1..n -> S]
  PROVE  f \in Seq(S) /\ Len(f) = n
  <1>1. f \in Seq(S)
    BY SeqDef
  <1>2. Len(f) \in Nat /\ 1..Len(f) = 1..n
    BY <1>1
  <1>. QED
    BY <1>1, <1>2

\* Two slots, and those of two lists.
LEMMA Slots ==
  ASSUME NEW x, NEW y, NEW m \in Nat, NEW n \in Nat, NEW f, NEW g,
         f = [i \in 1..m |-> f[i]], g = [i \in 1..n |-> g[i]], NEW b, b = <<x, y>> \o f \o g
  PROVE  /\ Len(b) = 2 + m + n /\ DOMAIN b = 1..Len(b) /\ b[1] = x /\ b[2] = y
         /\ \A i \in 1..m : b[2 + i] = f[i]
         /\ \A i \in 1..n : b[2 + m + i] = g[i]
  <1>. DEFINE S == {x, y} \cup {f[i] : i \in 1..m} \cup {g[i] : i \in 1..n}
  <1>1. f \in Seq(S) /\ Len(f) = m
    <2>1. f \in [1..m -> S]
      OBVIOUS
    <2>. QED
      BY <2>1, FunctionSeq
  <1>2. g \in Seq(S) /\ Len(g) = n
    <2>1. g \in [1..n -> S]
      OBVIOUS
    <2>. QED
      BY <2>1, FunctionSeq
  <1>3. <<x, y>> \in Seq(S) /\ Len(<<x, y>>) = 2 /\ <<x, y>>[1] = x /\ <<x, y>>[2] = y
    OBVIOUS
  <1>. DEFINE a == <<x, y>>  c == a \o f
  <1>. HIDE DEF S, a
  <1>4. a \in Seq(S) /\ Len(a) = 2 /\ a[1] = x /\ a[2] = y
    BY <1>3 DEF a
  <1>5. /\ c \in Seq(S) /\ Len(c) = 2 + m /\ c[1] = x /\ c[2] = y
        /\ \A i \in 1..m : c[2 + i] = f[i]
    <2>1. c \in Seq(S) /\ Len(c) = Len(a) + Len(f)
      BY <1>1, <1>4, ConcatProperties
    <2>2. \A i \in 1..(2 + m) : c[i] = IF i <= 2 THEN a[i] ELSE f[i - 2]
      <3>1. \A i \in 1..(Len(a) + Len(f)) : c[i] = IF i <= Len(a) THEN a[i] ELSE f[i - Len(a)]
        BY <1>1, <1>4, ConcatProperties, Zenon
      <3>. HIDE DEF c
      <3>. QED
        BY <1>1, <1>4, <3>1
    <2>3. \A i \in 1..m : 2 + i \in 1..(2 + m) /\ ~(2 + i <= 2) /\ (2 + i) - 2 = i
      OBVIOUS
    <2>4. 1 \in 1..(2 + m) /\ 2 \in 1..(2 + m) /\ 1 <= 2 /\ 2 <= 2
      OBVIOUS
    <2>. HIDE DEF c
    <2>. QED
      BY <1>1, <1>4, <2>1, <2>2, <2>3, <2>4
  <1>6. b = c \o g
    BY DEF a
  <1>. HIDE DEF c
  <1>. QED
    BY <1>2, <1>5, <1>6, ConcatProperties

\* The push of a service, and that of a user's groups.
ServicePush(config, form, s) ==
    Push(config.enabled[s] # {} \/ s \in form.on, Edit(ServicePath(s), Bool(s \in form.on)))
GroupPush(config, form, u) ==
    Push(/\ u \in DOMAIN config.groups \cap DOMAIN form.groups
         /\ config.groups[u] # {} \/ form.groups[u] # <<>>,
         Edit(GroupsPath(u), QuoteList(form.groups[u])))

\* build_edits, slot by slot.
LEMMA BuildIs ==
  ASSUME NEW config, NEW form, NEW b, b = BuildEdits(config, form)
  PROVE  /\ Len(Services) \in Nat /\ Len(Users) \in Nat
         /\ Len(b) = 2 + Len(Services) + Len(Users) /\ DOMAIN b = 1..Len(b)
         /\ b[1] = Push(config.hostname # {}, Edit(HostnamePath, Quote(form.hostname)))
         /\ b[2] = Push(config.domain # {}, Edit(DomainPath, Quote(form.domain)))
         /\ \A i \in 1..Len(Services) : b[2 + i] = ServicePush(config, form, Services[i])
         /\ \A i \in 1..Len(Users) : b[2 + Len(Services) + i] = GroupPush(config, form, Users[i])
  <1>1. /\ Len(Services) \in Nat /\ DOMAIN Services = 1..Len(Services)
        /\ Len(Users) \in Nat /\ DOMAIN Users = 1..Len(Users)
    BY Names
  <1>. DEFINE x == Push(config.hostname # {}, Edit(HostnamePath, Quote(form.hostname)))
              y == Push(config.domain # {}, Edit(DomainPath, Quote(form.domain)))
              f == [i \in 1..Len(Services) |-> ServicePush(config, form, Services[i])]
              g == [i \in 1..Len(Users) |-> GroupPush(config, form, Users[i])]
              m == Len(Services)  n == Len(Users)
  <1>2. ServiceEdits(config, form) = f
    BY <1>1 DEF ServiceEdits, ServicePush
  <1>3. GroupEdits(config, form) = g
    BY <1>1 DEF GroupEdits, GroupPush
  <1>. HIDE DEF x, y
  <1>4. b = <<x, y>> \o f \o g
    <2>. HIDE DEF f, g
    <2>. QED
      BY <1>2, <1>3 DEF BuildEdits, x, y
  <1>5. /\ f = [i \in 1..m |-> f[i]] /\ g = [i \in 1..n |-> g[i]]
        /\ \A i \in 1..m : f[i] = ServicePush(config, form, Services[i])
        /\ \A i \in 1..n : g[i] = GroupPush(config, form, Users[i])
    OBVIOUS
  <1>. HIDE DEF f, g, m, n
  <1>6. /\ Len(b) = 2 + m + n /\ DOMAIN b = 1..Len(b) /\ b[1] = x /\ b[2] = y
        /\ \A i \in 1..m : b[2 + i] = f[i]
        /\ \A i \in 1..n : b[2 + m + i] = g[i]
    <2>1. m \in Nat /\ n \in Nat
      BY <1>1 DEF m, n
    <2>. QED
      BY <1>4, <1>5, <2>1, Slots
  <1>. QED
    BY <1>1, <1>5, <1>6 DEF m, n, x, y

\* What a push may hold.
LEMMA PushIs ==
  ASSUME NEW c, NEW e, NEW d \in Push(c, e) PROVE d = e
  BY DEF Push

\* Values of the schema.
LEMMA ValueIs ==
  ASSUME NEW k \in Kinds, NEW x \in Seq(STRING), k # "set", k # "inherit"
  PROVE  /\ Value(k, x) \in NixValues /\ Value(k, x).kind = k /\ Value(k, x).text = x
         /\ Value(k, x).kind # "set" /\ Value(k, x).kind # "inherit"
  BY DEF Value, NixValues

LEMMA QuoteIs ==
  ASSUME NEW s \in STRING
  PROVE  Quote(s) \in NixValues /\ Quote(s).kind # "set" /\ Quote(s).kind # "inherit"
  <1>1. <<s>> \in Seq(STRING)
    BY Tuples
  <1>. QED
    <2>1. \A k \in {"other", "unparsable", "str"} : k \in Kinds /\ k # "set" /\ k # "inherit"
      BY DEF Kinds
    <2>2. \A k \in {"other", "unparsable", "str"} :
            Value(k, <<s>>) \in NixValues /\ Value(k, <<s>>).kind # "set" /\ Value(k, <<s>>).kind # "inherit"
      BY <1>1, <2>1, ValueIs
    <2>. QED
      BY <2>2 DEF Quote

LEMMA ListIs ==
  ASSUME NEW x \in Seq(STRING)
  PROVE  QuoteList(x) \in NixValues /\ QuoteList(x).kind # "set" /\ QuoteList(x).kind # "inherit"
  <1>. DEFINE k == IF "unterminated" \in Range(x) THEN "unparsable"
                   ELSE IF "interpolated" \in Range(x) THEN "other" ELSE "list"
  <1>1. k \in Kinds /\ k # "set" /\ k # "inherit"
    BY DEF Kinds
  <1>2. QuoteList(x) = Value(k, x)
    BY DEF QuoteList
  <1>. HIDE DEF k
  <1>. QED
    BY <1>1, <1>2, ValueIs

\* The edits of a save are apart.
LEMMA BuildDisjoint ==
  ASSUME NEW config, NEW form \in Forms, NEW b, b = BuildEdits(config, form)
  PROVE  Disjoint(b)
  <1>. DEFINE m == Len(Services)  n == Len(Users)
              P(i) == IF i = 1 THEN HostnamePath ELSE IF i = 2 THEN DomainPath
                      ELSE IF i <= 2 + m THEN ServicePath(Services[i - 2])
                      ELSE GroupsPath(Users[i - 2 - m])
  <1>1. /\ m \in Nat /\ n \in Nat /\ Len(b) = 2 + m + n /\ DOMAIN b = 1..Len(b)
        /\ b[1] = Push(config.hostname # {}, Edit(HostnamePath, Quote(form.hostname)))
        /\ b[2] = Push(config.domain # {}, Edit(DomainPath, Quote(form.domain)))
        /\ \A i \in 1..m : b[2 + i] = ServicePush(config, form, Services[i])
        /\ \A i \in 1..n : b[2 + m + i] = GroupPush(config, form, Users[i])
    BY BuildIs
  <1>2. /\ \A i \in 1..m : Services[i] \in STRING
        /\ \A i, j \in 1..m : i # j => Services[i] # Services[j]
        /\ \A i \in 1..n : Users[i] \in STRING
        /\ \A i, j \in 1..n : i # j => Users[i] # Users[j]
    BY Names DEF IsInjective
  <1>. HIDE DEF m, n
  <1>3. \A i \in 1..Len(b) : \/ i = 1 \/ i = 2
                             \/ (i - 2 \in 1..m /\ i = 2 + (i - 2))
                             \/ (i - 2 - m \in 1..n /\ i = 2 + m + (i - 2 - m))
    BY <1>1
  <1>4. /\ P(1) = HostnamePath /\ P(2) = DomainPath
        /\ \A i \in 1..m : P(2 + i) = ServicePath(Services[i])
        /\ \A i \in 1..n : P(2 + m + i) = GroupsPath(Users[i])
    <2>1. \A i \in 1..m : 2 + i # 1 /\ 2 + i # 2 /\ 2 + i <= 2 + m /\ (2 + i) - 2 = i
      BY <1>1
    <2>2. \A i \in 1..n : /\ 2 + m + i # 1 /\ 2 + m + i # 2 /\ ~(2 + m + i <= 2 + m)
                          /\ (2 + m + i) - 2 - m = i
      BY <1>1
    <2>. QED
      BY <2>1, <2>2
  <1>5. ASSUME NEW i \in 1..Len(b), NEW e \in b[i]
        PROVE  e.path = P(i) /\ e.new \in NixValues /\ e.new.kind # "set" /\ e.new.kind # "inherit"
               /\ \A d \in b[i] : d = e
    <2>1. CASE i = 1
      <3>1. \A d \in b[i] : d = Edit(HostnamePath, Quote(form.hostname))
        BY <1>1, <2>1, PushIs
      <3>2. e.path = HostnamePath /\ e.new = Quote(form.hostname)
        BY <3>1 DEF Edit
      <3>3. form.hostname \in STRING
        BY FormShapes
      <3>. QED
        BY <1>4, <2>1, <3>1, <3>2, <3>3, QuoteIs
    <2>2. CASE i = 2
      <3>1. \A d \in b[i] : d = Edit(DomainPath, Quote(form.domain))
        BY <1>1, <2>2, PushIs
      <3>2. e.path = DomainPath /\ e.new = Quote(form.domain)
        BY <3>1 DEF Edit
      <3>3. form.domain \in STRING
        BY FormShapes
      <3>. QED
        BY <1>4, <2>2, <3>1, <3>2, <3>3, QuoteIs
    <2>3. CASE i - 2 \in 1..m /\ i = 2 + (i - 2)
      <3>. DEFINE k == i - 2  s == Services[k]
      <3>1. \A d \in b[i] : d = Edit(ServicePath(s), Bool(s \in form.on))
        BY <1>1, <2>3, PushIs DEF ServicePush
      <3>2. e.path = ServicePath(s) /\ e.new = Bool(s \in form.on)
        BY <3>1 DEF Edit
      <3>3. Bool(s \in form.on) \in NixValues /\ Bool(s \in form.on).kind # "set" /\ Bool(s \in form.on).kind # "inherit"
        <4>1. <<"true">> \in Seq(STRING) /\ <<"false">> \in Seq(STRING)
          BY Tuples, Literals
        <4>2. "bool" \in Kinds /\ "bool" # "set" /\ "bool" # "inherit"
          BY DEF Kinds
        <4>3. \A x \in Seq(STRING) : Value("bool", x) \in NixValues /\ Value("bool", x).kind # "set" /\ Value("bool", x).kind # "inherit"
          BY <4>2, ValueIs
        <4>. QED
          BY <4>1, <4>3 DEF Bool
      <3>4. P(i) = ServicePath(s)
        BY <1>4, <2>3
      <3>. QED
        BY <3>1, <3>2, <3>3, <3>4
    <2>4. CASE i - 2 - m \in 1..n /\ i = 2 + m + (i - 2 - m)
      <3>. DEFINE k == i - 2 - m  u == Users[k]
                  v == QuoteList(form.groups[u])
      <3>0. b[i] = GroupPush(config, form, u)
        BY <1>1, <2>4
      <3>1. \A d \in b[i] : d = Edit(GroupsPath(u), v)
        BY <3>0, PushIs DEF GroupPush
      <3>2. e.path = GroupsPath(u) /\ e.new = v
        BY <3>1 DEF Edit
      <3>3. u \in DOMAIN form.groups
        BY <3>0 DEF GroupPush, Push
      <3>4. form.groups[u] \in Seq(STRING)
        BY <3>3, FormShapes
      <3>5. P(i) = GroupsPath(u)
        BY <1>4, <2>4
      <3>6. v \in NixValues /\ v.kind # "set" /\ v.kind # "inherit"
        BY <3>4, ListIs
      <3>. QED
        BY <3>1, <3>2, <3>5, <3>6
    <2>. QED
      BY <1>3, <2>1, <2>2, <2>3, <2>4
  <1>. HIDE DEF P
  <1>6. ASSUME NEW i \in 1..Len(b)
        PROVE  /\ P(i) \in Seq(STRING) /\ P(i) # <<>> /\ ~IsPrefix(P(i), UsersRoot)
               /\ P(i) \in EditedPaths
    <2>1. P(i) \in Seq(STRING) /\ P(i) # <<>> /\ ~IsPrefix(P(i), UsersRoot)
      BY <1>2, <1>3, <1>4, PathsApart
    <2>2. /\ \A k \in 1..m : Services[k] \in Range(Services)
          /\ \A k \in 1..n : Users[k] \in Range(Users)
      BY Names DEF Range, m, n
    <2>3. P(i) \in EditedPaths
      BY <1>3, <1>4, <2>2 DEF EditedPaths
    <2>. QED
      BY <2>1, <2>3
  <1>7. ASSUME NEW i \in 1..Len(b), NEW j \in 1..Len(b), i # j
        PROVE  ~IsPrefix(P(i), P(j))
    <2>1. CASE i = 1
      BY <1>2, <1>3, <1>4, <1>7, <2>1, PathsApart
    <2>2. CASE i = 2
      BY <1>2, <1>3, <1>4, <1>7, <2>2, PathsApart
    <2>3. CASE i - 2 \in 1..m /\ i = 2 + (i - 2)
      <3>1. PICK k \in 1..m : i = 2 + k
        BY <2>3
      <3>2. P(i) = ServicePath(Services[k]) /\ Services[k] \in STRING
        BY <1>2, <1>4, <3>1
      <3>3. CASE j - 2 \in 1..m /\ j = 2 + (j - 2)
        <4>1. PICK l \in 1..m : j = 2 + l
          BY <3>3
        <4>2. P(j) = ServicePath(Services[l]) /\ Services[l] \in STRING /\ Services[k] # Services[l]
          BY <1>2, <1>4, <1>7, <3>1, <4>1
        <4>. QED
          BY <3>2, <4>2, PathsApart
      <3>. QED
        BY <1>2, <1>3, <1>4, <3>2, <3>3, PathsApart
    <2>4. CASE i - 2 - m \in 1..n /\ i = 2 + m + (i - 2 - m)
      <3>1. PICK k \in 1..n : i = 2 + m + k
        BY <2>4
      <3>2. P(i) = GroupsPath(Users[k]) /\ Users[k] \in STRING
        BY <1>2, <1>4, <3>1
      <3>3. CASE j - 2 - m \in 1..n /\ j = 2 + m + (j - 2 - m)
        <4>1. PICK l \in 1..n : j = 2 + m + l
          BY <3>3
        <4>2. P(j) = GroupsPath(Users[l]) /\ Users[l] \in STRING /\ Users[k] # Users[l]
          BY <1>2, <1>4, <1>7, <3>1, <4>1
        <4>. QED
          BY <3>2, <4>2, PathsApart
      <3>4. CASE j - 2 \in 1..m /\ j = 2 + (j - 2)
        <4>1. PICK l \in 1..m : j = 2 + l
          BY <3>4
        <4>2. P(j) = ServicePath(Services[l]) /\ Services[l] \in STRING
          BY <1>2, <1>4, <4>1
        <4>. QED
          BY <3>2, <4>2, PathsApart
      <3>. QED
        BY <1>3, <1>4, <3>2, <3>3, <3>4, PathsApart
    <2>. QED
      BY <1>3, <2>1, <2>2, <2>3, <2>4
  <1>8. Len(b) \in Nat /\ DOMAIN b = 1..Len(b)
    BY <1>1
  <1>9. \A i \in 1..Len(b) : \A e \in b[i] :
          /\ e.path \in Seq(STRING) /\ e.path # <<>> /\ ~IsPrefix(e.path, UsersRoot)
          /\ e.path \in EditedPaths
          /\ e.new \in NixValues /\ e.new.kind # "set" /\ e.new.kind # "inherit"
    BY <1>5, <1>6
  <1>10. \A i \in 1..Len(b) : \A e, d \in b[i] : e = d
    BY <1>5
  <1>11. \A i, j \in 1..Len(b) : \A e \in b[i], d \in b[j] : i # j => ~IsPrefix(e.path, d.path)
    BY <1>5, <1>7
  <1>. QED
    BY <1>8, <1>9, <1>10, <1>11 DEF Disjoint

-----------------------------------------------------------------------------
(***************************************************************************)
(* The requests.                                                           *)
(***************************************************************************)

\* The fields of a request.
Fields == {"at", "kind", "token", "form", "edits", "base", "new", "clean", "start", "dots"}

\* What a request keeps when some of its fields change.
LEMMA AtIs ==
  ASSUME NEW q, DOMAIN q = Fields, NEW a, NEW w,
         w = [q EXCEPT !.at = a]
  PROVE  /\ DOMAIN w = Fields /\ w.at = a /\ w.kind = q.kind /\ w.token = q.token
         /\ w.form = q.form /\ w.edits = q.edits /\ w.base = q.base /\ w.new = q.new
         /\ w.clean = q.clean /\ w.start = q.start /\ w.dots = q.dots
  BY DEF Fields

LEMMA CleanIs ==
  ASSUME NEW q, DOMAIN q = Fields, NEW c, NEW w,
         w = [q EXCEPT !.clean = c]
  PROVE  /\ DOMAIN w = Fields /\ w.at = q.at /\ w.kind = q.kind /\ w.token = q.token
         /\ w.form = q.form /\ w.edits = q.edits /\ w.base = q.base /\ w.new = q.new
         /\ w.clean = c /\ w.start = q.start /\ w.dots = q.dots
  BY DEF Fields

LEMMA DotIs ==
  ASSUME NEW q, DOMAIN q = Fields, NEW u, NEW d, NEW w,
         w = [q EXCEPT !.dots[u] = d]
  PROVE  /\ DOMAIN w = Fields /\ w.at = q.at /\ w.kind = q.kind /\ w.token = q.token
         /\ w.form = q.form /\ w.edits = q.edits /\ w.base = q.base /\ w.new = q.new
         /\ w.clean = q.clean /\ w.start = q.start /\ w.dots = [q.dots EXCEPT ![u] = d]
  BY DEF Fields

LEMMA NoReqIs ==
  /\ DOMAIN NoReq = Fields /\ NoReq.at = "idle" /\ NoReq.kind = "none" /\ NoReq.token = NoToken
  /\ NoReq.start = 0 /\ NoReq.dots = [u \in Urls |-> "none"]
  BY DEF NoReq, Fields

-----------------------------------------------------------------------------
(***************************************************************************)
(* The invariant.                                                          *)
(***************************************************************************)

\* A save under way: its edits are apart, its new file is the one it read with
\* these edits, and while nobody else has written the file, both are what the
\* file and the form say.
SaveOK(q, root) ==
    /\ q.kind = "save" => q.form \in Forms
    /\ q.at \in {"save", "write", "rename"} =>
         /\ q.kind = "save" /\ Disjoint(q.edits)
         /\ q.clean => q.edits = BuildEdits(Extract(root), q.form)
    /\ q.at \in {"write", "rename"} =>
         /\ IsTree(q.new) /\ Tidy(q.new)
         /\ Bindings(q.new) = After(q.base, UNION Range(q.edits))
         /\ \A e \in UNION Range(q.edits) : e.new.kind # "unparsable"
         /\ AttrsetKeys(q.base, UsersRoot) \subseteq AttrsetKeys(q.new, UsersRoot)
         /\ q.clean => q.base = root

\* Behind the gate there are only tokens that were issued.
TokenOK(q, issued) ==
    /\ q.token \in Tokens \cup {NoToken}
    /\ q.at = "handler" => q.token \in Tokens /\ issued[q.token] # Never

\* A dot is green only when the service was up within the TTL of the request.
DotsOK(q, now, last) ==
    /\ q.start \in Nat /\ q.start <= now /\ DOMAIN q.dots = Urls
    /\ q.at = "landing" => \A u \in Urls : q.dots[u] = "up" => q.start - last[u] < CacheTtl

\* What is known of one request, and of all of them.
ReqOK(q, root, issued, now, last) ==
    /\ DOMAIN q = Fields
    /\ SaveOK(q, root) /\ TokenOK(q, issued) /\ DotsOK(q, now, last)

ReqsOK ==
    /\ DOMAIN req = Reqs
    /\ \A r \in Reqs : ReqOK(req[r], file.root, born, clock, upAt)

\* The file is as Whole wants it, and not torn unless a hand edit broke it.
FileOK ==
    /\ IsTree(file.root) /\ Tidy(file.root)
    /\ file.state = "ok" \/ hand # "ok"

\* A session ends its 24 hours after it began; without faults a logout ends it.
SessionsOK ==
    /\ faults \in Nat
    /\ session \in [Tokens -> Int] /\ born \in [Tokens -> Int]
    /\ \A t \in Tokens : session[t] # Never => born[t] # Never /\ session[t] = born[t] + SessionTtl
    /\ \A t \in out : t \in Tokens /\ born[t] # Never /\ (faults = 0 => session[t] = Never)

\* A cached good answer is no newer than the service's last moment up.
CacheOK ==
    /\ clock \in Nat
    /\ cache \in [Urls -> [at : Int, healthy : BOOLEAN]]
    /\ up \in [Urls -> BOOLEAN] /\ upAt \in [Urls -> Nat]
    /\ \A u \in Urls :
         /\ upAt[u] <= clock /\ (up[u] => upAt[u] = clock)
         /\ cache[u].healthy /\ cache[u].at # Never => cache[u].at <= upAt[u]

\* The inductive invariant.
Inv == ReqsOK /\ FileOK /\ SessionsOK /\ CacheOK

\* Of a request that is not there nothing is claimed.
LEMMA NoReqOK ==
  ASSUME NEW root, NEW issued, NEW now \in Nat, NEW last
  PROVE  ReqOK(NoReq, root, issued, now, last)
  BY NoReqIs DEF ReqOK, SaveOK, TokenOK, DotsOK

\* Time only makes a request's state truer.
LEMMA Later ==
  ASSUME NEW q, NEW root, NEW issued, NEW issued2, NEW now \in Nat, NEW now2 \in Nat,
         NEW last, NEW last2, ReqOK(q, root, issued, now, last), now <= now2,
         \A t \in Tokens : issued[t] # Never => issued2[t] # Never,
         \A u \in Urls : last[u] \in Nat /\ last2[u] \in Nat /\ last[u] <= last2[u]
  PROVE  ReqOK(q, root, issued2, now2, last2)
  <1>1. TokenOK(q, issued2)
    BY DEF ReqOK, TokenOK
  <1>2. DotsOK(q, now2, last2)
    <2>1. q.start \in Nat /\ q.start <= now2 /\ DOMAIN q.dots = Urls
      BY DEF ReqOK, DotsOK
    <2>2. CacheTtl \in Nat
      BY Shapes
    <2>3. ASSUME q.at = "landing", NEW u \in Urls, q.dots[u] = "up"
          PROVE  q.start - last2[u] < CacheTtl
      <3>1. q.start - last[u] < CacheTtl
        BY <2>3 DEF ReqOK, DotsOK
      <3>. QED
        BY <2>1, <2>2, <3>1
    <2>. QED
      BY <2>1, <2>3 DEF DotsOK
  <1>. QED
    BY <1>1, <1>2 DEF ReqOK

\* A save whose file somebody else writes.
LEMMA Dirtied ==
  ASSUME NEW q, NEW root, NEW root2, NEW issued, NEW now, NEW last, NEW w,
         ReqOK(q, root, issued, now, last), w = [q EXCEPT !.clean = FALSE]
  PROVE  ReqOK(w, root2, issued, now, last)
  <1>1. DOMAIN q = Fields
    BY DEF ReqOK
  <1>2. /\ DOMAIN w = Fields /\ w.at = q.at /\ w.kind = q.kind /\ w.token = q.token
        /\ w.form = q.form /\ w.edits = q.edits /\ w.base = q.base /\ w.new = q.new
        /\ w.clean = FALSE /\ w.start = q.start /\ w.dots = q.dots
    BY <1>1, CleanIs
  <1>3. SaveOK(w, root2)
    BY <1>2, Zenon DEF ReqOK, SaveOK
  <1>4. TokenOK(w, issued) /\ DotsOK(w, now, last)
    BY <1>2 DEF ReqOK, TokenOK, DotsOK
  <1>. QED
    BY <1>2, <1>3, <1>4 DEF ReqOK

\* One request takes a step.
LEMMA OneStep ==
  ASSUME Inv, NEW r \in Reqs, NEW to, Step(r, to), ReqOK(to, file.root, born, clock, upAt),
         UNCHANGED <<file, clock, history>>
  PROVE  ReqsOK' /\ FileOK'
  <1>1. /\ DOMAIN req' = Reqs /\ req'[r] = to
        /\ \A s \in Reqs : s # r => req'[s] = req[s]
    BY DEF Inv, ReqsOK, Step
  <1>2. file' = file /\ hand' = hand /\ born' = born /\ clock' = clock /\ upAt' = upAt
    BY DEF history
  <1>3. \A s \in Reqs : ReqOK(req'[s], file.root, born, clock, upAt)
    BY <1>1 DEF Inv, ReqsOK
  <1>. QED
    BY <1>1, <1>2, <1>3 DEF Inv, ReqsOK, FileOK

\* One request is answered.
LEMMA OneAnswer ==
  ASSUME Inv, NEW r \in Reqs, Answer(r), UNCHANGED <<file, clock, history>>
  PROVE  ReqsOK' /\ FileOK'
  <1>1. ReqOK(NoReq, file.root, born, clock, upAt)
    BY NoReqOK DEF Inv, CacheOK
  <1>2. Step(r, NoReq)
    BY DEF Answer, Step
  <1>. QED
    BY <1>1, <1>2, OneStep

\* Faults only weaken what is said of the sessions.
LEMMA SessionsSame ==
  ASSUME Inv, UNCHANGED <<session, history>>, faults' \in Nat, faults <= faults'
  PROVE  SessionsOK'
  <1>1. session' = session /\ born' = born /\ out' = out
    BY DEF history
  <1>2. faults \in Nat /\ (faults' = 0 => faults = 0)
    BY DEF Inv, SessionsOK
  <1>. QED
    BY <1>1, <1>2 DEF Inv, SessionsOK

\* What leaves the cache and the services alone.
LEMMA CacheSame ==
  ASSUME Inv, UNCHANGED <<cache, up, clock, history>>
  PROVE  CacheOK'
  <1>1. cache' = cache /\ up' = up /\ clock' = clock /\ upAt' = upAt
    BY DEF history
  <1>. QED
    BY <1>1 DEF Inv, CacheOK

\* A counter of faults.
LEMMA Faults ==
  ASSUME Inv, Fault \/ UNCHANGED faults
  PROVE  faults \in Nat /\ faults' \in Nat /\ faults <= faults'
  BY DEF Inv, SessionsOK, Fault

\* A request arrives.
LEMMA ArrivesInv ==
  ASSUME Inv, NEW r \in Reqs, NEW new, Arrives(r, new), ReqOK(new, file.root, born, clock, upAt)
  PROVE  Inv'
  <1>1. Step(r, new) /\ UNCHANGED <<file, session, cache, up, clock, hands, faults, history>>
    BY DEF Arrives
  <1>2. ReqsOK' /\ FileOK'
    BY <1>1, OneStep
  <1>3. SessionsOK'
    BY <1>1, SessionsSame, Faults
  <1>4. CacheOK'
    BY <1>1, CacheSame
  <1>. QED
    BY <1>2, <1>3, <1>4 DEF Inv

-----------------------------------------------------------------------------
(***************************************************************************)
(* Every action keeps the invariant.                                       *)
(***************************************************************************)

LEMMA LoginPostInv ==
  ASSUME Inv, NEW r \in Reqs, LoginPost(r)
  PROVE  Inv'
  <1>. DEFINE w == [NoReq EXCEPT !.at = "login", !.kind = "login"]
  <1>1. /\ DOMAIN w = Fields /\ w.at = "login" /\ w.kind = "login" /\ w.token = NoToken
        /\ w.start = 0 /\ w.dots = [u \in Urls |-> "none"]
    BY NoReqIs DEF Fields
  <1>2. Arrives(r, w)
    BY DEF LoginPost
  <1>. HIDE DEF w
  <1>3. ReqOK(w, file.root, born, clock, upAt)
    BY <1>1 DEF ReqOK, SaveOK, TokenOK, DotsOK, Inv, CacheOK
  <1>. QED
    BY <1>2, <1>3, ArrivesInv

LEMMA CreateSessionInv ==
  ASSUME Inv, NEW r \in Reqs, CreateSession(r)
  PROVE  Inv'
  <1>1. /\ Answer(r) /\ file' = file /\ cache' = cache /\ up' = up /\ clock' = clock
        /\ hand' = hand /\ out' = out /\ upAt' = upAt
    BY DEF CreateSession
  <1>2. CASE \E t \in Tokens : /\ born[t] = Never
                               /\ session' = [session EXCEPT ![t] = clock + SessionTtl]
                               /\ born' = [born EXCEPT ![t] = clock]
                               /\ UNCHANGED faults
    <2>1. PICK t \in Tokens : /\ born[t] = Never
                              /\ session' = [session EXCEPT ![t] = clock + SessionTtl]
                              /\ born' = [born EXCEPT ![t] = clock]
                              /\ UNCHANGED faults
      BY <1>2
    <2>2. clock \in Nat /\ SessionTtl \in Nat /\ faults \in Nat
      BY Shapes DEF Inv, CacheOK, SessionsOK
    <2>3. /\ born \in [Tokens -> Int] /\ born' \in [Tokens -> Int] /\ born'[t] = clock
          /\ \A x \in Tokens : x # t => born'[x] = born[x]
          /\ session' \in [Tokens -> Int] /\ session'[t] = clock + SessionTtl
          /\ \A x \in Tokens : x # t => session'[x] = session[x]
      BY <2>1, <2>2 DEF Inv, SessionsOK
    <2>4. clock # Never
      BY <2>2 DEF Never
    <2>5. SessionsOK'
      <3>1. t \notin out
        BY <2>1 DEF Inv, SessionsOK
      <3>. QED
        BY <1>1, <2>1, <2>2, <2>3, <2>4, <3>1 DEF Inv, SessionsOK
    <2>6. ASSUME NEW s \in Reqs PROVE ReqOK(req'[s], file.root, born', clock, upAt)
      <3>1. \A x \in Tokens : born[x] # Never => born'[x] # Never
        BY <2>3, <2>4
      <3>2. \A u \in Urls : upAt[u] \in Nat /\ upAt[u] <= upAt[u]
        BY DEF Inv, CacheOK
      <3>3. req'[s] = req[s] \/ req'[s] = NoReq
        BY <1>1 DEF Answer, Inv, ReqsOK
      <3>4. CASE req'[s] = NoReq
        BY <2>2, <3>4, NoReqOK
      <3>5. CASE req'[s] = req[s]
        <4>1. ReqOK(req[s], file.root, born, clock, upAt)
          BY DEF Inv, ReqsOK
        <4>2. ReqOK(req[s], file.root, born', clock, upAt)
          BY <2>2, <3>1, <3>2, <4>1, Later
        <4>. QED
          BY <3>5, <4>2
      <3>. QED
        BY <3>3, <3>4, <3>5
    <2>7. DOMAIN req' = Reqs
      BY <1>1 DEF Answer, Inv, ReqsOK
    <2>8. ReqsOK'
      BY <1>1, <2>6, <2>7 DEF ReqsOK
    <2>9. FileOK' /\ CacheOK'
      BY <1>1 DEF Inv, FileOK, CacheOK
    <2>. QED
      BY <2>5, <2>8, <2>9 DEF Inv
  <1>3. CASE Fault /\ UNCHANGED <<session, born>>
    <2>1. UNCHANGED <<file, clock, history>> /\ UNCHANGED <<session, history>>
          /\ UNCHANGED <<cache, up, clock, history>>
      BY <1>1, <1>3 DEF history
    <2>2. ReqsOK' /\ FileOK'
      BY <1>1, <2>1, OneAnswer
    <2>3. SessionsOK'
      BY <1>3, <2>1, Faults, SessionsSame
    <2>4. CacheOK'
      BY <2>1, CacheSame
    <2>. QED
      BY <2>2, <2>3, <2>4 DEF Inv
  <1>. QED
    BY <1>2, <1>3 DEF CreateSession

\* The requests to the guarded endpoints; only a save has a form.
LEMMA GuardedInv ==
  ASSUME Inv, NEW r \in Reqs, NEW kind, NEW t \in Tokens \cup {NoToken}, NEW form,
         kind = "save" => form \in Forms, Guarded(r, kind, t, form)
  PROVE  Inv'
  <1>. DEFINE w == [NoReq EXCEPT !.at = "gate", !.kind = kind, !.token = t, !.form = form]
  <1>1. /\ DOMAIN w = Fields /\ w.at = "gate" /\ w.kind = kind /\ w.token = t /\ w.form = form
        /\ w.start = 0 /\ w.dots = [u \in Urls |-> "none"]
    BY NoReqIs DEF Fields
  <1>2. Arrives(r, w)
    BY DEF Guarded
  <1>. HIDE DEF w
  <1>3. ReqOK(w, file.root, born, clock, upAt)
    BY <1>1 DEF ReqOK, SaveOK, TokenOK, DotsOK, Inv, CacheOK
  <1>. QED
    BY <1>2, <1>3, ArrivesInv

LEMMA LandingInv ==
  ASSUME Inv, NEW r \in Reqs, Landing(r)
  PROVE  Inv'
  <1>. DEFINE d == [u \in Urls |-> IF ~Fresh(u) THEN "stale"
                                   ELSE IF cache[u].healthy THEN "up" ELSE "down"]
              w == [NoReq EXCEPT !.at = "landing", !.kind = "landing", !.start = clock, !.dots = d]
  <1>1. Arrives(r, w)
    BY DEF Landing
  <1>2. DOMAIN d = Urls /\ \A u \in Urls : d[u] = "up" => Fresh(u) /\ cache[u].healthy
    OBVIOUS
  <1>. HIDE DEF d
  <1>3. /\ DOMAIN w = Fields /\ w.at = "landing" /\ w.kind = "landing" /\ w.token = NoToken
        /\ w.start = clock /\ w.dots = d
    BY NoReqIs DEF Fields
  <1>. HIDE DEF w
  <1>4. ASSUME NEW u \in Urls, d[u] = "up" PROVE clock - upAt[u] < CacheTtl
    <2>1. cache[u].healthy /\ cache[u].at # Never /\ clock - cache[u].at < CacheTtl
      BY <1>2, <1>4 DEF Fresh
    <2>2. cache[u].at <= upAt[u] /\ cache[u].at \in Int /\ upAt[u] \in Nat /\ clock \in Nat
      BY <2>1 DEF Inv, CacheOK
    <2>3. CacheTtl \in Nat
      BY Shapes
    <2>. QED
      BY <2>1, <2>2, <2>3
  <1>5. clock \in Nat /\ clock <= clock
    BY DEF Inv, CacheOK
  <1>6. DotsOK(w, clock, upAt)
    BY <1>2, <1>3, <1>4, <1>5 DEF DotsOK
  <1>7. ReqOK(w, file.root, born, clock, upAt)
    BY <1>3, <1>6 DEF ReqOK, SaveOK, TokenOK
  <1>. QED
    BY <1>1, <1>7, ArrivesInv

LEMMA GateRequestInv ==
  ASSUME Inv, NEW r \in Reqs, GateRequest(r)
  PROVE  Inv'
  <1>1. /\ UNCHANGED <<file, session, cache, up, clock, requests, hands, history>>
        /\ Fault \/ UNCHANGED faults
    BY DEF GateRequest
  <1>2. CASE Answer(r)
    BY <1>1, <1>2, OneAnswer, SessionsSame, CacheSame, Faults DEF Inv
  <1>3. CASE GetSession(req[r].token) /\ Step(r, [req[r] EXCEPT !.at = "handler"])
    <2>. DEFINE q == req[r]  w == [q EXCEPT !.at = "handler"]
    <2>1. ReqOK(q, file.root, born, clock, upAt) /\ q.at = "gate"
      BY DEF Inv, ReqsOK, GateRequest
    <2>2. q.token \in Tokens /\ born[q.token] # Never
      <3>1. q.token # NoToken /\ session[q.token] # Never
        BY <1>3 DEF GetSession
      <3>2. q.token \in Tokens
        BY <2>1, <3>1 DEF ReqOK, TokenOK
      <3>. QED
        BY <3>1, <3>2 DEF Inv, SessionsOK
    <2>. HIDE DEF q
    <2>3. /\ DOMAIN w = Fields /\ w.at = "handler" /\ w.kind = q.kind /\ w.token = q.token
          /\ w.form = q.form /\ w.start = q.start /\ w.dots = q.dots
      BY <2>1, AtIs DEF ReqOK
    <2>. HIDE DEF w
    <2>4. ReqOK(w, file.root, born, clock, upAt)
      BY <2>1, <2>2, <2>3 DEF ReqOK, SaveOK, TokenOK, DotsOK
    <2>5. Step(r, w)
      BY <1>3 DEF w, q
    <2>. QED
      BY <1>1, <2>4, <2>5, OneStep, SessionsSame, CacheSame, Faults DEF Inv
  <1>. QED
    BY <1>2, <1>3 DEF GateRequest

LEMMA LogoutInv ==
  ASSUME Inv, NEW r \in Reqs, Logout(r)
  PROVE  Inv'
  <1>. DEFINE t == req[r].token
  <1>1. /\ Answer(r) /\ file' = file /\ cache' = cache /\ up' = up /\ clock' = clock
        /\ hand' = hand /\ born' = born /\ upAt' = upAt /\ out' = out \cup {t}
        /\ req[r].at = "handler"
    BY DEF Logout
  <1>2. t \in Tokens /\ born[t] # Never
    BY <1>1 DEF Inv, ReqsOK, ReqOK, TokenOK
  <1>3. \/ session' = [session EXCEPT ![t] = Never] /\ UNCHANGED faults
        \/ Fault /\ UNCHANGED session
    BY DEF Logout
  <1>. HIDE DEF t
  <1>4. SessionsOK'
    <2>1. CASE session' = [session EXCEPT ![t] = Never] /\ UNCHANGED faults
      <3>1. Never \in Int
        BY DEF Never
      <3>2. /\ session' \in [Tokens -> Int] /\ session'[t] = Never
            /\ \A x \in Tokens : x # t => session'[x] = session[x]
        BY <1>2, <2>1, <3>1 DEF Inv, SessionsOK
      <3>. QED
        BY <1>1, <1>2, <2>1, <3>2 DEF Inv, SessionsOK
    <2>2. CASE Fault /\ UNCHANGED session
      <3>1. faults' \in Nat /\ faults' # 0
        BY <2>2 DEF Fault, Inv, SessionsOK
      <3>. QED
        BY <1>1, <1>2, <2>2, <3>1 DEF Inv, SessionsOK
    <2>. QED
      BY <1>3, <2>1, <2>2
  <1>5. ReqsOK' /\ FileOK'
    <2>1. /\ DOMAIN req' = Reqs /\ req'[r] = NoReq
          /\ \A s \in Reqs : s # r => req'[s] = req[s]
      BY <1>1 DEF Answer, Inv, ReqsOK
    <2>2. ReqOK(NoReq, file.root, born, clock, upAt)
      BY NoReqOK DEF Inv, CacheOK
    <2>3. \A s \in Reqs : ReqOK(req'[s], file.root, born, clock, upAt)
      BY <2>1, <2>2 DEF Inv, ReqsOK
    <2>. QED
      BY <1>1, <2>1, <2>3 DEF ReqsOK, FileOK, Inv
  <1>6. CacheOK'
    BY <1>1 DEF Inv, CacheOK
  <1>. QED
    BY <1>4, <1>5, <1>6 DEF Inv

\* The steps that answer a request and change nothing else.
LEMMA AnswerInv ==
  ASSUME Inv, NEW r \in Reqs, Answer(r), Fault \/ UNCHANGED faults,
         UNCHANGED <<file, session, cache, up, clock, requests, hands, history>>
  PROVE  Inv'
  BY OneAnswer, SessionsSame, CacheSame, Faults DEF Inv

\* The steps that change one request and nothing else.
LEMMA StepInv ==
  ASSUME Inv, NEW r \in Reqs, NEW to, Step(r, to), ReqOK(to, file.root, born, clock, upAt),
         UNCHANGED <<file, session, cache, up, clock, counters, history>>
  PROVE  Inv'
  BY OneStep, SessionsSame, CacheSame, Faults DEF Inv, counters

LEMMA SaveReadInv ==
  ASSUME Inv, NEW r \in Reqs, SaveRead(r)
  PROVE  Inv'
  <1>. DEFINE q == req[r]
              e == BuildEdits(Extract(file.root), q.form)
              w == [q EXCEPT !.at = "save", !.clean = TRUE, !.edits = e]
  <1>1. /\ Step(r, w) \/ Answer(r)
        /\ UNCHANGED <<file, session, cache, up, clock, counters, history>>
    BY DEF SaveRead
  <1>2. ReqOK(q, file.root, born, clock, upAt)
    BY DEF Inv, ReqsOK
  <1>3. q.kind = "save"
    BY DEF SaveRead
  <1>. HIDE DEF q
  <1>4. CASE Answer(r)
    BY <1>1, <1>4, AnswerInv DEF counters
  <1>5. CASE Step(r, w)
    <2>1. q.form \in Forms
      BY <1>2, <1>3 DEF ReqOK, SaveOK
    <2>2. Disjoint(e)
      BY <2>1, BuildDisjoint
    <2>3. e = BuildEdits(Extract(file.root), q.form)
      OBVIOUS
    <2>. HIDE DEF e
    <2>4. /\ DOMAIN w = Fields /\ w.at = "save" /\ w.clean = TRUE /\ w.edits = e
          /\ w.kind = q.kind /\ w.token = q.token /\ w.form = q.form
          /\ w.start = q.start /\ w.dots = q.dots
      <3>1. DOMAIN q = Fields
        BY <1>2 DEF ReqOK
      <3>. QED
        BY <3>1 DEF Fields
    <2>. HIDE DEF w
    <2>5. SaveOK(w, file.root)
      BY <1>3, <2>1, <2>2, <2>3, <2>4, Zenon DEF SaveOK
    <2>6. TokenOK(w, born) /\ DotsOK(w, clock, upAt)
      BY <1>2, <2>4 DEF ReqOK, TokenOK, DotsOK
    <2>7. ReqOK(w, file.root, born, clock, upAt)
      BY <2>4, <2>5, <2>6 DEF ReqOK
    <2>. QED
      BY <1>1, <1>5, <2>7, StepInv
  <1>. QED
    BY <1>1, <1>4, <1>5

LEMMA SaveConfigInv ==
  ASSUME Inv, NEW r \in Reqs, SaveConfig(r)
  PROVE  Inv'
  <1>. DEFINE q == req[r]
              y == CHOOSE x \in Apply(file.root, q.edits) : TRUE
              w == [q EXCEPT !.at = "write", !.base = file.root, !.new = y]
  <1>1. /\ q.at = "save"
        /\ (Apply(file.root, q.edits) # {} /\ Step(r, w)) \/ Answer(r)
        /\ UNCHANGED <<file, session, cache, up, clock, counters, history>>
    BY DEF SaveConfig
  <1>2. ReqOK(q, file.root, born, clock, upAt)
    BY DEF Inv, ReqsOK
  <1>. HIDE DEF q
  <1>3. CASE Answer(r)
    BY <1>1, <1>3, AnswerInv DEF counters
  <1>4. CASE Apply(file.root, q.edits) # {} /\ Step(r, w)
    <2>1. /\ q.kind = "save" /\ q.form \in Forms /\ Disjoint(q.edits)
          /\ q.clean => q.edits = BuildEdits(Extract(file.root), q.form)
      BY <1>1, <1>2 DEF ReqOK, SaveOK
    <2>2. y \in Apply(file.root, q.edits)
      BY <1>4
    <2>. HIDE DEF y
    <2>. DEFINE E == q.edits  R == file.root
    <2>3. /\ IsTree(y) /\ Tidy(y)
          /\ Bindings(y) = After(R, UNION Range(E))
          /\ \A e \in UNION Range(E) : e.new.kind # "unparsable"
          /\ AttrsetKeys(R, UsersRoot) \subseteq AttrsetKeys(y, UsersRoot)
      <3>1. IsTree(R) /\ Tidy(R) /\ Disjoint(E) /\ y \in Apply(R, E)
        BY <2>1, <2>2 DEF Inv, FileOK
      <3>. HIDE DEF E, R
      <3>. QED
        BY <3>1, ApplyExact
    <2>4. /\ DOMAIN w = Fields /\ w.at = "write" /\ w.base = R /\ w.new = y
          /\ w.kind = q.kind /\ w.token = q.token /\ w.form = q.form /\ w.edits = E
          /\ w.clean = q.clean /\ w.start = q.start /\ w.dots = q.dots
      <3>1. DOMAIN q = Fields
        BY <1>2 DEF ReqOK
      <3>. HIDE DEF E, R
      <3>2. w.edits = q.edits /\ w.base = file.root
        BY <3>1 DEF Fields
      <3>. QED
        BY <3>1, <3>2 DEF Fields, E, R
    <2>5. Step(r, w)
      BY <1>4
    <2>6. q.clean => E = BuildEdits(Extract(R), q.form)
      BY <2>1
    <2>7. q.kind = "save" /\ q.form \in Forms /\ Disjoint(E)
      BY <2>1
    <2>8. TokenOK(q, born) /\ DotsOK(q, clock, upAt)
      BY <1>2 DEF ReqOK
    <2>. HIDE DEF w, E
    <2>9. SaveOK(w, R)
      <3>. HIDE DEF R
      <3>. QED
        BY <2>3, <2>4, <2>6, <2>7, Zenon DEF SaveOK
    <2>10. TokenOK(w, born) /\ DotsOK(w, clock, upAt)
      BY <2>4, <2>8 DEF TokenOK, DotsOK
    <2>11. ReqOK(w, file.root, born, clock, upAt)
      BY <2>4, <2>9, <2>10 DEF ReqOK
    <2>. QED
      BY <1>1, <2>5, <2>11, StepInv
  <1>. QED
    BY <1>1, <1>3, <1>4

LEMMA WriteTmpInv ==
  ASSUME Inv, NEW r \in Reqs, WriteTmp(r)
  PROVE  Inv'
  <1>. DEFINE q == req[r]  w == [q EXCEPT !.at = "rename"]
  <1>1. /\ q.at = "write"
        /\ UNCHANGED <<file, session, cache, up, clock, requests, hands, history>>
        /\ (Step(r, w) /\ UNCHANGED faults) \/ (Fault /\ Answer(r))
    BY DEF WriteTmp
  <1>2. ReqOK(q, file.root, born, clock, upAt)
    BY DEF Inv, ReqsOK
  <1>. HIDE DEF q
  <1>3. CASE Fault /\ Answer(r)
    BY <1>1, <1>3, AnswerInv
  <1>4. CASE Step(r, w) /\ UNCHANGED faults
    <2>1. /\ DOMAIN w = Fields /\ w.at = "rename" /\ w.kind = q.kind /\ w.token = q.token
          /\ w.form = q.form /\ w.edits = q.edits /\ w.base = q.base /\ w.new = q.new
          /\ w.clean = q.clean /\ w.start = q.start /\ w.dots = q.dots
      BY <1>2, AtIs DEF ReqOK
    <2>2. Step(r, w) /\ UNCHANGED counters
      BY <1>1, <1>4 DEF counters
    <2>. HIDE DEF w
    <2>3. SaveOK(w, file.root)
      <3>1. SaveOK(q, file.root)
        BY <1>2 DEF ReqOK
      <3>. QED
        BY <1>1, <2>1, <3>1, Zenon DEF SaveOK
    <2>4. TokenOK(w, born) /\ DotsOK(w, clock, upAt)
      BY <1>2, <2>1 DEF ReqOK, TokenOK, DotsOK
    <2>5. ReqOK(w, file.root, born, clock, upAt)
      BY <2>1, <2>3, <2>4 DEF ReqOK
    <2>. QED
      BY <1>1, <2>2, <2>5, StepInv
  <1>. QED
    BY <1>1, <1>3, <1>4

\* Whoever writes the file writes a good one.
LEMMA ReplaceInv ==
  ASSUME Inv, NEW f, NEW others, Replace(f, others), IsTree(f.root), Tidy(f.root),
         f.state = "ok" \/ hand' # "ok", faults' = faults,
         UNCHANGED <<session, cache, up, clock, born, out, upAt>>
  PROVE  Inv'
  <1>1. /\ file' = f /\ DOMAIN req' = Reqs
        /\ \A r \in Reqs : req'[r] = NoReq \/ req'[r] = [req[r] EXCEPT !.clean = FALSE]
    BY DEF Replace
  <1>2. ASSUME NEW r \in Reqs PROVE ReqOK(req'[r], f.root, born, clock, upAt)
    <2>1. CASE req'[r] = NoReq
      BY <2>1, NoReqOK DEF Inv, CacheOK
    <2>2. CASE req'[r] = [req[r] EXCEPT !.clean = FALSE]
      <3>. DEFINE q == req[r]  w == req'[r]
      <3>1. ReqOK(q, file.root, born, clock, upAt) /\ w = [q EXCEPT !.clean = FALSE]
        BY <2>2 DEF Inv, ReqsOK
      <3>. HIDE DEF q, w
      <3>2. ReqOK(w, f.root, born, clock, upAt)
        BY <3>1, Dirtied
      <3>. QED
        BY <3>2 DEF w
    <2>. QED
      BY <1>1, <2>1, <2>2
  <1>3. ReqsOK'
    BY <1>1, <1>2 DEF ReqsOK
  <1>4. FileOK'
    BY <1>1 DEF FileOK
  <1>5. SessionsOK' /\ CacheOK'
    BY DEF Inv, SessionsOK, CacheOK
  <1>. QED
    BY <1>3, <1>4, <1>5 DEF Inv

LEMMA RenameInv ==
  ASSUME Inv, NEW r \in Reqs, Rename(r)
  PROVE  Inv'
  <1>1. /\ req[r].at = "rename"
        /\ UNCHANGED <<session, cache, up, clock, requests, hands, history>>
    BY DEF Rename
  <1>2. CASE Replace([state |-> "ok", root |-> req[r].new], Reqs \ {r}) /\ UNCHANGED faults
    <2>. DEFINE f == [state |-> "ok", root |-> req[r].new]
    <2>1. f.state = "ok" /\ f.root = req[r].new /\ Replace(f, Reqs \ {r})
      BY <1>2
    <2>. HIDE DEF f
    <2>2. IsTree(req[r].new) /\ Tidy(req[r].new)
      BY <1>1 DEF Inv, ReqsOK, ReqOK, SaveOK
    <2>3. UNCHANGED <<session, cache, up, clock, born, out, upAt>> /\ faults' = faults
      BY <1>1, <1>2 DEF history
    <2>. QED
      BY <2>1, <2>2, <2>3, ReplaceInv
  <1>3. CASE Fault /\ Answer(r) /\ UNCHANGED file
    BY <1>1, <1>3, AnswerInv
  <1>. QED
    BY <1>2, <1>3 DEF Rename

LEMMA HandEditInv ==
  ASSUME Inv, NEW f \in Files, HandEdit(f)
  PROVE  Inv'
  <1>1. /\ Replace(f, Reqs) /\ hand' = f.state /\ faults' = faults
        /\ UNCHANGED <<session, cache, up, clock, born, out, upAt>>
    BY DEF HandEdit
  <1>2. IsTree(f.root) /\ Tidy(f.root)
    BY Shapes, Whole
  <1>. QED
    BY <1>1, <1>2, ReplaceInv

LEMMA ProbeStartInv ==
  ASSUME Inv, NEW r \in Reqs, NEW u \in Urls, ProbeStart(r, u)
  PROVE  Inv'
  <1>. DEFINE q == req[r]  w == [q EXCEPT !.dots[u] = "probing"]
  <1>1. /\ q.at = "landing" /\ Step(r, w)
        /\ UNCHANGED <<file, session, cache, up, clock, counters, history>>
    BY DEF ProbeStart
  <1>2. ReqOK(q, file.root, born, clock, upAt)
    BY DEF Inv, ReqsOK
  <1>. HIDE DEF q
  <1>3. /\ DOMAIN w = Fields /\ w.at = q.at /\ w.kind = q.kind /\ w.token = q.token
        /\ w.form = q.form /\ w.start = q.start /\ w.dots = [q.dots EXCEPT ![u] = "probing"]
    BY <1>2, DotIs DEF ReqOK
  <1>. HIDE DEF w
  <1>4. DOMAIN w.dots = Urls /\ \A v \in Urls : w.dots[v] = "up" => q.dots[v] = "up"
    BY <1>2, <1>3 DEF ReqOK, DotsOK
  <1>5. DotsOK(w, clock, upAt)
    BY <1>2, <1>3, <1>4 DEF ReqOK, DotsOK
  <1>6. ReqOK(w, file.root, born, clock, upAt)
    BY <1>1, <1>2, <1>3, <1>5 DEF ReqOK, SaveOK, TokenOK
  <1>. QED
    BY <1>1, <1>6, StepInv

LEMMA ProbeEndInv ==
  ASSUME Inv, NEW r \in Reqs, NEW u \in Urls, ProbeEnd(r, u)
  PROVE  Inv'
  <1>1. PICK healthy \in {up[u], FALSE} :
          /\ cache' = [cache EXCEPT ![u] = [at |-> clock, healthy |-> healthy]]
          /\ Step(r, [req[r] EXCEPT !.dots[u] = IF healthy THEN "up" ELSE "down"])
    BY DEF ProbeEnd
  <1>2. req[r].at = "landing" /\ UNCHANGED <<file, session, up, clock, counters, history>>
    BY DEF ProbeEnd
  <1>3. healthy \in BOOLEAN /\ (healthy => up[u])
    BY Zenon DEF Inv, CacheOK
  <1>4. /\ clock \in Nat /\ upAt[u] \in Nat /\ (healthy => upAt[u] = clock)
    BY <1>3 DEF Inv, CacheOK
  <1>. DEFINE q == req[r]
              x == IF healthy THEN "up" ELSE "down"
              w == [q EXCEPT !.dots[u] = x]
  <1>5. x = "up" => healthy
    OBVIOUS
  <1>6. Step(r, w)
    BY <1>1
  <1>7. ReqOK(q, file.root, born, clock, upAt) /\ q.at = "landing"
    BY <1>2 DEF Inv, ReqsOK
  <1>. HIDE DEF q, x
  <1>8. /\ DOMAIN w = Fields /\ w.at = q.at /\ w.kind = q.kind /\ w.token = q.token
        /\ w.form = q.form /\ w.start = q.start /\ w.dots = [q.dots EXCEPT ![u] = x]
    BY <1>7, DotIs DEF ReqOK
  <1>. HIDE DEF w
  <1>9. DOMAIN w.dots = Urls /\ \A v \in Urls : w.dots[v] = IF v = u THEN x ELSE q.dots[v]
    BY <1>7, <1>8 DEF ReqOK, DotsOK
  <1>10. DotsOK(w, clock, upAt)
    <2>1. q.start \in Nat /\ q.start <= clock
      BY <1>7 DEF ReqOK, DotsOK
    <2>2. CacheTtl \in Nat \ {0}
      BY Shapes
    <2>3. ASSUME NEW v \in Urls, w.dots[v] = "up" PROVE q.start - upAt[v] < CacheTtl
      <3>1. CASE v = u
        BY <1>4, <1>5, <1>9, <2>1, <2>2, <2>3, <3>1
      <3>2. CASE v # u
        BY <1>7, <1>9, <2>3, <3>2 DEF ReqOK, DotsOK
      <3>. QED
        BY <3>1, <3>2
    <2>. QED
      BY <1>8, <1>9, <2>1, <2>3 DEF DotsOK
  <1>11. ReqOK(w, file.root, born, clock, upAt)
    BY <1>7, <1>8, <1>10 DEF ReqOK, SaveOK, TokenOK
  <1>12. ReqsOK' /\ FileOK'
    BY <1>2, <1>6, <1>11, OneStep
  <1>13. SessionsOK'
    BY <1>2, Faults, SessionsSame DEF counters
  <1>14. CacheOK'
    <2>. DEFINE c == [at |-> clock, healthy |-> healthy]
    <2>1. c \in [at : Int, healthy : BOOLEAN] /\ c.at = clock /\ c.healthy = healthy
      BY <1>3, <1>4
    <2>. HIDE DEF c
    <2>2. cache' = [cache EXCEPT ![u] = c]
      BY <1>1 DEF c
    <2>3. /\ cache' \in [Urls -> [at : Int, healthy : BOOLEAN]] /\ cache'[u] = c
          /\ \A v \in Urls : v # u => cache'[v] = cache[v]
      BY <2>1, <2>2 DEF Inv, CacheOK
    <2>4. up' = up /\ clock' = clock /\ upAt' = upAt
      BY <1>2 DEF history
    <2>5. cache'[u].healthy /\ cache'[u].at # Never => cache'[u].at <= upAt[u]
      BY <1>4, <2>1, <2>3
    <2>. QED
      BY <2>3, <2>4, <2>5 DEF Inv, CacheOK
  <1>. QED
    BY <1>12, <1>13, <1>14 DEF Inv

LEMMA FlipInv ==
  ASSUME Inv, NEW u \in Urls, Flip(u)
  PROVE  Inv'
  <1>1. /\ up' = [up EXCEPT ![u] = FALSE]
        /\ UNCHANGED <<file, session, cache, req, clock, counters, history>>
    BY DEF Flip
  <1>2. up' \in [Urls -> BOOLEAN] /\ \A v \in Urls : up'[v] => up[v]
    BY <1>1 DEF Inv, CacheOK
  <1>3. CacheOK'
    BY <1>1, <1>2 DEF Inv, CacheOK, history
  <1>4. ReqsOK' /\ FileOK' /\ SessionsOK'
    BY <1>1 DEF Inv, ReqsOK, FileOK, SessionsOK, history, counters
  <1>. QED
    BY <1>3, <1>4 DEF Inv

LEMMA TickInv ==
  ASSUME Inv, Tick
  PROVE  Inv'
  <1>1. /\ clock' = clock + 1 /\ upAt' = [u \in Urls |-> IF up[u] THEN clock + 1 ELSE upAt[u]]
        /\ UNCHANGED <<file, session, cache, up, req, counters, hand, born, out>>
    BY DEF Tick
  <1>2. clock \in Nat /\ clock' \in Nat /\ clock <= clock'
    BY <1>1 DEF Inv, CacheOK
  <1>3. /\ \A u \in Urls : upAt[u] \in Nat /\ upAt'[u] \in Nat /\ upAt[u] <= upAt'[u] /\ upAt'[u] <= clock'
        /\ \A u \in Urls : up[u] => upAt'[u] = clock'
        /\ upAt' \in [Urls -> Nat]
    BY <1>1, <1>2 DEF Inv, CacheOK
  <1>4. CacheOK'
    <2>1. ASSUME NEW u \in Urls, cache[u].healthy, cache[u].at # Never
          PROVE  cache[u].at <= upAt'[u]
      <3>1. cache[u].at <= upAt[u] /\ cache[u].at \in Int
        BY <2>1 DEF Inv, CacheOK
      <3>. QED
        BY <1>3, <3>1
    <2>2. cache' = cache /\ up' = up
      BY <1>1
    <2>. QED
      BY <1>2, <1>3, <2>1, <2>2 DEF Inv, CacheOK
  <1>5. ReqsOK'
    <2>1. ASSUME NEW r \in Reqs PROVE ReqOK(req[r], file.root, born, clock', upAt')
      <3>1. ReqOK(req[r], file.root, born, clock, upAt)
        BY DEF Inv, ReqsOK
      <3>. QED
        BY <1>2, <1>3, <3>1, Later
    <2>. QED
      BY <1>1, <2>1 DEF Inv, ReqsOK
  <1>6. FileOK' /\ SessionsOK'
    BY <1>1 DEF Inv, FileOK, SessionsOK, counters
  <1>. QED
    BY <1>4, <1>5, <1>6 DEF Inv

LEMMA CrashInv ==
  ASSUME Inv, Crash
  PROVE  Inv'
  <1>1. /\ Fault /\ req' = [r \in Reqs |-> NoReq]
        /\ cache' = [u \in Urls |-> [at |-> Never, healthy |-> FALSE]]
        /\ UNCHANGED <<file, session, up, clock, requests, hands, history>>
    BY DEF Crash
  <1>2. ReqsOK'
    BY <1>1, NoReqOK DEF Inv, ReqsOK, CacheOK, history
  <1>3. FileOK'
    BY <1>1 DEF Inv, FileOK, history
  <1>4. SessionsOK'
    BY <1>1, Faults, SessionsSame
  <1>5. CacheOK'
    <2>1. Never \in Int
      BY DEF Never
    <2>2. cache' \in [Urls -> [at : Int, healthy : BOOLEAN]] /\ \A u \in Urls : cache'[u].at = Never
      BY <1>1, <2>1
    <2>. QED
      BY <1>1, <2>2 DEF Inv, CacheOK, history
  <1>. QED
    BY <1>2, <1>3, <1>4, <1>5 DEF Inv

\* It holds at the start, and every step keeps it.
LEMMA InitInv == Init => Inv
  <1>. SUFFICES ASSUME Init PROVE Inv
    OBVIOUS
  <1>1. ReqsOK
    BY NoReqOK DEF Init, ReqsOK
  <1>2. FileOK
    BY Shapes, Whole DEF Init, FileOK
  <1>3. SessionsOK
    BY DEF Init, SessionsOK, Never
  <1>4. CacheOK
    BY DEF Init, CacheOK, Never
  <1>. QED
    BY <1>1, <1>2, <1>3, <1>4 DEF Inv

LEMMA NextInv ==
  ASSUME Inv, [Next]_vars
  PROVE  Inv'
  <1>1. CASE UNCHANGED vars
    BY <1>1 DEF vars, counters, history, Inv, ReqsOK, FileOK, SessionsOK, CacheOK
  <1>2. ASSUME NEW r \in Reqs,
               \/ LoginPost(r) \/ CreateSession(r) \/ GateRequest(r) \/ Logout(r) \/ ReadOnly(r)
               \/ SaveRead(r) \/ SaveConfig(r) \/ WriteTmp(r) \/ Rename(r)
               \/ Landing(r) \/ LandingDone(r)
        PROVE  Inv'
    <2>1. CASE ReadOnly(r)
      BY <2>1, AnswerInv DEF ReadOnly, counters
    <2>2. CASE LandingDone(r)
      BY <2>2, AnswerInv DEF LandingDone, counters
    <2>. QED
      BY <1>2, <2>1, <2>2, LoginPostInv, CreateSessionInv, GateRequestInv, LogoutInv,
         SaveReadInv, SaveConfigInv, WriteTmpInv, RenameInv, LandingInv
  <1>3. ASSUME NEW r \in Reqs, NEW u \in Urls, ProbeStart(r, u) \/ ProbeEnd(r, u)
        PROVE  Inv'
    BY <1>3, ProbeStartInv, ProbeEndInv
  <1>4. ASSUME NEW r \in Reqs, NEW t \in Tokens \cup {NoToken},
               \/ Guarded(r, "logout", t, NoForm) \/ Guarded(r, "other", t, NoForm)
               \/ \E form \in Forms : Guarded(r, "save", t, form)
        PROVE  Inv'
    <2>1. CASE Guarded(r, "logout", t, NoForm)
      BY <2>1, GuardedInv
    <2>2. CASE Guarded(r, "other", t, NoForm)
      BY <2>2, GuardedInv
    <2>3. CASE \E form \in Forms : Guarded(r, "save", t, form)
      BY <2>3, GuardedInv
    <2>. QED
      BY <1>4, <2>1, <2>2, <2>3
  <1>5. ASSUME \/ \E f \in Files : HandEdit(f)
               \/ \E u \in Urls : Flip(u)
               \/ Tick \/ Crash
        PROVE  Inv'
    BY <1>5, HandEditInv, FlipInv, TickInv, CrashInv
  <1>. QED
    BY <1>1, <1>2, <1>3, <1>4, <1>5 DEF Next

\* The invariant holds in every reachable state, whatever requests, hand edits,
\* crashes and failed calls come between the steps of a save.
THEOREM Invariance == Spec => []Inv
  BY InitInv, NextInv, PTL DEF Spec

\* However many saves, hand edits, crashes and failed writes there are, the
\* file on disk is one Nix accepts unless the operator's editor made it another:
\* write_atomic replaces it in one step, by a file that validate let pass.
THEOREM FileIsNix == Spec => []FileStaysNix
  <1>1. Inv => FileStaysNix
    BY UnsplitEvaluates DEF Inv, FileOK, FileStaysNix, Tidy
  <1>. QED
    BY <1>1, Invariance, PTL

\* What save_config writes binds every path it was told to edit to its new value
\* and everything else as in the file it read, wherever descend puts an entry.
THEOREM SaveExact == Spec => []SaveIsExact
  <1>1. Inv => SaveIsExact
    BY DEF Inv, ReqsOK, ReqOK, SaveOK, After, SaveIsExact
  <1>. QED
    BY <1>1, Invariance, PTL

\* The landing page's green dot means that the service answered less than the
\* cache's TTL before the request, though requests share the cache and probe
\* without its lock.
THEOREM DotRecent == Spec => []DotIsRecent
  <1>1. Inv => DotIsRecent
    BY DEF Inv, ReqsOK, ReqOK, DotsOK, DotIsRecent
  <1>. QED
    BY <1>1, Invariance, PTL

-----------------------------------------------------------------------------
(***************************************************************************)
(* What a step does.                                                       *)
(***************************************************************************)

\* A step of one request is none of another.
LEMMA Alone ==
  ASSUME Inv, NEW s \in Reqs, NEW to, Step(s, to)
  PROVE  /\ req'[s] = to
         /\ \A r \in Reqs : r # s => req'[r] = req[r]
  BY DEF Inv, ReqsOK, Step

\* Only the gate opens the gate.
LEMMA OnlyGate ==
  ASSUME Inv, [Next]_vars, NEW r \in Reqs, req[r].at = "gate", req'[r].at = "handler"
  PROVE  GetSession(req[r].token)
  <1>0. \A s \in Reqs : DOMAIN req[s] = Fields
    BY DEF Inv, ReqsOK, ReqOK
  <1>1. ASSUME NEW s \in Reqs, NEW to, Step(s, to), req[s].at # "gate" PROVE FALSE
    <2>1. r # s
      BY <1>1
    <2>2. req'[r] = req[r]
      BY <1>1, <2>1, Alone
    <2>. QED
      BY <2>2
  <1>2. ASSUME NEW s \in Reqs, req[s].at # "gate", Answer(s) PROVE FALSE
    <2>1. Step(s, NoReq)
      BY <1>2 DEF Answer, Step
    <2>. QED
      BY <1>1, <1>2, <2>1
  <1>3. ASSUME NEW f, NEW others, Replace(f, others) PROVE FALSE
    <2>1. req'[r] = NoReq \/ req'[r] = [req[r] EXCEPT !.clean = FALSE]
      BY <1>3 DEF Replace
    <2>. DEFINE q == req[r]  w == req'[r]
    <2>2. w = NoReq \/ w = [q EXCEPT !.clean = FALSE]
      BY <2>1
    <2>3. q.at = "gate" /\ w.at = "handler" /\ DOMAIN q = Fields
      BY <1>0
    <2>. HIDE DEF q, w
    <2>. QED
      BY <2>2, <2>3, CleanIs, NoReqIs
  <1>4. CASE UNCHANGED vars
    BY <1>4 DEF vars
  <1>5. ASSUME NEW s \in Reqs, NEW new, Arrives(s, new) PROVE FALSE
    BY <1>1, <1>5 DEF Arrives
  <1>6. ASSUME NEW s \in Reqs, GateRequest(s) PROVE GetSession(req[r].token)
    <2>1. CASE s = r
      <3>1. CASE Answer(r)
        <4>1. req'[r] = NoReq
          BY <3>1 DEF Answer, Inv, ReqsOK
        <4>. QED
          BY <4>1, NoReqIs
      <3>. QED
        BY <1>6, <2>1, <3>1 DEF GateRequest
    <2>2. CASE s # r
      <3>1. PICK to : Step(s, to)
        BY <1>6 DEF GateRequest, Answer, Step
      <3>2. req'[r] = req[r]
        BY <2>2, <3>1, Alone
      <3>. QED
        BY <3>2
    <2>. QED
      BY <2>1, <2>2
  <1>7. ASSUME NEW s \in Reqs,
               CreateSession(s) \/ Logout(s) \/ ReadOnly(s) \/ LandingDone(s)
        PROVE  FALSE
    BY <1>2, <1>7 DEF CreateSession, Logout, ReadOnly, LandingDone
  <1>8. ASSUME NEW s \in Reqs, SaveRead(s) \/ SaveConfig(s) \/ WriteTmp(s) PROVE FALSE
    <2>1. req[s].at # "gate"
      BY <1>8 DEF SaveRead, SaveConfig, WriteTmp
    <2>2. Answer(s) \/ \E to : Step(s, to)
      BY <1>8 DEF SaveRead, SaveConfig, WriteTmp
    <2>. QED
      BY <1>1, <1>2, <2>1, <2>2
  <1>9. ASSUME NEW s \in Reqs, Rename(s) PROVE FALSE
    BY <1>2, <1>3, <1>9 DEF Rename
  <1>10. ASSUME NEW s \in Reqs, NEW u \in Urls, ProbeStart(s, u) \/ ProbeEnd(s, u) PROVE FALSE
    <2>1. req[s].at # "gate" /\ \E to : Step(s, to)
      BY <1>10 DEF ProbeStart, ProbeEnd
    <2>. QED
      BY <1>1, <2>1
  <1>11. ASSUME NEW s \in Reqs,
                \/ LoginPost(s) \/ Landing(s)
                \/ \E kind, t, form : Guarded(s, kind, t, form)
         PROVE  FALSE
    BY <1>5, <1>11 DEF LoginPost, Landing, Guarded
  <1>12. ASSUME NEW f \in Files, HandEdit(f) PROVE FALSE
    BY <1>3, <1>12 DEF HandEdit
  <1>13. CASE Tick \/ \E u \in Urls : Flip(u)
    BY <1>13 DEF Tick, Flip
  <1>14. CASE Crash
    <2>1. req'[r] = NoReq
      BY <1>14 DEF Crash
    <2>. QED
      BY <2>1, NoReqIs
  <1>. QED
    BY <1>4, <1>6, <1>7, <1>8, <1>9, <1>10, <1>11, <1>12, <1>13, <1>14 DEF Next

\* gate_request lets through only tokens of a session that began less than the
\* TTL ago and was not logged out, unless a call to the database failed.
THEOREM GateSafe == Spec => GateHolds
  <1>. DEFINE A == \A r \in Reqs : req[r].at = "gate" /\ req'[r].at = "handler" /\ faults = 0 =>
                LET t == req[r].token
                IN  born[t] # Never /\ clock < born[t] + SessionTtl /\ t \notin out
  <1>1. Inv /\ [Next]_vars => A
    <2>. SUFFICES ASSUME Inv, [Next]_vars, NEW r \in Reqs,
                         req[r].at = "gate", req'[r].at = "handler", faults = 0
                  PROVE  LET t == req[r].token
                         IN  born[t] # Never /\ clock < born[t] + SessionTtl /\ t \notin out
      OBVIOUS
    <2>. DEFINE t == req[r].token
    <2>1. t # NoToken /\ session[t] # Never /\ session[t] > clock
      BY OnlyGate DEF GetSession
    <2>2. t \in Tokens
      BY <2>1 DEF Inv, ReqsOK, ReqOK, TokenOK
    <2>3. born[t] # Never /\ session[t] = born[t] + SessionTtl /\ t \notin out
      BY <2>1, <2>2 DEF Inv, SessionsOK
    <2>4. clock \in Nat /\ session[t] \in Int
      BY <2>2 DEF Inv, SessionsOK, CacheOK
    <2>5. clock < born[t] + SessionTtl
      BY <2>1, <2>3, <2>4
    <2>. QED
      BY <2>3, <2>5
  <1>2. Inv /\ [Next]_vars => [A]_vars
    BY <1>1
  <1>3. GateHolds <=> [][A]_vars
    BY DEF GateHolds
  <1>. HIDE DEF A
  <1>. QED
    BY <1>2, <1>3, Invariance, PTL DEF Spec

-----------------------------------------------------------------------------
(***************************************************************************)
(* What the editor shows after a save.                                     *)
(***************************************************************************)

\* The edits of build_edits, as a set.
IsEdit(e, config, form) ==
    \/ config.hostname # {} /\ e = Edit(HostnamePath, Quote(form.hostname))
    \/ config.domain # {} /\ e = Edit(DomainPath, Quote(form.domain))
    \/ \E s \in Range(Services) :
         /\ config.enabled[s] # {} \/ s \in form.on
         /\ e = Edit(ServicePath(s), Bool(s \in form.on))
    \/ \E u \in Range(Users) :
         /\ u \in DOMAIN config.groups \cap DOMAIN form.groups
         /\ config.groups[u] # {} \/ form.groups[u] # <<>>
         /\ e = Edit(GroupsPath(u), QuoteList(form.groups[u]))

\* These are the edits that build_edits pushes.
LEMMA EditsAre ==
  ASSUME NEW config, NEW form, NEW e
  PROVE  e \in UNION Range(BuildEdits(config, form)) <=> IsEdit(e, config, form)
  <1>. DEFINE b == BuildEdits(config, form)  m == Len(Services)  n == Len(Users)
              H == Push(config.hostname # {}, Edit(HostnamePath, Quote(form.hostname)))
              D == Push(config.domain # {}, Edit(DomainPath, Quote(form.domain)))
  <1>1. /\ m \in Nat /\ n \in Nat /\ Len(b) = 2 + m + n /\ DOMAIN b = 1..Len(b)
        /\ b[1] = H /\ b[2] = D
        /\ \A i \in 1..m : b[2 + i] = ServicePush(config, form, Services[i])
        /\ \A i \in 1..n : b[2 + m + i] = GroupPush(config, form, Users[i])
    BY BuildIs
  <1>2. DOMAIN Services = 1..m /\ DOMAIN Users = 1..n
    BY Names
  <1>. HIDE DEF b, m, n, H, D
  <1>3. e \in UNION Range(b) <=> \E i \in 1..Len(b) : e \in b[i]
    BY <1>1 DEF Range
  <1>4. (\E i \in 1..Len(b) : e \in b[i]) <=>
          \/ e \in H \/ e \in D
          \/ \E i \in 1..m : e \in ServicePush(config, form, Services[i])
          \/ \E i \in 1..n : e \in GroupPush(config, form, Users[i])
    <2>1. ASSUME NEW i \in 1..Len(b), e \in b[i]
          PROVE  \/ e \in H \/ e \in D
                 \/ \E j \in 1..m : e \in ServicePush(config, form, Services[j])
                 \/ \E j \in 1..n : e \in GroupPush(config, form, Users[j])
      <3>1. \/ i = 1 \/ i = 2 \/ (\E j \in 1..m : i = 2 + j) \/ (\E j \in 1..n : i = 2 + m + j)
        <4>1. \/ i = 1 \/ i = 2 \/ (i - 2 \in 1..m /\ i = 2 + (i - 2))
              \/ (i - 2 - m \in 1..n /\ i = 2 + m + (i - 2 - m))
          BY <1>1
        <4>. QED
          BY <4>1
      <3>. QED
        BY <1>1, <2>1, <3>1
    <2>2. /\ 1 \in 1..Len(b) /\ 2 \in 1..Len(b)
          /\ \A j \in 1..m : 2 + j \in 1..Len(b)
          /\ \A j \in 1..n : 2 + m + j \in 1..Len(b)
      BY <1>1
    <2>. QED
      BY <1>1, <2>1, <2>2
  <1>5. (\E i \in 1..m : e \in ServicePush(config, form, Services[i])) <=>
          \E s \in Range(Services) :
             /\ config.enabled[s] # {} \/ s \in form.on
             /\ e = Edit(ServicePath(s), Bool(s \in form.on))
    BY <1>2 DEF Range, ServicePush, Push
  <1>6. (\E i \in 1..n : e \in GroupPush(config, form, Users[i])) <=>
          \E u \in Range(Users) :
             /\ u \in DOMAIN config.groups \cap DOMAIN form.groups
             /\ config.groups[u] # {} \/ form.groups[u] # <<>>
             /\ e = Edit(GroupsPath(u), QuoteList(form.groups[u]))
    BY <1>2 DEF Range, GroupPush, Push
  <1>7. /\ e \in H <=> config.hostname # {} /\ e = Edit(HostnamePath, Quote(form.hostname))
        /\ e \in D <=> config.domain # {} /\ e = Edit(DomainPath, Quote(form.domain))
    BY DEF H, D, Push
  <1>. QED
    BY <1>3, <1>4, <1>5, <1>6, <1>7 DEF b, IsEdit

\* A path that an edit binds is read as the edit says; one that no edit touches
\* is read as before.
LEMMA ReadAfter ==
  ASSUME NEW t, IsTree(t), Unsplit(t), NEW y, IsTree(y), Unsplit(y), NEW E,
         Bindings(y) = After(t, E), NEW x \in Seq(STRING), x # <<>>,
         NEW k, k # "set", k # "inherit"
  PROVE  /\ \A e \in E : e.path = x => Read(y, x, k) = IF e.new.kind = k THEN {e.new.text} ELSE {}
         /\ (\A e \in E : ~IsPrefix(e.path, x)) => Read(y, x, k) = Read(t, x, k)
  <1>1. ASSUME NEW e \in E, e.path = x
        PROVE  Read(y, x, k) = IF e.new.kind = k THEN {e.new.text} ELSE {}
    <2>. DEFINE v == e.new
    <2>1. <<x, v>> \in Bindings(y)
      BY <1>1 DEF After
    <2>. HIDE DEF v
    <2>2. Read(y, x, k) = IF v.kind = k THEN {v.text} ELSE {}
      BY <2>1, ReadIs
    <2>. QED
      BY <2>2 DEF v
  <1>2. ASSUME \A e \in E : ~IsPrefix(e.path, x)
        PROVE  Read(y, x, k) = Read(t, x, k)
    <2>1. IsPrefix(x, x)
      BY PrefixOrder
    <2>2. ASSUME NEW v PROVE <<x, v>> \in Bindings(y) <=> <<x, v>> \in Bindings(t)
      <3>. DEFINE b == <<x, v>>
      <3>1. b[1] = x
        OBVIOUS
      <3>2. b \notin {<<e.path, e.new>> : e \in E}
        BY <1>2, <2>1
      <3>. HIDE DEF b
      <3>3. b \in Bindings(y) <=> b \in Bindings(t)
        BY <1>2, <3>1, <3>2 DEF After
      <3>. QED
        BY <3>3 DEF b
    <2>3. CASE \E v : <<x, v>> \in Bindings(t)
      <3>1. PICK v : <<x, v>> \in Bindings(t)
        BY <2>3
      <3>2. <<x, v>> \in Bindings(y)
        BY <2>2, <3>1
      <3>3. Read(t, x, k) = IF v.kind = k THEN {v.text} ELSE {}
        BY <3>1, ReadIs
      <3>4. Read(y, x, k) = IF v.kind = k THEN {v.text} ELSE {}
        BY <3>2, ReadIs
      <3>. QED
        BY <3>3, <3>4
    <2>4. CASE \A v : <<x, v>> \notin Bindings(t)
      <3>1. \A v : <<x, v>> \notin Bindings(y)
        BY <2>2, <2>4
      <3>2. Read(t, x, k) = {} /\ Read(y, x, k) = {}
        BY <2>4, <3>1, ReadIs
      <3>. QED
        BY <3>2
    <2>. QED
      BY <2>3, <2>4
  <1>. QED
    BY <1>1, <1>2

\* A string without an interpolation is read back.
LEMMA QuoteRead ==
  ASSUME NEW s \in STRING, s # "interpolated", Quote(s).kind # "unparsable"
  PROVE  Quote(s).kind = "str" /\ Quote(s).text = <<s>>
  <1>1. s # "unterminated"
    <2>1. s = "unterminated" => Quote(s) = Value("unparsable", <<s>>)
      BY DEF Quote
    <2>. QED
      BY <2>1 DEF Value
  <1>2. Quote(s) = Value("str", <<s>>)
    BY <1>1 DEF Quote
  <1>. QED
    BY <1>2 DEF Value

\* So is a list of such strings.
LEMMA ListRead ==
  ASSUME NEW x \in Seq(STRING), "interpolated" \notin Range(x), QuoteList(x).kind # "unparsable"
  PROVE  QuoteList(x).kind = "list" /\ QuoteList(x).text = x
  BY DEF QuoteList, Value

\* The editor shows what was submitted, as SavedIsShown says it.
Shows(new, old, form) ==
    /\ new.hostname = (IF old.hostname = {} THEN {} ELSE {<<form.hostname>>})
    /\ new.domain = (IF old.domain = {} THEN {} ELSE {<<form.domain>>})
    /\ \A s \in Range(Services) :
         new.enabled[s] = (IF s \in form.on THEN {<<"true">>}
                           ELSE IF old.enabled[s] = {} THEN {} ELSE {<<"false">>})
    /\ \A u \in DOMAIN old.groups \cap DOMAIN form.groups :
         new.groups[u] = (IF old.groups[u] = {} /\ form.groups[u] = <<>> THEN {}
                          ELSE {form.groups[u]})

\* A save that nobody disturbed shows what was submitted.
LEMMA Shown ==
  ASSUME NEW q, NEW root, IsTree(root), Tidy(root), SaveOK(q, root), q.at = "rename", q.clean,
         NEW old, old = Extract(root), NEW new, new = Extract(q.new), NEW form, form = q.form, Plain(form)
  PROVE  Shows(new, old, form)
  <1>. DEFINE y == q.new
              E == UNION Range(BuildEdits(old, form))
  <1>1. /\ form \in Forms /\ IsTree(y) /\ Tidy(y) /\ Bindings(y) = After(root, E)
        /\ \A e \in E : e.new.kind # "unparsable"
        /\ AttrsetKeys(root, UsersRoot) \subseteq AttrsetKeys(y, UsersRoot)
    <2>1. q.edits = BuildEdits(old, form) /\ q.base = root /\ q.kind = "save" /\ form \in Forms
      BY DEF SaveOK
    <2>. HIDE DEF y
    <2>2. /\ IsTree(y) /\ Tidy(y) /\ Bindings(y) = After(q.base, UNION Range(q.edits))
          /\ \A e \in UNION Range(q.edits) : e.new.kind # "unparsable"
          /\ AttrsetKeys(q.base, UsersRoot) \subseteq AttrsetKeys(y, UsersRoot)
      BY DEF SaveOK, y
    <2>. QED
      BY <2>1, <2>2
  <1>2. /\ old.hostname = Read(root, HostnamePath, "str") /\ old.domain = Read(root, DomainPath, "str")
        /\ old.enabled = [s \in Range(Services) |-> Read(root, ServicePath(s), "bool")]
        /\ old.groups = [u \in AttrsetKeys(root, UsersRoot) |-> Read(root, GroupsPath(u), "list")]
    BY DEF Extract
  <1>3. /\ new.hostname = Read(y, HostnamePath, "str") /\ new.domain = Read(y, DomainPath, "str")
        /\ new.enabled = [s \in Range(Services) |-> Read(y, ServicePath(s), "bool")]
        /\ new.groups = [u \in AttrsetKeys(y, UsersRoot) |-> Read(y, GroupsPath(u), "list")]
    BY DEF Extract
  <1>4. form.hostname \in STRING /\ form.domain \in STRING
        /\ form.hostname # "interpolated" /\ form.domain # "interpolated"
    BY <1>1, FormShapes DEF Plain
  <1>5. (\A s \in Range(Services) : s \in STRING) /\ (\A u \in Range(Users) : u \in STRING)
    BY Names DEF Range
  <1>6. \A e : e \in E <=> IsEdit(e, old, form)
    BY EditsAre
  <1>7. \A p, v : Edit(p, v).path = p /\ Edit(p, v).new = v
    BY DEF Edit
  <1>. HIDE DEF y, E
  <1>8. ASSUME NEW x \in Seq(STRING), x # <<>>, NEW k, k # "set", k # "inherit"
        PROVE  /\ \A e \in E : e.path = x => Read(y, x, k) = IF e.new.kind = k THEN {e.new.text} ELSE {}
               /\ (\A e \in E : ~IsPrefix(e.path, x)) => Read(y, x, k) = Read(root, x, k)
    BY <1>1, <1>8, ReadAfter DEF Tidy
  <1>9. \A e \in E :
           \/ old.hostname # {} /\ e.path = HostnamePath
           \/ old.domain # {} /\ e.path = DomainPath
           \/ \E s \in Range(Services) :
                (old.enabled[s] # {} \/ s \in form.on) /\ e.path = ServicePath(s)
           \/ \E u \in Range(Users) :
                /\ u \in DOMAIN old.groups \cap DOMAIN form.groups
                /\ old.groups[u] # {} \/ form.groups[u] # <<>>
                /\ e.path = GroupsPath(u)
    BY <1>6, <1>7 DEF IsEdit
  <1>10. new.hostname = (IF old.hostname = {} THEN {} ELSE {<<form.hostname>>})
    <2>1. HostnamePath \in Seq(STRING) /\ HostnamePath # <<>> /\ "str" # "set" /\ "str" # "inherit"
      BY PathsApart
    <2>2. CASE old.hostname = {}
      <3>1. \A e \in E : ~IsPrefix(e.path, HostnamePath)
        BY <1>5, <1>9, <2>2, PathsApart
      <3>. QED
        BY <1>2, <1>3, <1>8, <2>1, <2>2, <3>1
    <2>3. CASE old.hostname # {}
      <3>. DEFINE e == Edit(HostnamePath, Quote(form.hostname))
      <3>1. e \in E /\ e.path = HostnamePath /\ e.new = Quote(form.hostname)
        BY <1>6, <1>7, <2>3 DEF IsEdit
      <3>2. e.new.kind = "str" /\ e.new.text = <<form.hostname>>
        BY <1>1, <1>4, <3>1, QuoteRead
      <3>. HIDE DEF e
      <3>3. Read(y, HostnamePath, "str") = {e.new.text}
        BY <1>8, <2>1, <3>1, <3>2
      <3>. QED
        BY <1>3, <2>3, <3>2, <3>3
    <2>. QED
      BY <2>2, <2>3
  <1>11. new.domain = (IF old.domain = {} THEN {} ELSE {<<form.domain>>})
    <2>1. DomainPath \in Seq(STRING) /\ DomainPath # <<>> /\ "str" # "set" /\ "str" # "inherit"
      BY PathsApart
    <2>2. CASE old.domain = {}
      <3>1. \A e \in E : ~IsPrefix(e.path, DomainPath)
        BY <1>5, <1>9, <2>2, PathsApart
      <3>. QED
        BY <1>2, <1>3, <1>8, <2>1, <2>2, <3>1
    <2>3. CASE old.domain # {}
      <3>. DEFINE e == Edit(DomainPath, Quote(form.domain))
      <3>1. e \in E /\ e.path = DomainPath /\ e.new = Quote(form.domain)
        BY <1>6, <1>7, <2>3 DEF IsEdit
      <3>2. e.new.kind = "str" /\ e.new.text = <<form.domain>>
        BY <1>1, <1>4, <3>1, QuoteRead
      <3>. HIDE DEF e
      <3>3. Read(y, DomainPath, "str") = {e.new.text}
        BY <1>8, <2>1, <3>1, <3>2
      <3>. QED
        BY <1>3, <2>3, <3>2, <3>3
    <2>. QED
      BY <2>2, <2>3
  <1>12. ASSUME NEW s \in Range(Services)
         PROVE  new.enabled[s] = (IF s \in form.on THEN {<<"true">>}
                                  ELSE IF old.enabled[s] = {} THEN {} ELSE {<<"false">>})
    <2>. DEFINE x == ServicePath(s)
    <2>1. x \in Seq(STRING) /\ x # <<>> /\ "bool" # "set" /\ "bool" # "inherit"
      BY <1>5, PathsApart
    <2>2. old.enabled[s] = Read(root, x, "bool") /\ new.enabled[s] = Read(y, x, "bool")
      BY <1>2, <1>3
    <2>3. CASE old.enabled[s] = {} /\ s \notin form.on
      <3>1. \A e \in E : ~IsPrefix(e.path, x)
        BY <1>5, <1>9, <2>3, PathsApart
      <3>. HIDE DEF x
      <3>. QED
        BY <1>8, <2>1, <2>2, <2>3, <3>1
    <2>4. CASE old.enabled[s] # {} \/ s \in form.on
      <3>. DEFINE e == Edit(x, Bool(s \in form.on))
      <3>1. e \in E /\ e.path = x /\ e.new = Bool(s \in form.on)
        BY <1>6, <1>7, <2>4 DEF IsEdit
      <3>2. e.new.kind = "bool" /\ e.new.text = IF s \in form.on THEN <<"true">> ELSE <<"false">>
        BY <3>1 DEF Bool, Value
      <3>. HIDE DEF e, x
      <3>3. Read(y, x, "bool") = {e.new.text}
        BY <1>8, <2>1, <3>1, <3>2
      <3>. QED
        BY <2>2, <2>4, <3>2, <3>3
    <2>. QED
      BY <2>3, <2>4
  <1>13. ASSUME NEW u \in DOMAIN old.groups \cap DOMAIN form.groups
         PROVE  new.groups[u] = (IF old.groups[u] = {} /\ form.groups[u] = <<>> THEN {}
                                 ELSE {form.groups[u]})
    <2>. DEFINE x == GroupsPath(u)
    <2>1. u \in Range(Users) /\ u \in AttrsetKeys(root, UsersRoot) /\ u \in AttrsetKeys(y, UsersRoot)
      BY <1>1, <1>2, FormShapes
    <2>2. x \in Seq(STRING) /\ x # <<>> /\ "list" # "set" /\ "list" # "inherit"
      BY <1>5, <2>1, PathsApart
    <2>3. old.groups[u] = Read(root, x, "list") /\ new.groups[u] = Read(y, x, "list")
      BY <1>2, <1>3, <2>1
    <2>4. CASE old.groups[u] = {} /\ form.groups[u] = <<>>
      <3>1. \A e \in E : ~IsPrefix(e.path, x)
        BY <1>5, <1>9, <2>1, <2>4, PathsApart
      <3>. HIDE DEF x
      <3>. QED
        BY <1>8, <2>2, <2>3, <2>4, <3>1
    <2>5. CASE old.groups[u] # {} \/ form.groups[u] # <<>>
      <3>. DEFINE e == Edit(x, QuoteList(form.groups[u]))
      <3>1. e \in E /\ e.path = x /\ e.new = QuoteList(form.groups[u])
        BY <1>6, <1>7, <2>1, <2>5 DEF IsEdit
      <3>2. e.new.kind = "list" /\ e.new.text = form.groups[u]
        <4>1. form.groups[u] \in Seq(STRING) /\ "interpolated" \notin Range(form.groups[u])
          BY <1>1, FormShapes DEF Plain
        <4>2. e.new.kind # "unparsable"
          BY <1>1, <3>1
        <4>. HIDE DEF e
        <4>. QED
          BY <3>1, <4>1, <4>2, ListRead
      <3>. HIDE DEF e, x
      <3>3. Read(y, x, "list") = {e.new.text}
        BY <1>8, <2>2, <3>1, <3>2
      <3>. QED
        BY <2>3, <2>5, <3>2, <3>3
    <2>. QED
      BY <2>4, <2>5
  <1>. QED
    BY <1>10, <1>11, <1>12, <1>13 DEF Shows

\* Only its own rename answers a save and changes the file.
LEMMA OnlyRename ==
  ASSUME Inv, [Next]_vars, NEW r \in Reqs, req[r].at = "rename", req'[r].at = "idle", file' # file
  PROVE  file'.root = req[r].new
  <1>0. DOMAIN req[r] = Fields
    BY DEF Inv, ReqsOK, ReqOK
  <1>1. ASSUME NEW f, NEW others, Replace(f, others), r \in others PROVE FALSE
    <2>. DEFINE q == req[r]  w == req'[r]
    <2>1. w = [q EXCEPT !.clean = FALSE]
      BY <1>1 DEF Replace
    <2>2. q.at = "rename" /\ w.at = "idle" /\ DOMAIN q = Fields
      BY <1>0
    <2>. HIDE DEF q, w
    <2>. QED
      BY <2>1, <2>2, CleanIs
  <1>2. ASSUME NEW s \in Reqs, Rename(s) PROVE file'.root = req[r].new
    <2>1. Replace([state |-> "ok", root |-> req[s].new], Reqs \ {s})
      BY <1>2 DEF Rename
    <2>2. s = r
      BY <1>1, <2>1
    <2>. QED
      BY <2>1, <2>2 DEF Replace
  <1>3. ASSUME NEW f \in Files, HandEdit(f) PROVE FALSE
    BY <1>1, <1>3 DEF HandEdit
  <1>4. CASE UNCHANGED vars
    BY <1>4 DEF vars
  <1>5. ASSUME NEW s \in Reqs,
               \/ LoginPost(s) \/ CreateSession(s) \/ GateRequest(s) \/ Logout(s) \/ ReadOnly(s)
               \/ SaveRead(s) \/ SaveConfig(s) \/ WriteTmp(s) \/ Landing(s) \/ LandingDone(s)
               \/ (\E u \in Urls : ProbeStart(s, u) \/ ProbeEnd(s, u))
               \/ (\E kind, t, form : Guarded(s, kind, t, form))
        PROVE  FALSE
    BY <1>5 DEF LoginPost, CreateSession, GateRequest, Logout, ReadOnly, SaveRead, SaveConfig,
                WriteTmp, Landing, LandingDone, ProbeStart, ProbeEnd, Guarded, Arrives
  <1>6. CASE Tick \/ Crash \/ \E u \in Urls : Flip(u)
    BY <1>6 DEF Tick, Crash, Flip
  <1>. QED
    BY <1>2, <1>3, <1>4, <1>5, <1>6 DEF Next

\* After a save that nobody disturbed admin shows what was submitted, unless it
\* has a "${": quote_nix_string does not escape it, so that such a host name,
\* domain or group is written as an interpolation and not read back.
THEOREM SavedShown == Spec => SavedIsShown
  <1>. DEFINE A == \A r \in Reqs :
                req[r].at = "rename" /\ req'[r].at = "idle" /\ file' # file /\ req[r].clean =>
                (Plain(req[r].form) => Shows(Extract(file'.root), Extract(file.root), req[r].form))
  <1>1. Inv /\ [Next]_vars => A
    <2>. SUFFICES ASSUME Inv, [Next]_vars, NEW r \in Reqs, req[r].at = "rename",
                         req'[r].at = "idle", req[r].clean, file' # file, Plain(req[r].form)
                  PROVE  Shows(Extract(file'.root), Extract(file.root), req[r].form)
      OBVIOUS
    <2>. DEFINE q == req[r]  root == file.root
                old == Extract(root)  new == Extract(file'.root)  form == q.form
    <2>1. /\ IsTree(root) /\ Tidy(root) /\ SaveOK(q, root) /\ q.at = "rename" /\ q.clean
          /\ old = Extract(root) /\ new = Extract(q.new) /\ form = q.form /\ Plain(form)
      BY OnlyRename DEF Inv, FileOK, ReqsOK, ReqOK
    <2>. HIDE DEF q, root, old, new, form
    <2>2. Shows(new, old, form)
      BY <2>1, Shown
    <2>. QED
      BY <2>2 DEF q, root, old, new, form
  <1>2. Inv /\ [Next]_vars => [A]_vars
    BY <1>1
  <1>3. SavedIsShown <=> [][A]_vars
    BY DEF SavedIsShown, Shows
  <1>. HIDE DEF A
  <1>. QED
    BY <1>2, <1>3, Invariance, PTL DEF Spec
=============================================================================
