------------------------------ MODULE SearchProofs ------------------------------
(***************************************************************************)
(* Theorems about the search, for any tree, query, limits and number of    *)
(* searches: what is reported is right, once and complete unless the last  *)
(* event says otherwise, the dialog shows what it asked for, and no walk   *)
(* goes on for nobody.                                                     *)
(***************************************************************************)
EXTENDS Search, SequenceTheorems, WellFoundedInduction, TLAPS

-----------------------------------------------------------------------------
(* Sequences. *)

LEMMA LeastNat ==
  ASSUME NEW T \in SUBSET Nat, T # {}
  PROVE  \E x \in T : \A y \in T : x <= y
  <1> DEFINE R == OpToRel(<, Nat)
  <1>1. IsWellFoundedOn(R, Nat)
    BY NatLessThanWellFounded
  <1>2. \A x, y \in Nat : x < y => <<x, y>> \in R
    BY DEF OpToRel
  <1> HIDE DEF R
  <1>3. PICK x \in T : \A y \in T : <<y, x>> \notin R
    BY <1>1, WFMin
  <1>4. ASSUME NEW y \in T
        PROVE  x <= y
    <2>1. x \in Nat /\ y \in Nat /\ ~(y < x)
      BY <1>2, <1>3
    <2>. QED  BY <2>1
  <1>. QED  BY <1>4

(* The first n entries of the function that FlattenSeq defines.            *)
Flattens(ss, n, g) ==
  g = [i \in 1..n |-> IF i = 1 THEN ss[i] ELSE g[i - 1] \o ss[i]]

LEMMA FlattensAt ==
  ASSUME NEW ss, NEW n \in Nat, NEW g, Flattens(ss, n, g), NEW i \in 1..n
  PROVE  g[i] = IF i = 1 THEN ss[i] ELSE g[i - 1] \o ss[i]
  <1> DEFINE F(k) == IF k = 1 THEN ss[k] ELSE g[k - 1] \o ss[k]
  <1>1. g = [k \in 1..n |-> F(k)]
    BY DEF Flattens
  <1> HIDE DEF F
  <1>2. g[i] = F(i)
    BY <1>1
  <1>. QED  BY <1>2 DEF F

LEMMA FlattenExists ==
  ASSUME NEW ss, NEW n \in Nat
  PROVE  \E g : Flattens(ss, n, g)
  <1> DEFINE T == {m \in Nat : ~ \E g : Flattens(ss, m, g)}
  <1>1. SUFFICES ASSUME T # {}
                 PROVE  FALSE
    OBVIOUS
  <1>2. PICK m \in T : \A y \in T : m <= y
    BY <1>1, LeastNat
  <1>3. m # 0
    <2> DEFINE g == [i \in 1..0 |-> ss[i]]
    <2>1. Flattens(ss, 0, g)
      BY DEF Flattens
    <2>. QED  BY <2>1
  <1>4. m - 1 \in Nat /\ m - 1 \notin T
    BY <1>2, <1>3
  <1>5. PICK h : Flattens(ss, m - 1, h)
    BY <1>4
  <1> DEFINE g == [i \in 1..m |-> IF i = m THEN (IF m = 1 THEN ss[m] ELSE h[m - 1] \o ss[m])
                                           ELSE h[i]]
  <1>6. \A i \in 1..(m - 1) : g[i] = h[i] /\ h[i] = IF i = 1 THEN ss[i] ELSE h[i - 1] \o ss[i]
    BY <1>4, <1>5, FlattensAt
  <1>7. \A i \in 1..m : g[i] = IF i = 1 THEN ss[i] ELSE g[i - 1] \o ss[i]
    <2> SUFFICES ASSUME NEW i \in 1..m
                 PROVE  g[i] = IF i = 1 THEN ss[i] ELSE g[i - 1] \o ss[i]
      OBVIOUS
    <2>1. CASE i = m
      <3>1. g[i] = IF i = 1 THEN ss[i] ELSE h[i - 1] \o ss[i]
        BY <2>1
      <3>2. i # 1 => g[i - 1] = h[i - 1]
        BY <1>4, <1>6, <2>1
      <3>. QED  BY <3>1, <3>2
    <2>2. CASE i # m
      <3>1. /\ i \in 1..(m - 1) /\ g[i] = h[i]
            /\ h[i] = IF i = 1 THEN ss[i] ELSE h[i - 1] \o ss[i]
        <4>1. i \in 1..(m - 1)
          BY <1>4, <2>2
        <4>. QED  BY <1>6, <4>1
      <3>2. i # 1 => g[i - 1] = h[i - 1]
        <4>1. i # 1 => i - 1 \in 1..(m - 1)
          BY <3>1
        <4>. QED  BY <1>6, <4>1
      <3>. QED  BY <3>1, <3>2
    <2>. QED  BY <2>1, <2>2
  <1>8. g = [i \in 1..m |-> g[i]]
    OBVIOUS
  <1> HIDE DEF g
  <1>9. Flattens(ss, m, g)
    BY <1>7, <1>8 DEF Flattens
  <1>. QED  BY <1>2, <1>9

Agree(ss, tt, n) == \A i \in 1..n : ss[i] = tt[i]

(* Two such functions agree as far as the sequences do.                    *)
LEMMA FlattenAgrees ==
  ASSUME NEW ss, NEW tt, NEW n \in Nat, NEW m \in Nat, n <= m, NEW g, NEW h,
         Flattens(ss, n, g), Flattens(tt, m, h), Agree(ss, tt, n)
  PROVE  \A i \in 1..n : g[i] = h[i]
  <1> DEFINE T == {i \in 1..n : g[i] # h[i]}
  <1>1. SUFFICES ASSUME T # {}
                 PROVE  FALSE
    OBVIOUS
  <1>2. PICK i \in T : \A y \in T : i <= y
    <2>1. T \in SUBSET Nat
      OBVIOUS
    <2>. QED  BY <1>1, <2>1, LeastNat
  <1>3. /\ g[i] = IF i = 1 THEN ss[i] ELSE g[i - 1] \o ss[i]
        /\ h[i] = IF i = 1 THEN tt[i] ELSE h[i - 1] \o tt[i]
    <2>1. i \in 1..n /\ i \in 1..m
      BY <1>2
    <2>. QED  BY <2>1, FlattensAt
  <1>4. i # 1 => i - 1 \in 1..n /\ i - 1 \notin T
    BY <1>2
  <1>. QED  BY <1>2, <1>3, <1>4 DEF Agree

LEMMA FlattenTyped ==
  ASSUME NEW S, NEW ss \in Seq(Seq(S)), NEW g, Flattens(ss, Len(ss), g)
  PROVE  \A i \in 1..Len(ss) : g[i] \in Seq(S)
  <1> DEFINE T == {i \in 1..Len(ss) : g[i] \notin Seq(S)}
  <1>1. SUFFICES ASSUME T # {}
                 PROVE  FALSE
    OBVIOUS
  <1>2. PICK i \in T : \A y \in T : i <= y
    <2>1. T \in SUBSET Nat
      OBVIOUS
    <2>. QED  BY <1>1, <2>1, LeastNat
  <1>3. g[i] = IF i = 1 THEN ss[i] ELSE g[i - 1] \o ss[i]
    <2>1. Len(ss) \in Nat /\ i \in 1..Len(ss)
      BY <1>2
    <2>. QED  BY <2>1, FlattensAt
  <1>4. i # 1 => i - 1 \in 1..Len(ss) /\ i - 1 \notin T
    BY <1>2
  <1>5. ss[i] \in Seq(S)
    BY <1>2
  <1>. QED  BY ZenonT(60), <1>2, <1>3, <1>4, <1>5, ConcatProperties

LEMMA FlattenIs ==
  ASSUME NEW ss, Len(ss) \in Nat
  PROVE  IF Len(ss) = 0 THEN FlattenSeq(ss) = ss
         ELSE \E g : Flattens(ss, Len(ss), g) /\ FlattenSeq(ss) = g[Len(ss)]
  <1>1. \E g : Flattens(ss, Len(ss), g)
    BY FlattenExists
  <1>2. Flattens(ss, Len(ss), CHOOSE g : Flattens(ss, Len(ss), g))
    BY <1>1
  <1>. QED  BY <1>2 DEF FlattenSeq, Flattens

LEMMA FlattenAppend ==
  ASSUME NEW S, NEW ss \in Seq(Seq(S)), NEW x \in Seq(S)
  PROVE  FlattenSeq(ss) \in Seq(S) /\ FlattenSeq(Append(ss, x)) = FlattenSeq(ss) \o x
  <1> DEFINE tt == Append(ss, x)
             n == Len(ss)
  <1>1. /\ tt \in Seq(Seq(S)) /\ Len(tt) = n + 1 /\ n \in Nat /\ tt[n + 1] = x
        /\ \A i \in 1..n : ss[i] = tt[i]
    BY AppendProperties
  <1> HIDE DEF tt
  <1>2. PICK h : Flattens(tt, n + 1, h) /\ FlattenSeq(tt) = h[n + 1]
    BY <1>1, FlattenIs
  <1>3. h[n + 1] = IF n = 0 THEN x ELSE h[n] \o x
    <2>1. h[n + 1] = IF n + 1 = 1 THEN tt[n + 1] ELSE h[n + 1 - 1] \o tt[n + 1]
      <3>1. n + 1 \in Nat /\ n + 1 \in 1..(n + 1)
        BY <1>1
      <3>. QED  BY <1>2, <3>1, FlattensAt
    <2>. QED  BY <1>1, <2>1
  <1>4. CASE n = 0
    <2>1. ss = <<>>
      BY <1>4, EmptySeq
    <2>2. FlattenSeq(ss) = <<>> /\ <<>> \in Seq(S)
      BY <2>1, FlattenIs
    <2>. QED  BY <1>2, <1>3, <1>4, <2>2 DEF tt
  <1>5. CASE n # 0
    <2>1. PICK g : Flattens(ss, n, g) /\ FlattenSeq(ss) = g[n]
      BY <1>1, <1>5, FlattenIs
    <2>2. g[n] = h[n]
      <3>1. n + 1 \in Nat /\ n <= n + 1 /\ n \in 1..n
        BY <1>1, <1>5
      <3>2. PICK m : m = n + 1
        OBVIOUS
      <3>3. Flattens(tt, m, h) /\ n <= m /\ m \in Nat
        BY <1>2, <3>1, <3>2
      <3> HIDE DEF n
      <3>4. Agree(ss, tt, n)
        BY <1>1 DEF Agree
      <3>5. \A i \in 1..n : g[i] = h[i]
        BY <1>1, <3>4, <2>1, <3>3, FlattenAgrees
      <3>. QED  BY <3>1, <3>5
    <2>3. g[n] \in Seq(S)
      BY <1>1, <1>5, <2>1, FlattenTyped
    <2>. QED  BY <1>2, <1>3, <1>5, <2>1, <2>2, <2>3 DEF tt
  <1>. QED  BY <1>4, <1>5
(* The elements of a sequence that has grown, and whether it still has no  *)
(* element twice.                                                          *)
LEMMA ConcatIs ==
  ASSUME NEW S, NEW s \in Seq(S), NEW t \in Seq(S)
  PROVE  /\ s \o t \in Seq(S)
         /\ Range(s \o t) = Range(s) \cup Range(t)
         /\ IsInjective(s) /\ IsInjective(t) /\ Range(s) \cap Range(t) = {} => IsInjective(s \o t)
         /\ IsInjective(s \o t) =>
              IsInjective(s) /\ IsInjective(t) /\ Range(s) \cap Range(t) = {}
         /\ IsPrefix(s, s \o t)
         /\ Len(s \o t) = Len(s) + Len(t)
  <1> DEFINE u == s \o t
  <1>1. /\ u \in Seq(S) /\ Len(u) = Len(s) + Len(t) /\ Len(s) \in Nat /\ Len(t) \in Nat
        /\ \A i \in 1..(Len(s) + Len(t)) :
             u[i] = IF i <= Len(s) THEN s[i] ELSE t[i - Len(s)]
    BY ConcatProperties
  <1>2. /\ DOMAIN u = 1..(Len(s) + Len(t)) /\ DOMAIN s = 1..Len(s) /\ DOMAIN t = 1..Len(t)
    BY <1>1
  <1> HIDE DEF u
  <1>3. /\ \A i \in DOMAIN s : i \in DOMAIN u /\ u[i] = s[i]
        /\ \A i \in DOMAIN t : Len(s) + i \in DOMAIN u /\ u[Len(s) + i] = t[i]
    BY <1>1, <1>2
  <1>4. \A i \in DOMAIN u : \/ i \in DOMAIN s /\ u[i] = s[i]
                            \/ i - Len(s) \in DOMAIN t /\ u[i] = t[i - Len(s)]
    BY <1>1, <1>2
  <1>5. Range(u) = Range(s) \cup Range(t)
    BY <1>3, <1>4 DEF Range
  <1>6. ASSUME IsInjective(s), IsInjective(t), Range(s) \cap Range(t) = {}
        PROVE  IsInjective(u)
    <2> SUFFICES ASSUME NEW i \in DOMAIN u, NEW j \in DOMAIN u, u[i] = u[j]
                 PROVE  i = j
      BY DEF IsInjective
    <2>1. \A a \in DOMAIN s, b \in DOMAIN t : s[a] # t[b]
      BY <1>6 DEF Range
    <2>2. CASE i \in DOMAIN s /\ u[i] = s[i]
      <3>1. j \in DOMAIN s /\ u[j] = s[j]
        BY <1>4, <2>1, <2>2
      <3>. QED  BY <1>6, <2>2, <3>1 DEF IsInjective
    <2>3. CASE i - Len(s) \in DOMAIN t /\ u[i] = t[i - Len(s)]
      <3>1. j - Len(s) \in DOMAIN t /\ u[j] = t[j - Len(s)]
        BY <1>4, <2>1, <2>3
      <3>2. i - Len(s) = j - Len(s)
        BY <1>6, <2>3, <3>1 DEF IsInjective
      <3>. QED  BY <1>1, <1>2, <3>2
    <2>. QED  BY <1>4, <2>2, <2>3
  <1>7. ASSUME IsInjective(u)
        PROVE  IsInjective(s) /\ IsInjective(t) /\ Range(s) \cap Range(t) = {}
    <2>1. \A a \in DOMAIN s, b \in DOMAIN t : s[a] # t[b]
      <3> SUFFICES ASSUME NEW a \in DOMAIN s, NEW b \in DOMAIN t, s[a] = t[b]
                   PROVE  FALSE
        OBVIOUS
      <3>1. u[a] = u[Len(s) + b] /\ a \in DOMAIN u /\ Len(s) + b \in DOMAIN u
        BY <1>3
      <3>2. a = Len(s) + b
        BY <1>7, <3>1 DEF IsInjective
      <3>. QED  BY <1>1, <1>2, <3>2
    <2>2. \A a, b \in DOMAIN s : s[a] = s[b] => a = b
      BY <1>3, <1>7 DEF IsInjective
    <2>3. \A a, b \in DOMAIN t : t[a] = t[b] => a = b
      <3> SUFFICES ASSUME NEW a \in DOMAIN t, NEW b \in DOMAIN t, t[a] = t[b]
                   PROVE  a = b
        OBVIOUS
      <3>1. Len(s) + a = Len(s) + b
        BY <1>3, <1>7 DEF IsInjective
      <3>. QED  BY <1>1, <1>2, <3>1
    <2>4. Range(s) \cap Range(t) = {}
      BY <2>1 DEF Range
    <2>. QED  BY <2>2, <2>3, <2>4 DEF IsInjective
  <1>8. IsPrefix(s, u)
    <2>1. Len(s) <= Len(u)
      BY <1>1
    <2>2. \A i \in 1..Len(s) : s[i] = u[i]
      BY <1>2, <1>3
    <2>3. SubSeq(s, 1, Len(s)) = SubSeq(u, 1, Len(s))
      BY <1>1, <2>1, <2>2
    <2>. QED  BY <2>1, <2>3 DEF IsPrefix
  <1>. QED  BY <1>1, <1>5, <1>6, <1>7, <1>8 DEF u

LEMMA OneElement ==
  ASSUME NEW S, NEW e \in S
  PROVE  /\ <<e>> \in Seq(S) /\ Range(<<e>>) = {e} /\ IsInjective(<<e>>) /\ Len(<<e>>) = 1
         /\ \A s \in Seq(S) : Append(s, e) = s \o <<e>>
  <1>1. <<e>> \in Seq(S) /\ DOMAIN <<e>> = {1} /\ <<e>>[1] = e /\ Len(<<e>>) = 1
    OBVIOUS
  <1>2. \A s \in Seq(S) : Append(s, e) = s \o <<e>>
    BY AppendIsConcat
  <1>3. Range(<<e>>) = {e}
    BY <1>1 DEF Range
  <1>4. IsInjective(<<e>>)
    BY <1>1 DEF IsInjective
  <1>. QED  BY <1>1, <1>2, <1>3, <1>4

LEMMA NoElement ==
  /\ \A S : <<>> \in Seq(S)
  /\ Range(<<>>) = {} /\ IsInjective(<<>>)
  /\ \A S : \A s \in Seq(S) : s \o <<>> = s /\ <<>> \o s = s
  BY ConcatEmptySeq DEF Range, IsInjective
-----------------------------------------------------------------------------
(* The tree and the walk's queue. *)

Entry == DOMAIN In

QueueEntry == [dir : Folder, depth : Nat]

DirSeq(q) == [i \in DOMAIN q |-> q[i].dir]

Walks ==
  [at : {"none", "next", "entries", "ended", "over"}, query : DOMAIN Hits \cup {""},
   root : Folder \cup {""}, remote : BOOLEAN, queue : Seq(QueueEntry),
   dir : Folder \cup {""}, depth : Nat, rest : SUBSET Entry,
   preferred : Seq(Folder), other : Seq(Folder), matches : Seq(Entry), pending : Seq(Entry),
   visited : Nat, truncated : BOOLEAN, listed : SUBSET Folder, unread : SUBSET Folder,
   missed : SUBSET Entry]

Dirs(w) == Range(DirSeq(w.queue))

Noticed(w) == Range(w.preferred) \cup Range(w.other)

Popped(w) == w.listed \cup w.unread

Walked == Folder \ Heavy

(* The folders met so far are the root or lie in a folder that was read.   *)
Below(w, d) ==
  d = w.root \/ (d \in Walked \cap Entry /\ d \notin w.missed /\ In[d] \in w.listed)

Open(w) == w.at \in {"next", "entries"}

(* Every folder is in one place: still queued, or taken from the queue;    *)
(* what the folder being read lists has not been met before.               *)
Shape(w) ==
  /\ w.query \in DOMAIN Hits /\ w.root \in Folder
  /\ w.listed \cap w.unread = {}
  /\ IsInjective(DirSeq(w.queue)) /\ Dirs(w) \cap Popped(w) = {}
  /\ \A d \in Dirs(w) \cup Popped(w) : Below(w, d)
  /\ w.root \in Dirs(w) \cup Popped(w)
  /\ w.at = "entries" =>
       /\ w.dir \in w.listed
       /\ w.rest \subseteq Children(w.dir)
       /\ Noticed(w) \subseteq (Children(w.dir) \ w.rest) \cap Walked
       /\ Noticed(w) \cap w.missed = {}
       /\ IsInjective(w.preferred \o w.other)
       /\ \A d \in Dirs(w) \cup Popped(w) : d = w.root \/ In[d] # w.dir
  /\ w.at = "next" => w.rest = {} /\ ~w.truncated /\ w.pending = <<>>

(* What was read was met, and what matches was found, once.                *)
Reading(w) ==
  /\ IsInjective(w.matches)
  /\ \A e \in Range(w.matches) : /\ e \in Hits[w.query] \ Link
                                 /\ In[e] \in w.listed /\ e \notin w.rest
                                 /\ e \notin w.missed
  /\ \A e \in w.missed : In[e] \in w.listed /\ e \notin w.rest
  /\ w.truncated => w.rest = {} /\ Len(w.matches) <= MaxMatches
  /\ ~w.truncated =>
       /\ Len(w.matches) < MaxMatches
       /\ \A e \in Entry \ w.missed : In[e] \in w.listed =>
            /\ e \in Hits[w.query] \ Link => e \in Range(w.matches) \cup w.rest
            /\ e \in Walked => \/ e \in Dirs(w) \cup Popped(w) \cup w.rest
                               \/ w.at = "entries" /\ e \in Noticed(w)

LEMMA InIs == \A e \in Entry : In[e] \in Folder
  BY LimitsAssumption DEF Entry

(* The folder above the root is never read.                                *)
LEMMA RootIsTop ==
  ASSUME NEW root, NEW L, \A d \in L : d = root \/ (d \in Entry /\ In[d] \in L),
         root \in Entry
  PROVE  In[root] \notin L
  <1> SUFFICES ASSUME In[root] \in L
               PROVE  FALSE
    OBVIOUS
  <1> DEFINE S == {e \in Entry : e \in L \cup {root}}
  <1>1. S \in (SUBSET DOMAIN In) \ {{}}
    BY DEF Entry
  <1>2. PICK e \in S : In[e] \notin S
    BY <1>1, TreeAssumption
  <1>3. In[e] \in L
    BY <1>2
  <1>4. In[e] = root \/ In[e] \in Entry
    BY <1>3
  <1>. QED  BY <1>2, <1>3, <1>4

(* What has been met lies in every closed set.                             *)
LEMMA MetIsListed ==
  ASSUME NEW w, Shape(w), NEW v, v.root = w.root, v.unread \cap w.listed = {},
         v.missed \subseteq w.missed, NEW S, Closed(v, S)
  PROVE  Dirs(w) \cup Popped(w) \subseteq S
  <1> DEFINE T == (Dirs(w) \cup Popped(w)) \ S
  <1>1. SUFFICES ASSUME T # {}
                 PROVE  FALSE
    OBVIOUS
  <1>2. w.root \in S
    BY DEF Closed
  <1>3. \A d \in T : d \in Walked \cap Entry /\ d \notin w.missed /\ In[d] \in w.listed
    BY <1>2 DEF Shape, Below
  <1>4. T \in (SUBSET DOMAIN In) \ {{}}
    BY <1>1, <1>3 DEF Entry
  <1>5. PICK d \in T : In[d] \notin T
    BY <1>4, TreeAssumption
  <1>6. In[d] \in w.listed
    BY <1>3
  <1>7. In[d] \in S
    BY <1>5, <1>6 DEF Popped
  <1>8. In[d] \in S \ v.unread /\ d \in ((Folder \ Heavy) \cap DOMAIN In) \ v.missed
    BY <1>3, <1>6, <1>7 DEF Walked, Entry
  <1>. QED  BY <1>8 DEF Closed

(* A walk that has emptied its queue has read all it could.                *)
LEMMA DoneIsComplete ==
  ASSUME NEW w \in Walks, Shape(w), Reading(w), w.at = "next", w.queue = <<>>
  PROVE  Range(w.matches) = Expected(w)
  <1>1. Dirs(w) = {}
    BY DEF Dirs, DirSeq, Range
  <1>2. w.rest = {} /\ ~w.truncated /\ w.root \in Popped(w)
    BY <1>1 DEF Shape
  <1>3. Popped(w) \in SUBSET Folder
    BY DEF Walks, Popped
  <1>4. Closed(w, Popped(w))
    <2> SUFFICES ASSUME NEW d \in ((Folder \ Heavy) \cap DOMAIN In) \ w.missed,
                        In[d] \in Popped(w) \ w.unread
                 PROVE  d \in Popped(w)
      BY <1>2 DEF Closed
    <2>1. In[d] \in w.listed /\ d \in Entry \ w.missed /\ d \in Walked
      BY DEF Popped, Entry, Walked
    <2>. QED  BY <1>1, <1>2, <2>1 DEF Reading
  <1>5. Listed(w) \subseteq w.listed
    BY <1>3, <1>4 DEF Listed, Popped
  <1>6. w.listed \subseteq Listed(w)
    <2> SUFFICES ASSUME NEW d \in w.listed
                 PROVE  d \in Listed(w)
      OBVIOUS
    <2>1. d \in Folder /\ d \notin w.unread /\ w.unread \cap w.listed = {}
      BY DEF Walks, Shape
    <2>2. \A S \in SUBSET Folder : Closed(w, S) => d \in S
      BY <2>1, MetIsListed DEF Popped
    <2>. QED  BY <2>1, <2>2 DEF Listed
  <1>7. \A e \in Range(w.matches) : e \in Entry
    BY RangeOfSeq DEF Walks
  <1>8. Range(w.matches) \subseteq Expected(w)
    BY <1>5, <1>6, <1>7 DEF Expected, Reading, Entry
  <1>9. Expected(w) \subseteq Range(w.matches)
    BY <1>2, <1>5 DEF Expected, Reading, Entry
  <1>. QED  BY <1>8, <1>9

(* What was found is what anybody who asks the same may find.              *)
LEMMA FoundIsExpected ==
  ASSUME NEW w \in Walks, Shape(w), Reading(w), NEW v, v.root = w.root, v.query = w.query,
         v.unread = {}, v.missed = {}
  PROVE  Range(w.matches) \subseteq Expected(v)
  <1> SUFFICES ASSUME NEW e \in Range(w.matches)
               PROVE  e \in Expected(v)
    OBVIOUS
  <1>1. e \in Entry /\ e \in Hits[w.query] \ Link /\ In[e] \in w.listed
    BY RangeOfSeq DEF Walks, Reading
  <1>2. \A S \in SUBSET Folder : Closed(v, S) => In[e] \in S
    BY <1>1, MetIsListed DEF Popped
  <1>3. In[e] \in Listed(v)
    BY <1>1, <1>2, InIs DEF Listed
  <1>. QED  BY <1>1, <1>3 DEF Expected, Entry
-----------------------------------------------------------------------------
(* Steps of a walk, from its record w to the record v. *)

LEMMA DirSeqIs ==
  ASSUME NEW q \in Seq(QueueEntry)
  PROVE  DirSeq(q) \in Seq(Folder) /\ DOMAIN DirSeq(q) = DOMAIN q
         /\ \A i \in DOMAIN q : DirSeq(q)[i] = q[i].dir
  <1>1. Len(q) \in Nat /\ DOMAIN q = 1..Len(q) /\ \A i \in 1..Len(q) : q[i] \in QueueEntry
    OBVIOUS
  <1>2. \A i \in 1..Len(q) : q[i].dir \in Folder
    BY <1>1 DEF QueueEntry
  <1>3. DirSeq(q) = [i \in 1..Len(q) |-> q[i].dir]
    BY <1>1 DEF DirSeq
  <1>. QED  BY <1>1, <1>2, <1>3, IsASeq

LEMMA DirSeqConcat ==
  ASSUME NEW p \in Seq(QueueEntry), NEW q \in Seq(QueueEntry)
  PROVE  DirSeq(p \o q) = DirSeq(p) \o DirSeq(q)
  <1>1. /\ p \o q \in Seq(QueueEntry) /\ Len(p \o q) = Len(p) + Len(q)
        /\ \A i \in 1..(Len(p) + Len(q)) :
             (p \o q)[i] = IF i <= Len(p) THEN p[i] ELSE q[i - Len(p)]
        /\ Len(p) \in Nat /\ Len(q) \in Nat
    BY ConcatProperties
  <1>2. /\ DirSeq(p) \in Seq(Folder) /\ DirSeq(q) \in Seq(Folder)
        /\ DirSeq(p \o q) \in Seq(Folder)
        /\ Len(DirSeq(p)) = Len(p) /\ Len(DirSeq(q)) = Len(q)
        /\ Len(DirSeq(p \o q)) = Len(p) + Len(q)
    <2>1. ASSUME NEW r \in Seq(QueueEntry)
          PROVE  DirSeq(r) \in Seq(Folder) /\ Len(DirSeq(r)) = Len(r)
      <3>1. DirSeq(r) \in Seq(Folder) /\ DOMAIN DirSeq(r) = DOMAIN r
        BY DirSeqIs
      <3>. QED  BY <3>1
    <2>. QED  BY <1>1, <2>1
  <1>3. /\ Len(DirSeq(p) \o DirSeq(q)) = Len(p) + Len(q)
        /\ DirSeq(p) \o DirSeq(q) \in Seq(Folder)
        /\ \A i \in 1..(Len(p) + Len(q)) : (DirSeq(p) \o DirSeq(q))[i] =
             IF i <= Len(p) THEN DirSeq(p)[i] ELSE DirSeq(q)[i - Len(p)]
    BY <1>2, ConcatProperties
  <1>4. ASSUME NEW i \in 1..(Len(p) + Len(q))
        PROVE  DirSeq(p \o q)[i] = (DirSeq(p) \o DirSeq(q))[i]
    <2>1. DirSeq(p \o q)[i] = (p \o q)[i].dir
      <3>1. i \in DOMAIN (p \o q)
        BY <1>1
      <3>. QED  BY <1>1, <3>1, DirSeqIs
    <2>2. CASE i <= Len(p)
      <3>1. i \in DOMAIN p
        BY <1>1, <2>2
      <3>. QED  BY <1>1, <1>3, <2>1, <2>2, <3>1, DirSeqIs
    <2>3. CASE ~(i <= Len(p))
      <3>1. i - Len(p) \in DOMAIN q
        BY <1>1, <2>3
      <3>2. DirSeq(q)[i - Len(p)] = q[i - Len(p)].dir
        BY <3>1, DirSeqIs
      <3>. QED  BY <1>1, <1>3, <2>1, <2>3, <3>2
    <2>. QED  BY <2>2, <2>3
  <1>. QED  BY <1>2, <1>3, <1>4, SeqEqual

LEMMA QueuedIs ==
  ASSUME NEW p \in Seq(Folder), NEW k \in Nat
  PROVE  Queued(p, k) \in Seq(QueueEntry) /\ DirSeq(Queued(p, k)) = p
  <1>1. /\ Queued(p, k) \in Seq(QueueEntry) /\ DOMAIN Queued(p, k) = DOMAIN p
        /\ \A i \in DOMAIN p : Queued(p, k)[i].dir = p[i]
    <2>1. Len(p) \in Nat /\ DOMAIN p = 1..Len(p) /\ \A i \in 1..Len(p) : p[i] \in Folder
      OBVIOUS
    <2>2. Queued(p, k) = [i \in 1..Len(p) |-> [dir |-> p[i], depth |-> k]]
      BY <2>1 DEF Queued
    <2>3. \A i \in 1..Len(p) : [dir |-> p[i], depth |-> k] \in QueueEntry
      BY <2>1 DEF QueueEntry
    <2>. QED  BY <2>1, <2>2, <2>3, IsASeq
  <1>2. DirSeq(Queued(p, k)) = [i \in DOMAIN p |-> p[i]]
    BY <1>1 DEF DirSeq
  <1>. QED  BY <1>1, <1>2

(* The folder at the front is taken from the queue.                        *)
LEMMA PopIs ==
  ASSUME NEW q \in Seq(QueueEntry), q # <<>>, IsInjective(DirSeq(q))
  PROVE  /\ Head(q) \in QueueEntry /\ Tail(q) \in Seq(QueueEntry)
         /\ IsInjective(DirSeq(Tail(q)))
         /\ Range(DirSeq(q)) = Range(DirSeq(Tail(q))) \cup {Head(q).dir}
         /\ Head(q).dir \notin Range(DirSeq(Tail(q)))
  <1>1. /\ Head(q) \in QueueEntry /\ Tail(q) \in Seq(QueueEntry)
        /\ q = <<Head(q)>> \o Tail(q) /\ <<Head(q)>> \in Seq(QueueEntry)
    <2>1. /\ Head(q) \in QueueEntry /\ Tail(q) \in Seq(QueueEntry)
          /\ <<Head(q)>> \in Seq(QueueEntry)
      OBVIOUS
    <2>2. /\ Len(<<Head(q)>> \o Tail(q)) = Len(q)
          /\ \A i \in 1..Len(q) : (<<Head(q)>> \o Tail(q))[i] = q[i]
      OBVIOUS
    <2>3. <<Head(q)>> \o Tail(q) \in Seq(QueueEntry)
      BY <2>1
    <2>. QED  BY <2>1, <2>2, <2>3, SeqEqual
  <1>2. DirSeq(q) = DirSeq(<<Head(q)>>) \o DirSeq(Tail(q))
    BY <1>1, DirSeqConcat
  <1>3. DirSeq(<<Head(q)>>) = <<Head(q).dir>>
    BY <1>1 DEF DirSeq
  <1>4. Head(q).dir \in Folder /\ DirSeq(Tail(q)) \in Seq(Folder)
    BY <1>1, DirSeqIs DEF QueueEntry
  <1> HIDE DEF DirSeq
  <1>5. <<Head(q).dir>> \in Seq(Folder) /\ Range(<<Head(q).dir>>) = {Head(q).dir}
    BY <1>4, OneElement
  <1>6. /\ IsInjective(DirSeq(Tail(q)))
        /\ Range(DirSeq(q)) = Range(<<Head(q).dir>>) \cup Range(DirSeq(Tail(q)))
        /\ Range(<<Head(q).dir>>) \cap Range(DirSeq(Tail(q))) = {}
    <2>1. PICK a, b : a = <<Head(q).dir>> /\ b = DirSeq(Tail(q))
      OBVIOUS
    <2>2. a \in Seq(Folder) /\ b \in Seq(Folder) /\ IsInjective(a \o b) /\ DirSeq(q) = a \o b
      BY <1>2, <1>3, <1>4, <1>5, <2>1
    <2>3. IsInjective(b) /\ Range(a \o b) = Range(a) \cup Range(b) /\ Range(a) \cap Range(b) = {}
      BY <2>2, ConcatIs
    <2>. QED  BY <2>1, <2>2, <2>3
  <1>. QED  BY <1>1, <1>5, <1>6

LEMMA StartIs ==
  ASSUME NEW t \in [query : DOMAIN Hits, root : Folder, remote : BOOLEAN]
  PROVE  /\ NewWalk(t) \in Walks /\ NewWalk(t).at = "next"
         /\ NewWalk(t).query = t.query /\ NewWalk(t).root = t.root
         /\ NewWalk(t).matches = <<>> /\ NewWalk(t).pending = <<>>
         /\ Shape(NewWalk(t)) /\ Reading(NewWalk(t))
  <1> DEFINE w == NewWalk(t)
             q == <<[dir |-> t.root, depth |-> 0]>>
  <1>1. t.query \in DOMAIN Hits /\ t.root \in Folder /\ t.remote \in BOOLEAN
    OBVIOUS
  <1>2. q \in Seq(QueueEntry) /\ DirSeq(q) = <<t.root>>
    BY <1>1 DEF QueueEntry, DirSeq
  <1>3. /\ w.at = "next" /\ w.query = t.query /\ w.root = t.root /\ w.queue = q
        /\ w.rest = {} /\ w.matches = <<>> /\ w.pending = <<>> /\ w.truncated = FALSE
        /\ w.listed = {} /\ w.unread = {} /\ w.missed = {}
    BY DEF NewWalk, NoWalk
  <1>4. w \in Walks
    <2> HIDE DEF q
    <2>1. NoWalk \in Walks
      BY NoElement DEF NoWalk, Walks
    <2>2. w = [NoWalk EXCEPT !.at = "next", !.query = t.query, !.root = t.root,
                             !.remote = t.remote, !.queue = q]
      BY DEF NewWalk, q
    <2>. QED  BY <1>1, <1>2, <2>1, <2>2 DEF Walks
  <1>5. Dirs(w) = {t.root} /\ Popped(w) = {} /\ IsInjective(DirSeq(w.queue))
    BY <1>1, <1>2, <1>3, OneElement DEF Dirs, Popped
  <1> HIDE DEF w, q
  <1>6. Shape(w)
    BY <1>1, <1>3, <1>5 DEF Shape, Below
  <1>7. Len(<<>>) = 0 /\ MaxMatches > 0
    BY LimitsAssumption
  <1>8. Reading(w)
    BY <1>3, <1>7, NoElement DEF Reading
  <1>. QED  BY <1>3, <1>4, <1>6, <1>8 DEF w
(* What every step but a find leaves of what was found.                    *)
Same(w, v) == v.query = w.query /\ v.root = w.root /\ v.matches = w.matches

LEMMA OpensIs ==
  ASSUME NEW w \in Walks, w.at = "next", w.queue # <<>>, Shape(w), Reading(w), NEW v,
         v = [w EXCEPT !.at = "entries", !.queue = Tail(w.queue), !.visited = w.visited + 1,
                       !.dir = Head(w.queue).dir, !.depth = Head(w.queue).depth,
                       !.rest = Children(Head(w.queue).dir),
                       !.listed = w.listed \cup {Head(w.queue).dir},
                       !.preferred = <<>>, !.other = <<>>]
  PROVE  /\ v \in Walks /\ Shape(v) /\ Reading(v) /\ Same(w, v)
         /\ v.at = "entries" /\ v.pending = w.pending
  <1> DEFINE h == Head(w.queue)
             d == h.dir
  <1>1. w.queue \in Seq(QueueEntry) /\ IsInjective(DirSeq(w.queue))
    BY DEF Walks, Shape
  <1>2. /\ h \in QueueEntry /\ Tail(w.queue) \in Seq(QueueEntry)
        /\ IsInjective(DirSeq(Tail(w.queue)))
        /\ Dirs(w) = Range(DirSeq(Tail(w.queue))) \cup {d}
        /\ d \notin Range(DirSeq(Tail(w.queue)))
    BY <1>1, PopIs DEF Dirs
  <1>3. d \in Folder /\ h.depth \in Nat /\ Children(d) \in SUBSET Entry
    BY <1>2 DEF QueueEntry, Children, Entry
  <1> HIDE DEF h
  <1>4. v \in Walks
    <2>1. PICK q, c, k, L, n : /\ q = Tail(w.queue) /\ c = Children(d) /\ k = h.depth
                               /\ L = w.listed \cup {d} /\ n = w.visited + 1
      OBVIOUS
    <2>2. q \in Seq(QueueEntry) /\ c \in SUBSET Entry /\ k \in Nat
      BY <1>2, <1>3, <2>1
    <2>3. w.listed \in SUBSET Folder /\ w.visited \in Nat
      BY DEF Walks
    <2>4. L \in SUBSET Folder /\ n \in Nat
      BY <1>3, <2>1, <2>3
    <2>5. <<>> \in Seq(Folder)
      BY NoElement
    <2>6. v = [w EXCEPT !.at = "entries", !.queue = q, !.visited = n, !.dir = d, !.depth = k,
                        !.rest = c, !.listed = L, !.preferred = <<>>, !.other = <<>>]
      BY <2>1 DEF h
    <2> HIDE DEF d
    <2>7. PICK u : u = [w EXCEPT !.at = "entries", !.queue = q, !.visited = n, !.dir = d]
      OBVIOUS
    <2>8. u \in Walks
      BY <1>3, <2>2, <2>4, <2>7 DEF Walks
    <2>9. v = [u EXCEPT !.depth = k, !.rest = c, !.listed = L, !.preferred = <<>>, !.other = <<>>]
      BY <2>6, <2>7
    <2>10. PICK z : z = <<>>
      OBVIOUS
    <2>11. PICK t : t = [u EXCEPT !.depth = k, !.rest = c, !.listed = L]
      OBVIOUS
    <2>12. t \in Walks
      BY <2>2, <2>4, <2>8, <2>11 DEF Walks
    <2>13. v = [t EXCEPT !.preferred = z, !.other = z] /\ z \in Seq(Folder)
      BY <2>5, <2>9, <2>10, <2>11
    <2>. QED  BY ZenonT(60), <2>12, <2>13 DEF Walks
  <1>5. /\ v.at = "entries" /\ v.queue = Tail(w.queue) /\ v.dir = d /\ v.rest = Children(d)
        /\ v.listed = w.listed \cup {d} /\ v.unread = w.unread /\ v.query = w.query
        /\ v.missed = w.missed
        /\ v.root = w.root /\ v.matches = w.matches /\ v.pending = w.pending
        /\ v.preferred = <<>> /\ v.other = <<>> /\ v.truncated = w.truncated
    BY DEF Walks, h
  <1>6. /\ Dirs(w) = Dirs(v) \cup {d} /\ d \notin Dirs(v) /\ Popped(v) = Popped(w) \cup {d}
        /\ Noticed(v) = {} /\ IsInjective(v.preferred \o v.other)
        /\ IsInjective(DirSeq(v.queue)) /\ d \notin Popped(w)
    BY <1>2, <1>5, NoElement DEF Dirs, Popped, Noticed, Shape
  <1>7. \A c \in w.listed : c = w.root \/ (c \in Entry /\ In[c] \in w.listed)
    BY DEF Shape, Below, Popped
  <1>8. ASSUME NEW c \in Dirs(v) \cup Popped(v)
        PROVE  Below(v, c) /\ (c = v.root \/ In[c] # v.dir)
    <2>1. Below(w, c)
      BY <1>6, <1>8 DEF Shape
    <2>2. d \notin w.listed
      BY <1>6 DEF Popped
    <2>. QED  BY <1>5, <2>1, <2>2 DEF Below
  <1>9. Shape(v)
    <2>1. v.listed \cap v.unread = {} /\ Dirs(v) \cap Popped(v) = {}
      BY <1>5, <1>6 DEF Shape, Popped
    <2>2. v.root \in Dirs(v) \cup Popped(v) /\ v.query \in DOMAIN Hits /\ v.root \in Folder
      BY <1>5, <1>6 DEF Shape
    <2>. QED  BY <1>5, <1>6, <1>8, <2>1, <2>2 DEF Shape
  <1>10. d \notin w.listed /\ \A e \in Children(d) : e \in Entry /\ In[e] = d
    BY <1>6 DEF Popped, Children, Entry
  <1>11. /\ \A e \in Range(v.matches) : /\ e \in Hits[v.query] \ Link
                                        /\ In[e] \in v.listed /\ e \notin v.rest
                                        /\ e \notin v.missed
         /\ \A e \in v.missed : In[e] \in v.listed /\ e \notin v.rest
    BY <1>5, <1>10 DEF Reading
  <1>12. w.truncated = FALSE
    BY DEF Shape, Walks
  <1>13. ASSUME NEW e \in Entry \ v.missed, In[e] \in v.listed
         PROVE  /\ e \in Hits[v.query] \ Link => e \in Range(v.matches) \cup v.rest
                /\ e \in Walked => e \in Dirs(v) \cup Popped(v) \cup v.rest
    <2>1. CASE In[e] = d
      BY <1>5, <2>1 DEF Children, Entry
    <2>2. CASE In[e] # d
      <3>1. In[e] \in w.listed /\ w.rest = {}
        BY <1>5, <1>13, <2>2 DEF Shape
      <3>. QED  BY <1>5, <1>6, <1>12, <3>1 DEF Reading
    <2>. QED  BY <2>1, <2>2
  <1>14. Reading(v)
    BY <1>5, <1>11, <1>12, <1>13 DEF Reading
  <1>. QED  BY <1>4, <1>5, <1>9, <1>14 DEF Same

(* A folder that cannot be listed is passed over.                          *)
LEMMA PassesIs ==
  ASSUME NEW w \in Walks, w.at = "next", w.queue # <<>>, Shape(w), Reading(w), NEW v,
         v = [w EXCEPT !.queue = Tail(w.queue), !.visited = w.visited + 1,
                       !.unread = w.unread \cup {Head(w.queue).dir}]
  PROVE  /\ v \in Walks /\ Shape(v) /\ Reading(v) /\ Same(w, v)
         /\ v.at = "next" /\ v.pending = w.pending
  <1> DEFINE d == Head(w.queue).dir
  <1>1. w.queue \in Seq(QueueEntry) /\ IsInjective(DirSeq(w.queue))
    BY DEF Walks, Shape
  <1>2. /\ Head(w.queue) \in QueueEntry /\ Tail(w.queue) \in Seq(QueueEntry)
        /\ IsInjective(DirSeq(Tail(w.queue)))
        /\ Dirs(w) = Range(DirSeq(Tail(w.queue))) \cup {d}
        /\ d \notin Range(DirSeq(Tail(w.queue)))
    BY <1>1, PopIs DEF Dirs
  <1>3. d \in Folder
    BY <1>2 DEF QueueEntry
  <1> HIDE DEF d
  <1>4. v \in Walks
    <2>1. PICK q, U, n : q = Tail(w.queue) /\ U = w.unread \cup {d} /\ n = w.visited + 1
      OBVIOUS
    <2>2. w.unread \in SUBSET Folder /\ w.visited \in Nat
      BY DEF Walks
    <2>3. q \in Seq(QueueEntry) /\ U \in SUBSET Folder /\ n \in Nat
      BY <1>2, <1>3, <2>1, <2>2
    <2>4. v = [w EXCEPT !.queue = q, !.visited = n, !.unread = U]
      BY <2>1 DEF d
    <2>. QED  BY <2>3, <2>4 DEF Walks
  <1>5. /\ v.at = "next" /\ v.queue = Tail(w.queue) /\ v.rest = w.rest
        /\ v.listed = w.listed /\ v.unread = w.unread \cup {d} /\ v.query = w.query
        /\ v.missed = w.missed
        /\ v.root = w.root /\ v.matches = w.matches /\ v.pending = w.pending
        /\ v.truncated = w.truncated
    BY DEF Walks, d
  <1>6. /\ Dirs(w) = Dirs(v) \cup {d} /\ d \notin Dirs(v) /\ Popped(v) = Popped(w) \cup {d}
        /\ IsInjective(DirSeq(v.queue)) /\ d \notin Popped(w)
    BY <1>2, <1>5 DEF Dirs, Popped, Shape
  <1>7. \A c \in Dirs(v) \cup Popped(v) : Below(v, c)
    BY <1>5, <1>6 DEF Shape, Below
  <1>8. Shape(v)
    <2>1. v.listed \cap v.unread = {} /\ Dirs(v) \cap Popped(v) = {}
      BY <1>5, <1>6 DEF Shape, Popped
    <2>2. v.root \in Dirs(v) \cup Popped(v) /\ v.query \in DOMAIN Hits /\ v.root \in Folder
      BY <1>5, <1>6 DEF Shape
    <2>. QED  BY <1>5, <1>6, <1>7, <2>1, <2>2 DEF Shape
  <1>9. Dirs(v) \cup Popped(v) = Dirs(w) \cup Popped(w) /\ ~w.truncated
    BY <1>6 DEF Shape
  <1>10. Reading(v)
    BY <1>5, <1>9 DEF Reading
  <1>. QED  BY <1>4, <1>5, <1>8, <1>10 DEF Same

LEMMA GrowsBy ==
  ASSUME NEW S, NEW p \in Seq(S), NEW e \in S
  PROVE  /\ Append(p, e) \in Seq(S)
         /\ Range(Append(p, e)) = Range(p) \cup {e}
         /\ Len(Append(p, e)) = Len(p) + 1 /\ Append(p, e) # <<>>
         /\ IsInjective(p) /\ e \notin Range(p) => IsInjective(Append(p, e))
  <1>1. PICK t : t = <<e>>
    OBVIOUS
  <1>2. t \in Seq(S) /\ Range(t) = {e} /\ IsInjective(t) /\ Len(t) = 1 /\ Append(p, e) = p \o t
    BY <1>1, OneElement
  <1>3. /\ p \o t \in Seq(S) /\ Range(p \o t) = Range(p) \cup Range(t)
        /\ IsInjective(p) /\ Range(p) \cap Range(t) = {} => IsInjective(p \o t)
        /\ Len(p \o t) = Len(p) + 1
    BY <1>2, ConcatIs
  <1>4. Append(p, e) # <<>>
    BY AppendProperties
  <1>. QED  BY <1>1, <1>2, <1>3, <1>4

(* Noting an entry: a folder to walk is added to one of the two lists.     *)
Notes(w, v, e) ==
  \/ e \notin Walked /\ v.preferred = w.preferred /\ v.other = w.other
  \/ e \in Walked /\ v.preferred = Append(w.preferred, e) /\ v.other = w.other
  \/ e \in Walked /\ v.preferred = w.preferred /\ v.other = Append(w.other, e)

(* What an entry leaves alone.                                             *)
SamePlace(w, v) ==
  /\ v.at = w.at /\ v.query = w.query /\ v.root = w.root /\ v.queue = w.queue
  /\ v.dir = w.dir /\ v.listed = w.listed /\ v.unread = w.unread /\ v.missed = w.missed

LEMMA NotedIs ==
  ASSUME NEW u \in Walks, NEW e \in Entry
  PROVE  /\ Noted(u, e) \in Walks /\ SamePlace(u, Noted(u, e)) /\ Notes(u, Noted(u, e), e)
         /\ Noted(u, e).rest = u.rest /\ Noted(u, e).matches = u.matches
         /\ Noted(u, e).pending = u.pending /\ Noted(u, e).truncated = u.truncated
  <1>1. CASE e \notin Walked
    <2>1. Noted(u, e) = u
      BY <1>1 DEF Noted, Walked
    <2>. QED  BY <1>1, <2>1 DEF SamePlace, Notes
  <1>2. CASE e \in Walked
    <2>1. e \in Folder /\ u.preferred \in Seq(Folder) /\ u.other \in Seq(Folder)
      BY <1>2 DEF Walked, Walks
    <2>2. PICK p, o : p = Append(u.preferred, e) /\ o = Append(u.other, e)
      OBVIOUS
    <2>3. p \in Seq(Folder) /\ o \in Seq(Folder)
      BY <2>1, <2>2, GrowsBy
    <2>4. PICK v : v = Noted(u, e)
      OBVIOUS
    <2>5. v = [u EXCEPT !.preferred = p] \/ v = [u EXCEPT !.other = o]
      BY <1>2, <2>2, <2>4 DEF Noted, Walked
    <2>6. v \in Walks
      BY ZenonT(60), <2>3, <2>5 DEF Walks
    <2>7. /\ SamePlace(u, v) /\ v.rest = u.rest /\ v.matches = u.matches
          /\ v.pending = u.pending /\ v.truncated = u.truncated
          /\ \/ v.preferred = p /\ v.other = u.other
             \/ v.preferred = u.preferred /\ v.other = o
      BY <2>5 DEF SamePlace, Walks
    <2>. QED  BY <1>2, <2>2, <2>4, <2>6, <2>7 DEF Notes
  <1>. QED  BY <1>1, <1>2

(* An entry that does not end the listing.                                 *)
LEMMA ReadsOn ==
  ASSUME NEW w \in Walks, w.at = "entries", Shape(w), Reading(w), NEW e \in w.rest,
         NEW v \in Walks, SamePlace(w, v), Notes(w, v, e), v.rest = w.rest \ {e},
         v.truncated = FALSE, Len(v.matches) < MaxMatches,
         IF e \in Hits[w.query] \ Link THEN v.matches = Append(w.matches, e)
                                       ELSE v.matches = w.matches
  PROVE  Shape(v) /\ Reading(v)
  <1>1. /\ w.matches \in Seq(Entry) /\ w.preferred \in Seq(Folder) /\ w.other \in Seq(Folder)
        /\ w.rest \in SUBSET Entry /\ e \in Entry /\ In[e] = w.dir /\ w.dir \in w.listed
    BY DEF Walks, Shape, Children, Entry
  <1>2. /\ e \notin Range(w.matches) /\ e \notin Noticed(w) /\ e \notin w.missed
        /\ w.truncated = FALSE
    BY DEF Reading, Shape, Walks
  <1>3. /\ v.at = "entries" /\ v.query = w.query /\ v.root = w.root /\ v.queue = w.queue
        /\ v.dir = w.dir /\ v.listed = w.listed /\ v.unread = w.unread /\ v.missed = w.missed
    BY DEF SamePlace
  <1>4. IsInjective(w.preferred) /\ IsInjective(w.other) /\ Range(w.preferred) \cap Range(w.other) = {}
    <2>1. IsInjective(w.preferred \o w.other)
      BY DEF Shape
    <2>. QED  BY <1>1, <2>1, ConcatIs
  <1>5. /\ IsInjective(v.preferred \o v.other)
        /\ IF e \in Walked THEN Noticed(v) = Noticed(w) \cup {e} ELSE Noticed(v) = Noticed(w)
    <2>1. CASE e \notin Walked
      BY <2>1 DEF Notes, Noticed, Shape
    <2>2. CASE e \in Walked /\ v.preferred = Append(w.preferred, e) /\ v.other = w.other
      <3>1. /\ v.preferred \in Seq(Folder) /\ IsInjective(v.preferred)
            /\ Range(v.preferred) = Range(w.preferred) \cup {e}
        <4>1. e \in Folder /\ e \notin Range(w.preferred)
          BY <1>2, <2>2 DEF Walked, Noticed
        <4>. QED  BY <1>1, <1>4, <2>2, <4>1, GrowsBy
      <3>2. Range(v.preferred) \cap Range(v.other) = {} /\ IsInjective(v.other)
        BY <1>2, <1>4, <2>2, <3>1 DEF Noticed
      <3>3. IsInjective(v.preferred \o v.other)
        BY <1>1, <2>2, <3>1, <3>2, ConcatIs
      <3>. QED  BY <2>2, <3>1, <3>3 DEF Noticed
    <2>3. CASE e \in Walked /\ v.preferred = w.preferred /\ v.other = Append(w.other, e)
      <3>1. /\ v.other \in Seq(Folder) /\ IsInjective(v.other)
            /\ Range(v.other) = Range(w.other) \cup {e}
        <4>1. e \in Folder /\ e \notin Range(w.other)
          BY <1>2, <2>3 DEF Walked, Noticed
        <4>. QED  BY <1>1, <1>4, <2>3, <4>1, GrowsBy
      <3>2. Range(v.preferred) \cap Range(v.other) = {} /\ IsInjective(v.preferred)
        BY <1>2, <1>4, <2>3, <3>1 DEF Noticed
      <3>3. IsInjective(v.preferred \o v.other)
        BY <1>1, <2>3, <3>1, <3>2, ConcatIs
      <3>. QED  BY <2>3, <3>1, <3>3 DEF Noticed
    <2>. QED  BY <2>1, <2>2, <2>3 DEF Notes
  <1>6. Dirs(v) = Dirs(w) /\ Popped(v) = Popped(w)
    BY <1>3 DEF Dirs, Popped
  <1>7. /\ Noticed(v) \subseteq (Children(v.dir) \ v.rest) \cap Walked
        /\ v.rest \subseteq Children(v.dir) /\ Noticed(v) \cap v.missed = {}
    BY <1>2, <1>3, <1>5 DEF Shape
  <1>8. Shape(v)
    BY <1>3, <1>5, <1>6, <1>7 DEF Shape, Below
  <1>9. /\ v.matches \in Seq(Entry) /\ IsInjective(v.matches)
        /\ IF e \in Hits[w.query] \ Link THEN Range(v.matches) = Range(w.matches) \cup {e}
                                         ELSE Range(v.matches) = Range(w.matches)
    <2>1. IsInjective(w.matches)
      BY DEF Reading
    <2>2. PICK m : m = Append(w.matches, e)
      OBVIOUS
    <2>3. /\ m \in Seq(Entry) /\ IsInjective(m) /\ Range(m) = Range(w.matches) \cup {e}
          /\ Len(m) = Len(w.matches) + 1
      BY <1>1, <1>2, <2>1, <2>2, GrowsBy
    <2>. QED  BY <1>1, <2>1, <2>2, <2>3
  <1>10. /\ \A x \in Range(v.matches) : /\ x \in Hits[v.query] \ Link
                                        /\ In[x] \in v.listed /\ x \notin v.rest
                                        /\ x \notin v.missed
         /\ \A x \in v.missed : In[x] \in v.listed /\ x \notin v.rest
    BY <1>1, <1>2, <1>3, <1>9 DEF Reading
  <1>11. ASSUME NEW x \in Entry \ v.missed, In[x] \in v.listed
         PROVE  /\ x \in Hits[v.query] \ Link => x \in Range(v.matches) \cup v.rest
                /\ x \in Walked => \/ x \in Dirs(v) \cup Popped(v) \cup v.rest
                                   \/ v.at = "entries" /\ x \in Noticed(v)
    <2>1. /\ x \in Hits[w.query] \ Link => x \in Range(w.matches) \cup w.rest
          /\ x \in Walked => x \in Dirs(w) \cup Popped(w) \cup w.rest \cup Noticed(w)
      BY <1>2, <1>3, <1>11 DEF Reading
    <2>. QED  BY <1>3, <1>5, <1>6, <1>9, <2>1
  <1>. QED  BY <1>8, <1>9, <1>10, <1>11 DEF Reading

(* The entry that reaches the limit: the rest of the listing is skipped.   *)
LEMMA ReadsLast ==
  ASSUME NEW w \in Walks, w.at = "entries", Shape(w), Reading(w), NEW e \in w.rest,
         NEW v \in Walks, SamePlace(w, v), v.preferred = w.preferred, v.other = w.other,
         v.rest = {}, v.truncated = TRUE, e \in Hits[w.query] \ Link,
         v.matches = Append(w.matches, e)
  PROVE  Shape(v) /\ Reading(v)
  <1>1. /\ w.matches \in Seq(Entry) /\ w.rest \in SUBSET Entry /\ e \in Entry
        /\ In[e] = w.dir /\ w.dir \in w.listed
    BY DEF Walks, Shape, Children, Entry
  <1>2. e \notin Range(w.matches) /\ e \notin w.missed /\ w.truncated = FALSE
    BY DEF Reading, Walks
  <1>3. /\ v.at = "entries" /\ v.query = w.query /\ v.root = w.root /\ v.queue = w.queue
        /\ v.dir = w.dir /\ v.listed = w.listed /\ v.unread = w.unread /\ v.missed = w.missed
    BY DEF SamePlace
  <1>4. Dirs(v) = Dirs(w) /\ Popped(v) = Popped(w) /\ Noticed(v) = Noticed(w)
    BY <1>3 DEF Dirs, Popped, Noticed
  <1>5. Shape(v)
    BY <1>3, <1>4 DEF Shape, Below
  <1>6. /\ IsInjective(v.matches) /\ Range(v.matches) = Range(w.matches) \cup {e}
        /\ Len(v.matches) = Len(w.matches) + 1
    <2>1. IsInjective(w.matches)
      BY DEF Reading
    <2>2. PICK m : m = Append(w.matches, e)
      OBVIOUS
    <2>3. /\ m \in Seq(Entry) /\ IsInjective(m) /\ Range(m) = Range(w.matches) \cup {e}
          /\ Len(m) = Len(w.matches) + 1
      BY <1>1, <1>2, <2>1, <2>2, GrowsBy
    <2>. QED  BY <1>1, <2>1, <2>2, <2>3
  <1>7. Len(v.matches) <= MaxMatches
    <2>1. Len(w.matches) < MaxMatches /\ Len(w.matches) \in Nat /\ MaxMatches \in Nat
      BY <1>1, <1>2, LimitsAssumption DEF Reading
    <2>. QED  BY <1>6, <2>1
  <1>8. /\ \A x \in Range(v.matches) : /\ x \in Hits[v.query] \ Link
                                       /\ In[x] \in v.listed /\ x \notin v.rest
                                       /\ x \notin v.missed
        /\ \A x \in v.missed : In[x] \in v.listed /\ x \notin v.rest
    BY <1>1, <1>2, <1>3, <1>6 DEF Reading
  <1>. QED  BY <1>5, <1>6, <1>7, <1>8 DEF Reading

(* An entry whose kind cannot be read is left out of all the walk does.    *)
LEMMA MissesIs ==
  ASSUME NEW w \in Walks, w.at = "entries", Shape(w), Reading(w), NEW e \in w.rest, NEW v,
         v = [w EXCEPT !.rest = w.rest \ {e}, !.missed = w.missed \cup {e}]
  PROVE  /\ v \in Walks /\ Shape(v) /\ Reading(v)
         /\ v.at = "entries" /\ v.pending = w.pending
         /\ v.query = w.query /\ v.root = w.root /\ v.matches = w.matches
  <1>1. /\ w.rest \in SUBSET Entry /\ w.missed \in SUBSET Entry /\ e \in Entry
        /\ In[e] = w.dir /\ w.dir \in w.listed
    BY DEF Walks, Shape, Children, Entry
  <1>2. PICK R, M : R = w.rest \ {e} /\ M = w.missed \cup {e}
    OBVIOUS
  <1>3. v \in Walks
    <2>1. R \in SUBSET Entry /\ M \in SUBSET Entry
      BY <1>1, <1>2
    <2>2. v = [w EXCEPT !.rest = R, !.missed = M]
      BY <1>2
    <2>. QED  BY <2>1, <2>2 DEF Walks
  <1>4. /\ v.at = "entries" /\ v.query = w.query /\ v.root = w.root /\ v.queue = w.queue
        /\ v.dir = w.dir /\ v.listed = w.listed /\ v.unread = w.unread
        /\ v.preferred = w.preferred /\ v.other = w.other /\ v.matches = w.matches
        /\ v.pending = w.pending /\ v.truncated = w.truncated
        /\ v.rest = w.rest \ {e} /\ v.missed = w.missed \cup {e}
    BY DEF Walks
  <1>5. Dirs(v) = Dirs(w) /\ Popped(v) = Popped(w) /\ Noticed(v) = Noticed(w)
    BY <1>4 DEF Dirs, Popped, Noticed
  <1>6. e \notin Noticed(w) /\ e \notin Range(w.matches) /\ w.truncated = FALSE
    BY DEF Shape, Reading, Walks
  <1>7. ASSUME NEW d \in Dirs(v) \cup Popped(v)
        PROVE  Below(v, d)
    BY <1>1, <1>4, <1>5, <1>7 DEF Shape, Below
  <1>8. Shape(v)
    BY <1>4, <1>5, <1>6, <1>7 DEF Shape
  <1>9. /\ \A x \in Range(v.matches) : /\ x \in Hits[v.query] \ Link
                                       /\ In[x] \in v.listed /\ x \notin v.rest
                                       /\ x \notin v.missed
        /\ \A x \in v.missed : In[x] \in v.listed /\ x \notin v.rest
    BY <1>1, <1>4, <1>6 DEF Reading
  <1>10. ASSUME NEW x \in Entry \ v.missed, In[x] \in v.listed
         PROVE  /\ x \in Hits[v.query] \ Link => x \in Range(v.matches) \cup v.rest
                /\ x \in Walked => \/ x \in Dirs(v) \cup Popped(v) \cup v.rest
                                   \/ v.at = "entries" /\ x \in Noticed(v)
    <2>1. x # e /\ x \in Entry \ w.missed /\ In[x] \in w.listed
      BY <1>4, <1>10
    <2>. QED  BY <1>4, <1>5, <1>6, <2>1 DEF Reading
  <1>11. Reading(v)
    BY <1>4, <1>6, <1>9, <1>10 DEF Reading
  <1>. QED  BY <1>3, <1>4, <1>8, <1>11
-----------------------------------------------------------------------------
(* What a step of a walk reports. *)

EventRecord ==
  [id : SearchIds, matches : Seq(Entry), truncated : BOOLEAN, done : BOOLEAN,
   cancelled : BOOLEAN, error : BOOLEAN]

MatchesOf(q) == [i \in DOMAIN q |-> q[i].matches]

Told(q) == FlattenSeq(MatchesOf(q))

NoneDone(q) == \A i \in DOMAIN q : ~q[i].done

(* An event that says the search is complete.                              *)
Ends(x) == x.done /\ ~x.truncated /\ ~x.cancelled /\ ~x.error

Silent(q) == q # <<>> /\ Ends(q[Len(q)])

(* The events of a step carry the matches out, the first of them all.      *)
Lists(list, out) ==
  \/ list = <<>> /\ out = <<>>
  \/ \E x \in EventRecord : list = <<x>> /\ x.matches = out
  \/ \E x, y \in EventRecord : list = <<x, y>> /\ x.matches = out /\ y.matches = <<>>

(* A step finds the matches new and reports the matches out: while the     *)
(* walk goes on, out and what is pending now are what was pending and new. *)
Digest(w, v, list) ==
  \E new, out \in Seq(Entry) :
    /\ v.matches = w.matches \o new
    /\ Lists(list, out)
    /\ Open(v) => out \o v.pending = w.pending \o new /\ NoneDone(list)
    /\ v.at = "ended" =>
         /\ new = <<>> /\ v.pending = <<>> /\ out \in {<<>>, w.pending}
         /\ Silent(list) => out = w.pending /\ Range(v.matches) = Expected(v)

Advances(s, w, v, list) ==
  /\ v \in Walks /\ v.at \in {"next", "entries", "ended"}
  /\ v.query = w.query /\ v.root = w.root
  /\ Open(v) => Shape(v) /\ Reading(v)
  /\ list \in Seq(EventRecord) /\ \A i \in DOMAIN list : list[i].id = s
  /\ Digest(w, v, list)

(* What the events of a search so far say of its walk.                     *)
Tells(w, q) ==
  /\ w.at = "none" => q = <<>>
  /\ Open(w) => Told(q) \o w.pending = w.matches /\ NoneDone(q)
  /\ w.at \in {"ended", "over"} => IsPrefix(Told(q), w.matches) /\ w.pending = <<>>
  /\ Silent(q) => Told(q) = w.matches /\ Range(w.matches) = Expected(w)

(* The matches that have left the walk.                                    *)
Given(w) == Range(w.matches) \ Range(w.pending)

Apart(q) ==
  \A i, j \in DOMAIN q : i # j => Range(q[i].matches) \cap Range(q[j].matches) = {}

Sends(w, v, list) ==
  /\ Given(w) \subseteq Given(v)
  /\ \A i \in DOMAIN list : /\ IsInjective(list[i].matches)
                            /\ Range(list[i].matches) \subseteq Given(v) \ Given(w)
                            /\ list[i].done => v.at = "ended"
  /\ Apart(list)

LEMMA MatchesOfIs ==
  ASSUME NEW q \in Seq(EventRecord)
  PROVE  /\ MatchesOf(q) \in Seq(Seq(Entry)) /\ Len(MatchesOf(q)) = Len(q)
         /\ \A i \in 1..Len(q) : MatchesOf(q)[i] = q[i].matches /\ q[i].matches \in Seq(Entry)
  <1>1. \A i \in 1..Len(q) : q[i] \in EventRecord
    OBVIOUS
  <1>2. \A i \in 1..Len(q) : q[i].matches \in Seq(Entry)
    BY <1>1 DEF EventRecord
  <1>3. MatchesOf(q) = [i \in 1..Len(q) |-> q[i].matches] /\ Len(q) \in Nat
    BY DEF MatchesOf
  <1>. QED  BY <1>2, <1>3, IsASeq

LEMMA ToldType ==
  ASSUME NEW q \in Seq(EventRecord)
  PROVE  Told(q) \in Seq(Entry)
  <1>1. MatchesOf(q) \in Seq(Seq(Entry)) /\ <<>> \in Seq(Entry)
    BY MatchesOfIs
  <1>. QED  BY <1>1, FlattenAppend DEF Told

LEMMA ToldIs ==
  ASSUME NEW q \in Seq(EventRecord), NEW x \in EventRecord
  PROVE  Told(Append(q, x)) = Told(q) \o x.matches
  <1>1. x.matches \in Seq(Entry)
    BY DEF EventRecord
  <1>2. PICK t, a, b, m : t = Append(q, x) /\ a = MatchesOf(t) /\ b = MatchesOf(q) /\ m = x.matches
    OBVIOUS
  <1>3. /\ t \in Seq(EventRecord) /\ Len(t) = Len(q) + 1 /\ Len(q) \in Nat
        /\ t[Len(q) + 1] = x /\ \A i \in 1..Len(q) : t[i] = q[i]
    BY <1>2
  <1>4. /\ a \in Seq(Seq(Entry)) /\ Len(a) = Len(q) + 1
        /\ \A i \in 1..(Len(q) + 1) : a[i] = t[i].matches
    BY <1>2, <1>3, MatchesOfIs
  <1>5. /\ b \in Seq(Seq(Entry)) /\ Len(b) = Len(q) /\ m \in Seq(Entry)
        /\ \A i \in 1..Len(q) : b[i] = q[i].matches
    BY <1>1, <1>2, MatchesOfIs
  <1>6. ASSUME NEW i \in 1..(Len(q) + 1)
        PROVE  a[i] = IF i <= Len(q) THEN b[i] ELSE m
    <2>1. a[i] = t[i].matches
      BY <1>4
    <2>2. CASE i <= Len(q)
      <3>1. i \in 1..Len(q)
        BY <1>3, <2>2
      <3>2. t[i] = q[i] /\ b[i] = q[i].matches
        BY <1>3, <1>5, <3>1
      <3>. QED  BY <2>1, <2>2, <3>2
    <2>3. CASE ~(i <= Len(q))
      <3>1. i = Len(q) + 1
        BY <1>3, <2>3
      <3>. QED  BY <1>2, <1>3, <2>1, <2>3, <3>1
    <2>. QED  BY <2>2, <2>3
  <1>7. \A i \in 1..(Len(q) + 1) : Append(b, m)[i] = IF i <= Len(q) THEN b[i] ELSE m
    BY <1>3, <1>5
  <1>8. Append(b, m) \in Seq(Seq(Entry)) /\ Len(Append(b, m)) = Len(q) + 1
    BY <1>5
  <1>9. a = Append(b, m)
    BY <1>4, <1>6, <1>7, <1>8, SeqEqual
  <1>10. FlattenSeq(Append(b, m)) = FlattenSeq(b) \o m
    BY <1>5, FlattenAppend
  <1>. QED  BY <1>2, <1>9, <1>10 DEF Told

LEMMA ToldNothing == Told(<<>>) = <<>>
  <1>1. PICK z : z = MatchesOf(<<>>)
    OBVIOUS
  <1>2. z = <<>>
    BY <1>1 DEF MatchesOf
  <1>3. FlattenSeq(<<>>) = <<>>
    BY FlattenIs
  <1>. QED  BY <1>1, <1>2, <1>3 DEF Told

(* The events of a step after the events before it.                        *)
LEMMA ToldLists ==
  ASSUME NEW q \in Seq(EventRecord), NEW list \in Seq(EventRecord), NEW out \in Seq(Entry),
         Lists(list, out)
  PROVE  Told(q \o list) = Told(q) \o out
  <1>1. Told(q) \in Seq(Entry)
    BY ToldType
  <1>2. CASE list = <<>> /\ out = <<>>
    BY <1>1, <1>2, NoElement
  <1>3. CASE \E x \in EventRecord : list = <<x>> /\ x.matches = out
    <2>1. PICK x \in EventRecord : list = <<x>> /\ x.matches = out
      BY <1>3
    <2>2. q \o <<x>> = Append(q, x)
      BY AppendIsConcat
    <2>. QED  BY <2>1, <2>2, ToldIs
  <1>4. CASE \E x, y \in EventRecord : list = <<x, y>> /\ x.matches = out /\ y.matches = <<>>
    <2>1. PICK x \in EventRecord, y \in EventRecord :
            list = <<x, y>> /\ x.matches = out /\ y.matches = <<>>
      BY <1>4
    <2>2. PICK r, t : r = Append(q, x) /\ t = Append(r, y)
      OBVIOUS
    <2>3. /\ r \in Seq(EventRecord) /\ Told(r) = Told(q) \o out /\ Told(r) \in Seq(Entry)
          /\ Told(t) = Told(r) \o <<>>
      <3>1. r \in Seq(EventRecord)
        BY <2>2
      <3>2. Told(r) = Told(q) \o out
        BY <2>1, <2>2, ToldIs
      <3>3. Told(t) = Told(r) \o y.matches
        BY <2>2, <3>1, ToldIs
      <3>. QED  BY <2>1, <3>1, <3>2, <3>3, ToldType
    <2>4. t = q \o <<x, y>>
      <3>1. /\ Len(r) = Len(q) + 1 /\ Len(q) \in Nat /\ r[Len(q) + 1] = x
            /\ \A i \in 1..Len(q) : r[i] = q[i]
        BY <2>2
      <3>2. /\ t \in Seq(EventRecord) /\ Len(t) = Len(q) + 2 /\ t[Len(q) + 2] = y
            /\ t[Len(q) + 1] = x /\ \A i \in 1..Len(q) : t[i] = q[i]
        BY <2>2, <2>3, <3>1
      <3>3. PICK z : z = <<x, y>>
        OBVIOUS
      <3>4. z \in Seq(EventRecord) /\ Len(z) = 2 /\ z[1] = x /\ z[2] = y
        BY <3>3
      <3>5. /\ q \o z \in Seq(EventRecord) /\ Len(q \o z) = Len(q) + 2
            /\ \A i \in 1..(Len(q) + 2) : (q \o z)[i] = IF i <= Len(q) THEN q[i] ELSE z[i - Len(q)]
        <4>1. /\ q \o z \in Seq(EventRecord) /\ Len(q \o z) = Len(q) + Len(z)
              /\ \A i \in 1..(Len(q) + Len(z)) :
                   (q \o z)[i] = IF i <= Len(q) THEN q[i] ELSE z[i - Len(q)]
          BY <3>4, ConcatProperties
        <4>. QED  BY <3>4, <4>1
      <3>6. ASSUME NEW i \in 1..(Len(q) + 2)
            PROVE  t[i] = (q \o z)[i]
        <4>1. i \in 1..Len(q) \/ i = Len(q) + 1 \/ i = Len(q) + 2
          BY <3>1
        <4>2. CASE i \in 1..Len(q)
          BY <3>2, <3>5, <4>2
        <4>3. CASE i = Len(q) + 1
          BY <3>1, <3>2, <3>4, <3>5, <4>3
        <4>4. CASE i = Len(q) + 2
          BY <3>1, <3>2, <3>4, <3>5, <4>4
        <4>. QED  BY <4>1, <4>2, <4>3, <4>4
      <3>7. t = q \o z
        BY <3>2, <3>5, <3>6, SeqEqual
      <3>. QED  BY <3>3, <3>7
    <2>. QED  BY <2>1, <2>3, <2>4, NoElement
  <1>. QED  BY <1>2, <1>3, <1>4 DEF Lists

LEMMA ExpectedIs ==
  ASSUME NEW w, NEW v, v.query = w.query, v.root = w.root, v.unread = w.unread,
         v.missed = w.missed
  PROVE  Expected(v) = Expected(w)
  <1>1. \A S : Closed(v, S) <=> Closed(w, S)
    BY DEF Closed
  <1>2. Listed(v) = Listed(w)
    BY <1>1 DEF Listed
  <1>. QED  BY <1>2 DEF Expected

LEMMA PrefixIs ==
  ASSUME NEW p \in Seq(Entry), NEW o \in Seq(Entry)
  PROVE  IsPrefix(p, p \o o) /\ IsPrefix(p, p)
  <1>1. IsPrefix(p, p \o o)
    BY ConcatIs
  <1>2. PICK z : z = <<>> /\ z \in Seq(Entry) /\ p \o z = p
    BY NoElement
  <1>3. IsPrefix(p, p \o z)
    BY <1>2, ConcatIs
  <1>. QED  BY <1>1, <1>2, <1>3

LEMMA LastIs ==
  ASSUME NEW q \in Seq(EventRecord), NEW list \in Seq(EventRecord)
  PROVE  /\ q \o list \in Seq(EventRecord)
         /\ Len(q \o list) = Len(q) + Len(list) /\ Len(q) \in Nat /\ Len(list) \in Nat
         /\ \A i \in DOMAIN (q \o list) :
              \/ i \in DOMAIN q /\ (q \o list)[i] = q[i]
              \/ i - Len(q) \in DOMAIN list /\ (q \o list)[i] = list[i - Len(q)]
         /\ list = <<>> => q \o list = q
         /\ list # <<>> => (q \o list)[Len(q \o list)] = list[Len(list)]
  <1>1. /\ q \o list \in Seq(EventRecord) /\ Len(q \o list) = Len(q) + Len(list)
        /\ Len(q) \in Nat /\ Len(list) \in Nat
        /\ \A i \in 1..(Len(q) + Len(list)) :
             (q \o list)[i] = IF i <= Len(q) THEN q[i] ELSE list[i - Len(q)]
    BY ConcatProperties
  <1>2. ASSUME NEW i \in DOMAIN (q \o list)
        PROVE  \/ i \in DOMAIN q /\ (q \o list)[i] = q[i]
               \/ i - Len(q) \in DOMAIN list /\ (q \o list)[i] = list[i - Len(q)]
    <2>1. i \in 1..(Len(q) + Len(list)) /\ DOMAIN q = 1..Len(q) /\ DOMAIN list = 1..Len(list)
      BY <1>1
    <2>2. (q \o list)[i] = IF i <= Len(q) THEN q[i] ELSE list[i - Len(q)]
      BY <1>1, <2>1
    <2>3. CASE i <= Len(q)
      BY <1>1, <2>1, <2>2, <2>3
    <2>4. CASE ~(i <= Len(q))
      BY <1>1, <2>1, <2>2, <2>4
    <2>. QED  BY <2>3, <2>4
  <1>3. ASSUME list # <<>>
        PROVE  (q \o list)[Len(q \o list)] = list[Len(list)]
    <2>1. Len(list) > 0
      BY <1>3, EmptySeq
    <2>2. Len(q) + Len(list) \in 1..(Len(q) + Len(list)) /\ ~(Len(q) + Len(list) <= Len(q))
          /\ Len(q) + Len(list) - Len(q) = Len(list)
      BY <1>1, <2>1
    <2>. QED  BY <1>1, <2>2
  <1>4. list = <<>> => q \o list = q
    BY NoElement
  <1>. QED  BY <1>1, <1>2, <1>3, <1>4

LEMMA TellsOn ==
  ASSUME NEW s, NEW w \in Walks, Open(w), NEW q \in Seq(EventRecord), Tells(w, q),
         NEW v, NEW list, Advances(s, w, v, list)
  PROVE  Tells(v, q \o list)
  <1>1. /\ v \in Walks /\ v.at \in {"next", "entries", "ended"} /\ list \in Seq(EventRecord)
        /\ v.query = w.query /\ v.root = w.root
    BY DEF Advances
  <1>2. PICK new \in Seq(Entry), out \in Seq(Entry) :
          /\ v.matches = w.matches \o new
          /\ Lists(list, out)
          /\ Open(v) => out \o v.pending = w.pending \o new /\ NoneDone(list)
          /\ v.at = "ended" =>
               /\ new = <<>> /\ v.pending = <<>> /\ out \in {<<>>, w.pending}
               /\ Silent(list) => out = w.pending /\ Range(v.matches) = Expected(v)
    BY DEF Advances, Digest
  <1>3. /\ Told(q) \in Seq(Entry) /\ Told(q \o list) = Told(q) \o out
        /\ w.pending \in Seq(Entry) /\ v.pending \in Seq(Entry) /\ w.matches \in Seq(Entry)
    BY <1>1, <1>2, ToldType, ToldLists DEF Walks
  <1>4. Told(q) \o w.pending = w.matches /\ NoneDone(q)
    BY DEF Tells
  <1>5. PICK t, r : t = Told(q) /\ r = q \o list
    OBVIOUS
  <1>6. /\ t \in Seq(Entry) /\ Told(r) = t \o out /\ t \o w.pending = w.matches
    BY <1>3, <1>4, <1>5
  <1>7. CASE Open(v)
    <2>1. (t \o out) \o v.pending = t \o (out \o v.pending)
      <3>1. PICK p \in Seq(Entry) : p = v.pending
        BY <1>3
      <3>2. (t \o out) \o p = t \o (out \o p)
        BY SMTT(30), <1>6, ConcatAssociative
      <3>. QED  BY <3>1, <3>2
    <2>2. (t \o w.pending) \o new = t \o (w.pending \o new)
      <3>1. PICK p \in Seq(Entry) : p = w.pending
        BY <1>3
      <3>2. (t \o p) \o new = t \o (p \o new)
        BY <1>6, ConcatAssociative
      <3>. QED  BY <3>1, <3>2
    <2>3. out \o v.pending = w.pending \o new /\ NoneDone(list)
      BY <1>2, <1>7
    <2>4. Told(r) \o v.pending = v.matches
      BY <1>2, <1>6, <2>1, <2>2, <2>3
    <2>5. r \in Seq(EventRecord) /\ NoneDone(r)
      <3>1. /\ q \o list \in Seq(EventRecord)
            /\ \A i \in DOMAIN (q \o list) :
                 \/ i \in DOMAIN q /\ (q \o list)[i] = q[i]
                 \/ i - Len(q) \in DOMAIN list /\ (q \o list)[i] = list[i - Len(q)]
        BY <1>1, LastIs
      <3>2. \A i \in DOMAIN r : (\E j \in DOMAIN q : r[i] = q[j]) \/ \E j \in DOMAIN list : r[i] = list[j]
        BY <1>5, <3>1
      <3>. QED  BY <1>4, <1>5, <2>3, <3>1, <3>2 DEF NoneDone
    <2>6. ~Silent(r)
      <3>1. r # <<>> => Len(r) \in DOMAIN r
        BY <2>5
      <3>. QED  BY <2>5, <3>1 DEF Silent, Ends, NoneDone
    <2>. QED  BY <1>5, <1>7, <2>4, <2>5, <2>6 DEF Tells, Open
  <1>8. CASE v.at = "ended"
    <2>1. /\ new = <<>> /\ v.pending = <<>> /\ out \in {<<>>, w.pending}
          /\ Silent(list) => out = w.pending /\ Range(v.matches) = Expected(v)
      BY <1>2, <1>8
    <2>2. v.matches = w.matches
      BY <1>2, <1>3, <2>1, NoElement
    <2>3. IsPrefix(Told(r), v.matches)
      <3>1. CASE out = <<>>
        <4>1. Told(r) = t
          BY <1>6, <3>1, NoElement
        <4>. QED  BY <1>3, <1>6, <2>2, <4>1, PrefixIs
      <3>2. CASE out = w.pending
        BY <1>3, <1>6, <2>2, <3>2, PrefixIs
      <3>. QED  BY <2>1, <3>1, <3>2
    <2>4. ASSUME Silent(r)
          PROVE  Told(r) = v.matches /\ Range(v.matches) = Expected(v)
      <3>1. CASE list = <<>>
        <4>1. r = q
          BY <1>1, <1>5, <3>1, LastIs
        <4>2. r # <<>> => Len(r) \in DOMAIN r
          BY <4>1
        <4>. QED  BY <1>4, <2>4, <4>1, <4>2 DEF Silent, Ends, NoneDone
      <3>2. CASE list # <<>>
        <4>1. r[Len(r)] = list[Len(list)]
          BY <1>1, <1>5, <3>2, LastIs
        <4>2. Silent(list)
          BY <2>4, <3>2, <4>1 DEF Silent
        <4>. QED  BY <1>6, <2>1, <2>2, <4>2
      <3>. QED  BY <3>1, <3>2
    <2>. QED  BY <1>5, <1>8, <2>1, <2>3, <2>4 DEF Tells, Open
  <1>. QED  BY <1>1, <1>7, <1>8 DEF Open

(* The events of a step carry what no event before them did.               *)
LEMMA SendsOn ==
  ASSUME NEW s, NEW w \in Walks, Open(w), Reading(w), NEW q \in Seq(EventRecord), Tells(w, q),
         NEW v, NEW list, Advances(s, w, v, list)
  PROVE  Sends(w, v, list) /\ IsInjective(v.matches)
  <1>1. v \in Walks /\ v.at \in {"next", "entries", "ended"} /\ list \in Seq(EventRecord)
    BY DEF Advances
  <1>2. PICK new \in Seq(Entry), out \in Seq(Entry) :
          /\ v.matches = w.matches \o new
          /\ Lists(list, out)
          /\ Open(v) => out \o v.pending = w.pending \o new /\ NoneDone(list)
          /\ v.at = "ended" =>
               /\ new = <<>> /\ v.pending = <<>> /\ out \in {<<>>, w.pending}
               /\ Silent(list) => out = w.pending /\ Range(v.matches) = Expected(v)
    BY DEF Advances, Digest
  <1>3. PICK p \in Seq(Entry), m \in Seq(Entry), o \in Seq(Entry), n \in Seq(Entry), t \in Seq(Entry) :
          /\ p = w.pending /\ m = w.matches /\ o = v.pending /\ n = v.matches /\ t = Told(q)
    <2>1. /\ w.pending \in Seq(Entry) /\ w.matches \in Seq(Entry)
          /\ v.pending \in Seq(Entry) /\ v.matches \in Seq(Entry)
      BY <1>1 DEF Walks
    <2>2. Told(q) \in Seq(Entry)
      BY ToldType
    <2>. QED  BY <2>1, <2>2
  <1>4. t \o p = m /\ IsInjective(m)
    BY <1>3 DEF Tells, Reading
  <1>5. Range(p) \subseteq Range(m) /\ IsInjective(p)
    <2>1. Range(t \o p) = Range(t) \cup Range(p) /\ IsInjective(p)
      BY ZenonT(60), <1>4, ConcatIs
    <2>. QED  BY <1>4, <2>1
  <1>6. n = m \o new
    BY <1>2, <1>3
  <1>7. IsInjective(n)
    <2>1. CASE Open(v)
      BY <1>1, <1>3, <2>1 DEF Advances, Reading
    <2>2. CASE v.at = "ended"
      <3>1. n = m
        BY <1>2, <1>6, <2>2, NoElement
      <3>. QED  BY <1>4, <3>1
    <2>. QED  BY <1>1, <2>1, <2>2 DEF Open
  <1>8. /\ Range(n) = Range(m) \cup Range(new) /\ Range(m) \cap Range(new) = {}
        /\ IsInjective(new)
    <2>1. /\ Range(m \o new) = Range(m) \cup Range(new)
          /\ Range(m) \cap Range(new) = {} /\ IsInjective(new)
      BY <1>6, <1>7, ConcatIs
    <2>. QED  BY <1>6, <2>1
  <1>9. /\ IsInjective(out) /\ Range(out) \cap Range(o) = {}
        /\ Range(out) \cup Range(o) \subseteq Range(p) \cup Range(new)
    <2>1. CASE Open(v)
      <3>1. out \o o = p \o new
        BY <1>2, <1>3, <2>1
      <3>2. IsInjective(p \o new) /\ Range(p \o new) = Range(p) \cup Range(new)
        <4>1. Range(p) \cap Range(new) = {}
          BY <1>5, <1>8
        <4>. QED  BY <1>5, <1>8, <4>1, ConcatIs
      <3>3. IsInjective(out \o o)
        BY <3>1, <3>2
      <3>4. /\ IsInjective(out) /\ Range(out) \cap Range(o) = {}
            /\ Range(out \o o) = Range(out) \cup Range(o)
        BY <3>3, ConcatIs
      <3>. QED  BY <3>1, <3>2, <3>4
    <2>2. CASE v.at = "ended"
      <3>1. o = <<>> /\ (out = <<>> \/ out = p)
        BY <1>2, <1>3, <2>2
      <3>. QED  BY <1>5, <3>1, NoElement
    <2>. QED  BY <1>1, <2>1, <2>2 DEF Open
  <1>10. Given(w) = Range(m) \ Range(p) /\ Given(v) = Range(n) \ Range(o)
    BY <1>3 DEF Given
  <1>11. Given(w) \subseteq Given(v) /\ Range(out) \subseteq Given(v) \ Given(w)
    BY <1>5, <1>8, <1>9, <1>10
  <1>12. \A i \in DOMAIN list : list[i].matches = out \/ list[i].matches = <<>>
    BY <1>2 DEF Lists
  <1>13. \A i \in DOMAIN list : /\ IsInjective(list[i].matches)
                                /\ Range(list[i].matches) \subseteq Given(v) \ Given(w)
    BY <1>9, <1>11, <1>12, NoElement
  <1>14. Apart(list)
    <2>1. CASE list = <<>> /\ out = <<>>
      BY <2>1 DEF Apart
    <2>2. CASE \E x \in EventRecord : list = <<x>> /\ x.matches = out
      BY <2>2 DEF Apart
    <2>3. CASE \E x, y \in EventRecord : list = <<x, y>> /\ x.matches = out /\ y.matches = <<>>
      <3>1. PICK x \in EventRecord, y \in EventRecord :
              list = <<x, y>> /\ x.matches = out /\ y.matches = <<>>
        BY <2>3
      <3>2. \A i, j \in DOMAIN list : i # j => list[i].matches = <<>> \/ list[j].matches = <<>>
        BY <3>1
      <3>. QED  BY <3>2, NoElement DEF Apart
    <2>. QED  BY <1>2, <2>1, <2>2, <2>3 DEF Lists
  <1>15. \A i \in DOMAIN list : list[i].done => v.at = "ended"
    BY <1>1, <1>2 DEF NoneDone, Open
  <1>. QED  BY <1>3, <1>7, <1>11, <1>13, <1>14, <1>15 DEF Sends

-----------------------------------------------------------------------------
(* Every step of a walk advances it in that sense. *)

(* A step that finds and reports nothing.                                  *)
LEMMA Quietly ==
  ASSUME NEW s, NEW w \in Walks, NEW v \in Walks, Open(v), Shape(v), Reading(v), Same(w, v),
         v.pending = w.pending
  PROVE  Advances(s, w, v, <<>>)
  <1>1. w.matches \in Seq(Entry) /\ w.pending \in Seq(Entry) /\ <<>> \in Seq(Entry)
    <2>1. w.matches \in Seq(Entry) /\ w.pending \in Seq(Entry)
      BY DEF Walks
    <2>. QED  BY <2>1
  <1>2. v.matches = w.matches \o <<>> /\ <<>> \o v.pending = w.pending \o <<>>
    BY <1>1, NoElement DEF Same
  <1>3. Lists(<<>>, <<>>) /\ NoneDone(<<>>) /\ <<>> \in Seq(EventRecord)
    BY DEF Lists, NoneDone
  <1>4. v.at \in {"next", "entries"}
    BY DEF Open
  <1>5. Digest(w, v, <<>>)
    BY <1>1, <1>2, <1>3, <1>4 DEF Digest
  <1>. QED  BY <1>3, <1>4, <1>5 DEF Advances, Same

(* The last events of a walk: what is pending is reported or dropped.      *)
LEMMA Lastly ==
  ASSUME NEW s, NEW w \in Walks, NEW v \in Walks, v.at = "ended", Same(w, v), v.pending = <<>>,
         NEW list \in Seq(EventRecord), \A i \in DOMAIN list : list[i].id = s,
         NEW out \in Seq(Entry), Lists(list, out), out = <<>> \/ out = w.pending,
         Silent(list) => out = w.pending /\ Range(v.matches) = Expected(v)
  PROVE  Advances(s, w, v, list)
  <1>1. w.matches \in Seq(Entry) /\ <<>> \in Seq(Entry)
    <2>1. w.matches \in Seq(Entry)
      BY DEF Walks
    <2>. QED  BY <2>1
  <1>2. v.matches = w.matches \o <<>>
    BY <1>1, NoElement DEF Same
  <1>3. ~Open(v)
    BY DEF Open
  <1>4. Digest(w, v, list)
    BY <1>1, <1>2, <1>3 DEF Digest
  <1>. QED  BY <1>3, <1>4 DEF Advances, Same

LEMMA EndedIs ==
  ASSUME NEW u \in Walks, NEW v,
         v = [u EXCEPT !.at = "ended", !.pending = <<>>, !.queue = <<>>, !.rest = {}]
  PROVE  /\ v \in Walks /\ v.at = "ended" /\ v.pending = <<>> /\ Same(u, v)
         /\ v.unread = u.unread /\ v.missed = u.missed
  <1>1. PICK z : z = <<>>
    OBVIOUS
  <1>2. z \in Seq(Entry) /\ z \in Seq(QueueEntry)
    BY <1>1, NoElement
  <1>3. v = [u EXCEPT !.at = "ended", !.pending = z, !.queue = z, !.rest = {}]
    BY <1>1
  <1>4. v \in Walks
    BY <1>2, <1>3 DEF Walks
  <1>. QED  BY <1>1, <1>3, <1>4 DEF Same, Walks

LEMMA OneEvent ==
  ASSUME NEW x \in EventRecord
  PROVE  /\ <<x>> \in Seq(EventRecord) /\ Lists(<<x>>, x.matches)
         /\ \A i \in DOMAIN <<x>> : <<x>>[i] = x
         /\ Silent(<<x>>) => Ends(x)
  <1>1. PICK q : q = <<x>>
    OBVIOUS
  <1>2. q \in Seq(EventRecord) /\ Len(q) = 1 /\ q[1] = x /\ DOMAIN q = {1}
    BY <1>1
  <1>3. Silent(q) => Ends(x)
    BY <1>2 DEF Silent
  <1>4. Lists(q, x.matches)
    BY <1>1 DEF Lists
  <1>. QED  BY <1>1, <1>2, <1>3, <1>4

LEMMA FinishAdvances ==
  ASSUME NEW s \in SearchIds, NEW w \in Walks, NEW u \in Walks, Same(w, u),
         u.pending = w.pending, NEW stopped \in BOOLEAN, NEW v,
         v = [u EXCEPT !.at = "ended", !.pending = <<>>, !.queue = <<>>, !.rest = {}],
         stopped \/ u.truncated \/ Range(w.matches) = Expected(u)
  PROVE  Advances(s, w, v, <<Event(s, u.pending, u, TRUE, stopped, FALSE)>>)
  <1>1. /\ v \in Walks /\ v.at = "ended" /\ v.pending = <<>> /\ Same(u, v)
        /\ v.unread = u.unread /\ v.missed = u.missed
    BY EndedIs
  <1>2. PICK x : x = Event(s, u.pending, u, TRUE, stopped, FALSE)
    OBVIOUS
  <1>3. u.pending \in Seq(Entry) /\ u.truncated \in BOOLEAN
    BY DEF Walks
  <1>4. /\ x \in EventRecord /\ x.id = s /\ x.matches = u.pending
        /\ x.truncated = u.truncated /\ x.cancelled = stopped
    BY <1>2, <1>3 DEF Event, EventRecord
  <1>5. /\ <<x>> \in Seq(EventRecord) /\ Lists(<<x>>, x.matches)
        /\ \A i \in DOMAIN <<x>> : <<x>>[i] = x
        /\ Silent(<<x>>) => Ends(x)
    BY <1>4, OneEvent
  <1>6. Expected(v) = Expected(u)
    BY <1>1, ExpectedIs DEF Same
  <1>7. Ends(x) => Range(v.matches) = Expected(v)
    BY <1>1, <1>4, <1>6 DEF Ends, Same
  <1>8. Same(w, v)
    BY <1>1 DEF Same
  <1>9. PICK list, out : list = <<x>> /\ out = x.matches
    OBVIOUS
  <1>10. /\ list \in Seq(EventRecord) /\ \A i \in DOMAIN list : list[i].id = s
         /\ out \in Seq(Entry) /\ Lists(list, out) /\ out = w.pending
         /\ Silent(list) => Range(v.matches) = Expected(v)
    BY <1>3, <1>4, <1>5, <1>7, <1>9
  <1>11. Advances(s, w, v, list)
    BY <1>1, <1>8, <1>10, Lastly
  <1>. QED  BY <1>2, <1>9, <1>11

LEMMA FailAdvances ==
  ASSUME NEW s \in SearchIds, NEW w \in Walks, NEW u \in Walks, Same(w, u), NEW v,
         v = [u EXCEPT !.at = "ended", !.pending = <<>>, !.queue = <<>>, !.rest = {}]
  PROVE  Advances(s, w, v, <<Event(s, <<>>, NoWalk, TRUE, FALSE, TRUE)>>)
  <1>1. v \in Walks /\ v.at = "ended" /\ v.pending = <<>> /\ Same(u, v)
    BY EndedIs
  <1>2. PICK x, n, z : x = Event(s, <<>>, NoWalk, TRUE, FALSE, TRUE) /\ n = NoWalk /\ z = <<>>
    OBVIOUS
  <1>3. z \in Seq(Entry) /\ n.truncated \in BOOLEAN /\ x = Event(s, z, n, TRUE, FALSE, TRUE)
    BY <1>2, NoElement DEF NoWalk
  <1>4. x \in EventRecord /\ x.id = s /\ x.matches = z /\ x.error = TRUE
    BY <1>3 DEF Event, EventRecord
  <1>5. /\ <<x>> \in Seq(EventRecord) /\ Lists(<<x>>, x.matches)
        /\ \A i \in DOMAIN <<x>> : <<x>>[i] = x
        /\ Silent(<<x>>) => Ends(x)
    BY <1>4, OneEvent
  <1>6. Same(w, v)
    BY <1>1 DEF Same
  <1>7. PICK list : list = <<x>>
    OBVIOUS
  <1>8. /\ list \in Seq(EventRecord) /\ \A i \in DOMAIN list : list[i].id = s
        /\ Lists(list, z) /\ ~Silent(list)
    BY <1>4, <1>5, <1>7 DEF Ends
  <1>9. Advances(s, w, v, list)
    BY <1>1, <1>2, <1>3, <1>6, <1>8, Lastly
  <1>. QED  BY <1>2, <1>7, <1>9

(* The matches of a listing that has been read are reported.               *)
LEMMA FlushedIs ==
  ASSUME NEW s \in SearchIds, NEW w \in Walks
  PROVE  \/ Flushed(s, w) = <<>> /\ w.pending = <<>>
         \/ \E x \in EventRecord : /\ Flushed(s, w) = <<x>> /\ x.id = s /\ ~x.done
                                   /\ x.matches = w.pending
  <1>1. CASE w.pending = <<>>
    BY <1>1 DEF Flushed
  <1>2. CASE w.pending # <<>>
    <2>1. PICK x : x = Event(s, w.pending, w, FALSE, FALSE, FALSE)
      OBVIOUS
    <2>2. w.pending \in Seq(Entry) /\ w.truncated \in BOOLEAN
      BY DEF Walks
    <2>3. x \in EventRecord /\ x.id = s /\ x.matches = w.pending /\ ~x.done
      BY <2>1, <2>2 DEF Event, EventRecord
    <2>. QED  BY <1>2, <2>1, <2>3 DEF Flushed
  <1>. QED  BY <1>1, <1>2

(* The folders noted are queued: the walk goes on to the next folder.      *)
LEMMA LeavesIs ==
  ASSUME NEW w \in Walks, w.at = "entries", w.rest = {}, ~w.truncated, Shape(w), Reading(w),
         NEW v, v = [w EXCEPT !.pending = <<>>, !.at = "next", !.queue = Enqueued(w)]
  PROVE  /\ v \in Walks /\ Shape(v) /\ Reading(v) /\ Same(w, v)
         /\ v.at = "next" /\ v.pending = <<>>
  <1>1. /\ w.preferred \in Seq(Folder) /\ w.other \in Seq(Folder) /\ w.queue \in Seq(QueueEntry)
        /\ w.depth \in Nat
    BY DEF Walks
  <1>2. PICK a, b, p, o, k : /\ a = Queued(p, k) /\ b = Queued(o, k) /\ p = w.preferred
                             /\ o = w.other /\ k = w.depth + 1
    OBVIOUS
  <1>3. /\ p \in Seq(Folder) /\ o \in Seq(Folder) /\ a \in Seq(QueueEntry) /\ DirSeq(a) = p
        /\ b \in Seq(QueueEntry) /\ DirSeq(b) = o
    <2>1. p \in Seq(Folder) /\ o \in Seq(Folder) /\ k \in Nat
      BY <1>1, <1>2
    <2>. QED  BY <1>2, <2>1, QueuedIs
  <1>4. PICK q, r, g : q = w.queue /\ r = (a \o q) \o b /\ g = DirSeq(q)
    OBVIOUS
  <1>5. /\ q \in Seq(QueueEntry) /\ r \in Seq(QueueEntry) /\ g \in Seq(Folder)
        /\ DirSeq(r) = (p \o g) \o o
    <2>1. q \in Seq(QueueEntry) /\ a \o q \in Seq(QueueEntry) /\ r \in Seq(QueueEntry)
      BY <1>1, <1>3, <1>4, ConcatIs
    <2>2. DirSeq(a \o q) = p \o g
      BY <1>3, <1>4, <2>1, DirSeqConcat
    <2>3. DirSeq(r) = DirSeq(a \o q) \o o
      BY <1>3, <1>4, <2>1, DirSeqConcat
    <2>4. g \in Seq(Folder)
      BY <1>4, <2>1, DirSeqIs
    <2>. QED  BY <2>1, <2>2, <2>3, <2>4
  <1>6. Range(g) = Dirs(w) /\ Range(p) \cup Range(o) = Noticed(w)
    BY <1>2, <1>4 DEF Dirs, Noticed
  <1>7. IsInjective(p) /\ IsInjective(o) /\ Range(p) \cap Range(o) = {}
    <2>1. IsInjective(p \o o)
      BY <1>2 DEF Shape
    <2>. QED  BY <1>3, <2>1, ConcatIs
  <1>8. \A d \in Noticed(w) : d \in Walked /\ d \in Entry /\ In[d] = w.dir /\ w.dir \in w.listed
    BY DEF Shape, Children, Entry
  <1>9. Noticed(w) \cap (Dirs(w) \cup Popped(w)) = {}
    <2> SUFFICES ASSUME NEW d \in Noticed(w), d \in Dirs(w) \cup Popped(w)
                 PROVE  FALSE
      OBVIOUS
    <2>1. d = w.root
      BY <1>8 DEF Shape
    <2>2. \A c \in w.listed : c = w.root \/ (c \in Entry /\ In[c] \in w.listed)
      BY DEF Shape, Below, Popped
    <2>3. In[w.root] \notin w.listed
      BY <1>8, <2>1, <2>2, RootIsTop
    <2>. QED  BY <1>8, <2>1, <2>3
  <1>10. IsInjective(DirSeq(r)) /\ Range(DirSeq(r)) = Dirs(w) \cup Noticed(w)
    <2>1. IsInjective(g)
      BY <1>4 DEF Shape
    <2>2. Range(p) \cap Range(g) = {} /\ Range(o) \cap Range(g) = {}
      BY <1>6, <1>9
    <2>3. PICK h : h = p \o g
      OBVIOUS
    <2>4. h \in Seq(Folder) /\ IsInjective(h) /\ Range(h) = Range(p) \cup Range(g)
      BY <1>3, <1>5, <1>7, <2>1, <2>2, <2>3, ConcatIs
    <2>5. Range(h) \cap Range(o) = {}
      BY <1>7, <2>2, <2>4
    <2>6. IsInjective(h \o o) /\ Range(h \o o) = Range(h) \cup Range(o)
      BY <1>3, <1>7, <2>4, <2>5, ConcatIs
    <2>. QED  BY <1>5, <1>6, <2>3, <2>4, <2>6
  <1>11. v = [w EXCEPT !.pending = <<>>, !.at = "next", !.queue = r]
    BY <1>2, <1>4 DEF Enqueued
  <1>12. v \in Walks
    <2>1. PICK z : z = <<>>
      OBVIOUS
    <2>2. z \in Seq(Entry) /\ v = [w EXCEPT !.pending = z, !.at = "next", !.queue = r]
      BY <1>11, <2>1, NoElement
    <2>. QED  BY <1>5, <2>2 DEF Walks
  <1>13. /\ v.at = "next" /\ v.queue = r /\ v.rest = {} /\ v.pending = <<>>
         /\ v.listed = w.listed /\ v.unread = w.unread /\ v.query = w.query /\ v.root = w.root
         /\ v.missed = w.missed
         /\ v.matches = w.matches /\ v.truncated = w.truncated
    BY <1>11 DEF Walks
  <1>14. Dirs(v) = Dirs(w) \cup Noticed(w) /\ Popped(v) = Popped(w) /\ IsInjective(DirSeq(v.queue))
    BY <1>10, <1>13 DEF Dirs, Popped
  <1>15. Shape(v)
    <2>1. \A d \in Dirs(v) \cup Popped(v) : Below(v, d)
      BY <1>8, <1>13, <1>14 DEF Shape, Below
    <2>2. Dirs(v) \cap Popped(v) = {}
      BY <1>9, <1>14 DEF Shape
    <2>. QED  BY <1>13, <1>14, <2>1, <2>2 DEF Shape
  <1>16. Reading(v)
    BY <1>13, <1>14 DEF Reading
  <1>. QED  BY <1>12, <1>13, <1>15, <1>16 DEF Same

LEMMA LeavesAdvances ==
  ASSUME NEW s \in SearchIds, NEW w \in Walks, NEW v \in Walks, v.at = "next", Shape(v),
         Reading(v), Same(w, v), v.pending = <<>>, NEW list, list = Flushed(s, w)
  PROVE  Advances(s, w, v, list)
  <1>1. w.matches \in Seq(Entry) /\ w.pending \in Seq(Entry)
    BY DEF Walks
  <1>2. PICK p, z : p = w.pending /\ z = <<>>
    OBVIOUS
  <1>3. /\ p \in Seq(Entry) /\ z \in Seq(Entry)
        /\ v.matches = w.matches \o z /\ p \o v.pending = w.pending \o z
    BY <1>1, <1>2, NoElement DEF Same
  <1>4. \/ list = <<>> /\ p = <<>>
        \/ \E x \in EventRecord : list = <<x>> /\ x.id = s /\ ~x.done /\ x.matches = p
    BY <1>2, FlushedIs
  <1>5. /\ list \in Seq(EventRecord) /\ \A i \in DOMAIN list : list[i].id = s
        /\ Lists(list, p) /\ NoneDone(list)
    <2>1. CASE list = <<>> /\ p = <<>>
      BY <2>1 DEF Lists, NoneDone
    <2>2. CASE \E x \in EventRecord : list = <<x>> /\ x.id = s /\ ~x.done /\ x.matches = p
      <3>1. PICK x \in EventRecord : list = <<x>> /\ x.id = s /\ ~x.done /\ x.matches = p
        BY <2>2
      <3>2. /\ list \in Seq(EventRecord) /\ Lists(list, p)
            /\ \A i \in DOMAIN list : list[i] = x
        BY <3>1, OneEvent
      <3>. QED  BY <3>1, <3>2 DEF NoneDone
    <2>. QED  BY <1>4, <2>1, <2>2
  <1>6. v.at # "ended"
    OBVIOUS
  <1>7. Digest(w, v, list)
    BY <1>3, <1>5, <1>6 DEF Digest
  <1>. QED  BY <1>5, <1>7 DEF Advances, Same

IsPair(q, x, y) == q = <<x, y>>

LEMMA PairIs ==
  ASSUME NEW x \in EventRecord, NEW y \in EventRecord, NEW q, IsPair(q, x, y)
  PROVE  q = <<x>> \o <<y>>
  <1>1. q = <<x, y>> /\ Len(q) = 2 /\ DOMAIN q = 1..2 /\ q[1] = x /\ q[2] = y
    BY DEF IsPair
  <1>2. \A i \in DOMAIN q : i = 1 \/ i = 2
    BY <1>1
  <1>3. q \in Seq(EventRecord)
    BY <1>1
  <1>4. PICK a, b : a = <<x>> /\ b = <<y>>
    OBVIOUS
  <1>5. /\ a \in Seq(EventRecord) /\ b \in Seq(EventRecord) /\ Len(a) = 1 /\ Len(b) = 1
        /\ a[1] = x /\ b[1] = y
    BY <1>4
  <1>6. /\ a \o b \in Seq(EventRecord) /\ Len(a \o b) = Len(a) + Len(b)
        /\ \A i \in 1..(Len(a) + Len(b)) :
             (a \o b)[i] = IF i <= Len(a) THEN a[i] ELSE b[i - Len(a)]
    BY <1>5, ConcatProperties
  <1>7. Len(a \o b) = 2 /\ (a \o b)[1] = x /\ (a \o b)[2] = y
    BY <1>5, <1>6
  <1>8. \A i \in 1..Len(q) : q[i] = (a \o b)[i]
    BY <1>1, <1>2, <1>7
  <1>9. q = a \o b
    BY <1>1, <1>3, <1>6, <1>7, <1>8, SeqEqual
  <1>. QED  BY <1>1, <1>2, <1>3, <1>4, <1>9

(* The events of a walk cut short: the last one says so.                   *)
CutShort(list, s, p) ==
  \E y \in EventRecord :
    /\ y.id = s /\ y.matches = <<>> /\ y.truncated = TRUE
    /\ \/ list = <<y>> /\ p = <<>>
       \/ \E x \in EventRecord : list = <<x, y>> /\ x.id = s /\ x.matches = p

LEMMA CutLists ==
  ASSUME NEW s, NEW p \in Seq(Entry), NEW list, CutShort(list, s, p)
  PROVE  /\ list \in Seq(EventRecord) /\ \A i \in DOMAIN list : list[i].id = s
         /\ Lists(list, p) /\ ~Silent(list)
  <1>0. PICK y \in EventRecord :
          /\ y.id = s /\ y.matches = <<>> /\ y.truncated = TRUE
          /\ \/ list = <<y>> /\ p = <<>>
             \/ \E x \in EventRecord : list = <<x, y>> /\ x.id = s /\ x.matches = p
    BY DEF CutShort
  <1>1. CASE list = <<y>> /\ p = <<>>
    <2>1. /\ list \in Seq(EventRecord) /\ Lists(list, y.matches)
          /\ \A i \in DOMAIN list : list[i] = y
          /\ Silent(list) => Ends(y)
      BY <1>1, OneEvent
    <2>. QED  BY <1>0, <1>1, <2>1 DEF Ends
  <1>2. CASE \E x \in EventRecord : list = <<x, y>> /\ x.id = s /\ x.matches = p
    <2>1. PICK x \in EventRecord : list = <<x, y>> /\ x.id = s /\ x.matches = p
      BY <1>2
    <2>2. /\ list \in Seq(EventRecord) /\ Len(list) = 2 /\ DOMAIN list = 1..2
          /\ list[1] = x /\ list[2] = y
      BY <2>1
    <2>3. Lists(list, p)
      BY <1>0, <2>1 DEF Lists
    <2>4. \A i \in 1..2 : i = 1 \/ i = 2
      OBVIOUS
    <2>5. \A i \in DOMAIN list : list[i].id = s
      BY <1>0, <2>1, <2>2, <2>4
    <2>6. ~Silent(list)
      BY <1>0, <2>2 DEF Silent, Ends
    <2>. QED  BY <2>2, <2>3, <2>5, <2>6
  <1>. QED  BY <1>0, <1>1, <1>2

Cuts(s, w, u, v, list) ==
  /\ u = [w EXCEPT !.pending = <<>>]
  /\ v = [u EXCEPT !.at = "ended", !.queue = <<>>]
  /\ list = Flushed(s, w) \o <<Event(s, <<>>, u, TRUE, FALSE, FALSE)>>

LEMMA CutAdvances ==
  ASSUME NEW s \in SearchIds, NEW w \in Walks, w.truncated, NEW u, NEW v, NEW list,
         Cuts(s, w, u, v, list)
  PROVE  Advances(s, w, v, list)
  <1>1. w.matches \in Seq(Entry) /\ w.pending \in Seq(Entry) /\ w.truncated = TRUE
    BY DEF Walks
  <1>2. PICK p, z, y : p = w.pending /\ z = <<>> /\ y = Event(s, z, u, TRUE, FALSE, FALSE)
    OBVIOUS
  <1>3. p \in Seq(Entry) /\ z \in Seq(Entry) /\ z \in Seq(QueueEntry)
    BY <1>1, <1>2, NoElement
  <1>4. u.truncated = TRUE
    BY <1>1 DEF Cuts, Walks
  <1>5. y \in EventRecord /\ y.id = s /\ y.matches = <<>> /\ y.truncated = TRUE
    BY <1>2, <1>3, <1>4 DEF Event, EventRecord
  <1>6. v = [w EXCEPT !.pending = z, !.at = "ended", !.queue = z]
    BY <1>2 DEF Cuts
  <1>7. v \in Walks /\ v.at = "ended" /\ Same(w, v) /\ v.pending = <<>>
    <2>1. v \in Walks
      BY <1>3, <1>6 DEF Walks
    <2>. QED  BY ZenonT(60), <1>2, <1>6, <2>1 DEF Same, Walks
  <1>8. \/ list = <<y>> /\ p = <<>>
        \/ \E x \in EventRecord : list = <<x, y>> /\ x.id = s /\ x.matches = p
    <2>1. CASE Flushed(s, w) = <<>> /\ w.pending = <<>>
      <3>1. PICK q : q = <<y>>
        OBVIOUS
      <3>2. q \in Seq(EventRecord) /\ list = <<>> \o q
        <4>1. list = <<>> \o q
          BY <1>2, <2>1, <3>1 DEF Cuts
        <4>. QED  BY <1>5, <3>1, <4>1, OneEvent
      <3>3. list = q
        BY <3>2, NoElement
      <3>. QED  BY <1>2, <2>1, <3>1, <3>3
    <2>2. CASE \E x \in EventRecord : /\ Flushed(s, w) = <<x>> /\ x.id = s /\ ~x.done
                                      /\ x.matches = w.pending
      <3>1. PICK x \in EventRecord : Flushed(s, w) = <<x>> /\ x.id = s /\ x.matches = w.pending
        BY <2>2
      <3>2. list = <<x>> \o <<y>>
        BY <1>2, <3>1 DEF Cuts
      <3>3. PICK q : q = <<x, y>> /\ IsPair(q, x, y)
        BY DEF IsPair
      <3>4. q = <<x>> \o <<y>>
        BY <1>5, <3>3, PairIs
      <3>. QED  BY <1>2, <3>1, <3>2, <3>3, <3>4
    <2>. QED  BY <2>1, <2>2, FlushedIs
  <1>9. /\ list \in Seq(EventRecord) /\ \A i \in DOMAIN list : list[i].id = s
        /\ Lists(list, p) /\ ~Silent(list)
    <2>1. CutShort(list, s, p)
      BY <1>5, <1>8 DEF CutShort
    <2>. QED  BY <1>3, <2>1, CutLists
  <1>10. Advances(s, w, v, list)
    BY <1>2, <1>3, <1>7, <1>9, Lastly
  <1>. QED  BY <1>10

(* push_match: the match counts, and the batch is reported when it is full.*)
Pushes(s, u, e, v, list) == v = Pushed(s, u, e).w /\ list = Pushed(s, u, e).out

LEMMA PushedIs ==
  ASSUME NEW s \in SearchIds, NEW u \in Walks, NEW e \in Entry,
         NEW v, NEW list, Pushes(s, u, e, v, list)
  PROVE  /\ v \in Walks /\ SamePlace(u, v) /\ v.preferred = u.preferred /\ v.other = u.other
         /\ v.rest = u.rest /\ v.matches = Append(u.matches, e)
         /\ v.truncated = (Len(v.matches) >= MaxMatches)
         /\ \/ list = <<>> /\ v.pending = Append(u.pending, e)
            \/ \E x \in EventRecord : /\ list = <<x>> /\ x.id = s /\ ~x.done
                                      /\ x.matches = Append(u.pending, e) /\ v.pending = <<>>
  <1>1. u.matches \in Seq(Entry) /\ u.pending \in Seq(Entry)
    BY DEF Walks
  <1>2. PICK m, p, z, k, one : /\ m = Append(u.matches, e) /\ p = Append(u.pending, e) /\ z = <<>>
                               /\ k = (Len(m) >= MaxMatches)
                               /\ one = [u EXCEPT !.matches = m, !.pending = p]
    OBVIOUS
  <1>3. m \in Seq(Entry) /\ p \in Seq(Entry) /\ p # <<>> /\ z \in Seq(Entry)
    BY <1>1, <1>2, GrowsBy, NoElement
  <1>4. k \in BOOLEAN
    BY <1>2
  <1>5. one \in Walks /\ one.matches = m /\ one.pending = p /\ one.truncated \in BOOLEAN
    <2>1. one \in Walks
      BY <1>2, <1>3 DEF Walks
    <2>. QED  BY <1>2, <2>1 DEF Walks
  <1>6. /\ v = [(IF Len(p) >= Batch THEN [one EXCEPT !.pending = <<>>] ELSE one)
                  EXCEPT !.truncated = k]
        /\ list = IF Len(p) >= Batch THEN Flushed(s, one) ELSE <<>>
    BY <1>2, <1>5 DEF Pushes, Pushed
  <1>7. CASE Len(p) >= Batch
    <2>1. v = [u EXCEPT !.matches = m, !.pending = z, !.truncated = k]
      BY <1>2, <1>6, <1>7
    <2>2. v \in Walks
      BY <1>3, <1>4, <2>1 DEF Walks
    <2>3. PICK x \in EventRecord : list = <<x>> /\ x.id = s /\ ~x.done /\ x.matches = p
      BY <1>3, <1>5, <1>6, <1>7, FlushedIs
    <2>4. /\ SamePlace(u, v) /\ v.preferred = u.preferred /\ v.other = u.other
          /\ v.rest = u.rest /\ v.matches = m /\ v.pending = z /\ v.truncated = k
      BY <2>1 DEF SamePlace, Walks
    <2>. QED  BY <1>2, <2>2, <2>3, <2>4
  <1>8. CASE ~(Len(p) >= Batch)
    <2>1. v = [u EXCEPT !.matches = m, !.pending = p, !.truncated = k]
      BY <1>2, <1>6, <1>8
    <2>2. v \in Walks
      BY <1>3, <1>4, <2>1 DEF Walks
    <2>. QED  BY <1>2, <1>6, <1>8, <2>1, <2>2 DEF SamePlace, Walks
  <1>. QED  BY <1>7, <1>8

LEMMA FindAdvances ==
  ASSUME NEW s \in SearchIds, NEW w \in Walks, NEW v \in Walks, v.at = "entries", Shape(v),
         Reading(v), v.query = w.query, v.root = w.root, NEW e \in Entry,
         v.matches = Append(w.matches, e), NEW list,
         \/ list = <<>> /\ v.pending = Append(w.pending, e)
         \/ \E x \in EventRecord : /\ list = <<x>> /\ x.id = s /\ ~x.done
                                   /\ x.matches = Append(w.pending, e) /\ v.pending = <<>>
  PROVE  Advances(s, w, v, list)
  <1>1. PICK m \in Seq(Entry), p \in Seq(Entry), t \in Seq(Entry) :
          m = w.matches /\ p = w.pending /\ t = <<e>>
    <2>1. w.matches \in Seq(Entry) /\ w.pending \in Seq(Entry)
      BY DEF Walks
    <2>2. <<e>> \in Seq(Entry)
      BY OneElement
    <2>. QED  BY <2>1, <2>2
  <1>2. Append(m, e) = m \o t /\ Append(p, e) = p \o t
    BY <1>1, AppendIsConcat
  <1>3. p \o t \in Seq(Entry) /\ v.matches = w.matches \o t
    BY <1>1, <1>2, ConcatIs
  <1>4. \E out \in Seq(Entry) : Lists(list, out) /\ out \o v.pending = w.pending \o t
    <2>1. CASE list = <<>> /\ v.pending = Append(w.pending, e)
      <3>1. PICK z : z = <<>>
        OBVIOUS
      <3>2. z \in Seq(Entry) /\ Lists(list, z) /\ z \o v.pending = w.pending \o t
        BY <1>1, <1>2, <1>3, <2>1, <3>1, NoElement DEF Lists
      <3>. QED  BY <3>2
    <2>2. CASE \E x \in EventRecord : /\ list = <<x>> /\ x.id = s /\ ~x.done
                                      /\ x.matches = Append(w.pending, e) /\ v.pending = <<>>
      <3>1. PICK o : o = p \o t
        OBVIOUS
      <3>2. o \in Seq(Entry) /\ Lists(list, o) /\ o \o v.pending = w.pending \o t
        BY <1>1, <1>2, <1>3, <2>2, <3>1, NoElement DEF Lists
      <3>. QED  BY <3>2
    <2>. QED  BY <2>1, <2>2
  <1>5. /\ list \in Seq(EventRecord) /\ \A i \in DOMAIN list : list[i].id = s
        /\ NoneDone(list)
    <2>1. CASE list = <<>>
      BY <2>1 DEF NoneDone
    <2>2. CASE \E x \in EventRecord : list = <<x>> /\ x.id = s /\ ~x.done
      <3>1. PICK x \in EventRecord : list = <<x>> /\ x.id = s /\ ~x.done
        BY <2>2
      <3>2. list \in Seq(EventRecord) /\ \A i \in DOMAIN list : list[i] = x
        BY <3>1, OneEvent
      <3>. QED  BY <3>1, <3>2 DEF NoneDone
    <2>. QED  BY <2>1, <2>2
  <1>6. v.at # "ended"
    OBVIOUS
  <1>7. Digest(w, v, list)
    BY <1>1, <1>3, <1>4, <1>5, <1>6 DEF Digest
  <1>. QED  BY <1>5, <1>7 DEF Advances

-----------------------------------------------------------------------------
(* The actions of a walk advance it. *)

Sound(w) == w \in Walks /\ (Open(w) => Shape(w) /\ Reading(w))

Advanced(s) ==
  \E v, list : Moves(s, v, list) /\ Open(walk[s]) /\ Advances(s, walk[s], v, list)

LEMMA Finishing ==
  ASSUME NEW s \in SearchIds, walk[s] \in Walks, Open(walk[s]), NEW u \in Walks,
         Same(walk[s], u), u.pending = walk[s].pending, NEW stopped \in BOOLEAN,
         stopped \/ u.truncated \/ Range(u.matches) = Expected(u), Finish(s, u, stopped)
  PROVE  Advanced(s)
  <1>1. PICK v, list :
          /\ v = [u EXCEPT !.at = "ended", !.pending = <<>>, !.queue = <<>>, !.rest = {}]
          /\ list = <<Event(s, u.pending, u, TRUE, stopped, FALSE)>>
    OBVIOUS
  <1>2. Moves(s, v, list)
    BY <1>1 DEF Finish
  <1>3. stopped \/ u.truncated \/ Range(walk[s].matches) = Expected(u)
    BY DEF Same
  <1>4. PICK w : w = walk[s]
    OBVIOUS
  <1>5. Advances(s, w, v, <<Event(s, u.pending, u, TRUE, stopped, FALSE)>>)
    BY <1>1, <1>3, <1>4, FinishAdvances
  <1>. QED  BY <1>1, <1>2, <1>4, <1>5 DEF Advanced

LEMMA Failing ==
  ASSUME NEW s \in SearchIds, walk[s] \in Walks, Open(walk[s]), NEW u \in Walks,
         Same(walk[s], u), Fail(s, u)
  PROVE  Advanced(s)
  <1>1. PICK v, list :
          /\ v = [u EXCEPT !.at = "ended", !.pending = <<>>, !.queue = <<>>, !.rest = {}]
          /\ list = <<Event(s, <<>>, NoWalk, TRUE, FALSE, TRUE)>>
    OBVIOUS
  <1>2. Moves(s, v, list)
    BY <1>1 DEF Fail
  <1>3. PICK w : w = walk[s]
    OBVIOUS
  <1>4. Advances(s, w, v, <<Event(s, <<>>, NoWalk, TRUE, FALSE, TRUE)>>)
    BY <1>1, <1>3, FailAdvances
  <1>. QED  BY <1>1, <1>2, <1>3, <1>4 DEF Advanced

LEMMA SameIsSame ==
  ASSUME NEW w
  PROVE  Same(w, w)
  BY DEF Same

LEMMA EndingAdvances ==
  ASSUME NEW s \in SearchIds, Sound(walk[s]),
         Stopped(s) \/ Exhausted(s) \/ GivesUp(s) \/ EntryFails(s)
  PROVE  Advanced(s)
  <1>1. walk[s] \in Walks /\ Same(walk[s], walk[s])
    BY SameIsSame DEF Sound
  <1>2. CASE Stopped(s)
    <2>1. Open(walk[s]) /\ Finish(s, walk[s], TRUE)
      BY <1>2 DEF Stopped, Open
    <2>. QED  BY <1>1, <2>1, Finishing
  <1>3. CASE Exhausted(s)
    <2>1. Open(walk[s]) /\ Finish(s, walk[s], FALSE) /\ walk[s].at = "next" /\ walk[s].queue = <<>>
      BY <1>3 DEF Exhausted, Open
    <2>2. Range(walk[s].matches) = Expected(walk[s])
      <3>1. PICK w : w = walk[s]
        OBVIOUS
      <3>2. Range(w.matches) = Expected(w)
        BY <1>1, <2>1, <3>1, DoneIsComplete DEF Sound
      <3>. QED  BY <3>1, <3>2
    <2>. QED  BY <1>1, <2>1, <2>2, Finishing
  <1>4. CASE GivesUp(s)
    <2>1. PICK u : u = [walk[s] EXCEPT !.truncated = TRUE]
      OBVIOUS
    <2>2. Open(walk[s]) /\ Finish(s, u, FALSE)
      BY <1>4, <2>1 DEF GivesUp, Open
    <2>3. u \in Walks
      BY <1>1, <2>1 DEF Walks
    <2>4. Same(walk[s], u) /\ u.pending = walk[s].pending /\ u.truncated
      BY <1>1, <2>1 DEF Same, Walks
    <2>. QED  BY <1>1, <2>2, <2>3, <2>4, Finishing
  <1>5. CASE EntryFails(s)
    <2>1. Open(walk[s]) /\ Fail(s, walk[s])
      BY <1>5 DEF EntryFails, Open
    <2>. QED  BY <1>1, <2>1, Failing
  <1>. QED  BY <1>2, <1>3, <1>4, <1>5

LEMMA OpeningAdvances ==
  ASSUME NEW s \in SearchIds, Sound(walk[s]), OpensFolder(s) \/ ListingFails(s)
  PROVE  Advanced(s)
  <1>1. PICK w : w = walk[s]
    OBVIOUS
  <1>2. /\ w \in Walks /\ w.at = "next" /\ w.queue # <<>> /\ Open(w)
        /\ Shape(w) /\ Reading(w)
    BY <1>1 DEF OpensFolder, ListingFails, Opening, Open, Sound
  <1>3. CASE OpensFolder(s)
    <2>1. PICK v :
            v = [w EXCEPT !.at = "entries", !.queue = Tail(w.queue), !.visited = w.visited + 1,
                          !.dir = Head(w.queue).dir, !.depth = Head(w.queue).depth,
                          !.rest = Children(Head(w.queue).dir),
                          !.listed = w.listed \cup {Head(w.queue).dir},
                          !.preferred = <<>>, !.other = <<>>]
      OBVIOUS
    <2>2. Moves(s, v, <<>>)
      BY <1>1, <1>3, <2>1 DEF OpensFolder
    <2>3. /\ v \in Walks /\ Shape(v) /\ Reading(v) /\ Same(w, v)
          /\ v.at = "entries" /\ v.pending = w.pending
      BY <1>2, <2>1, OpensIs
    <2>4. Advances(s, w, v, <<>>)
      BY <1>2, <2>3, Quietly DEF Open
    <2>. QED  BY <1>1, <1>2, <2>2, <2>4 DEF Advanced
  <1>4. CASE ListingFails(s)
    <2>1. CASE w.remote /\ Head(w.queue).depth > 0
      <3>1. PICK v : v = [w EXCEPT !.queue = Tail(w.queue), !.visited = w.visited + 1,
                                   !.unread = w.unread \cup {Head(w.queue).dir}]
        OBVIOUS
      <3>2. Moves(s, v, <<>>)
        <4>1. PICK u : u = [w EXCEPT !.queue = Tail(w.queue), !.visited = w.visited + 1]
          OBVIOUS
        <4>2. Moves(s, [u EXCEPT !.unread = u.unread \cup {Head(w.queue).dir}], <<>>)
          BY <1>1, <1>4, <2>1, <4>1 DEF ListingFails
        <4>3. u.unread = w.unread
          BY <4>1
        <4>. QED  BY <3>1, <4>1, <4>2, <4>3
      <3>3. /\ v \in Walks /\ Shape(v) /\ Reading(v) /\ Same(w, v)
            /\ v.at = "next" /\ v.pending = w.pending
        BY <1>2, <3>1, PassesIs
      <3>4. Advances(s, w, v, <<>>)
        BY <1>2, <3>3, Quietly DEF Open
      <3>. QED  BY <1>1, <1>2, <3>2, <3>4 DEF Advanced
    <2>2. CASE ~(w.remote /\ Head(w.queue).depth > 0)
      <3>1. PICK u : u = [w EXCEPT !.queue = Tail(w.queue), !.visited = w.visited + 1]
        OBVIOUS
      <3>2. Fail(s, u)
        BY <1>1, <1>4, <2>2, <3>1 DEF ListingFails
      <3>3. u \in Walks
        <4>1. PICK q, n : q = Tail(w.queue) /\ n = w.visited + 1
          OBVIOUS
        <4>2. w.visited \in Nat /\ w.queue \in Seq(QueueEntry)
          BY <1>2 DEF Walks
        <4>3. q \in Seq(QueueEntry) /\ n \in Nat
          BY <1>2, <4>1, <4>2
        <4>. QED  BY <1>2, <3>1, <4>1, <4>3 DEF Walks
      <3>4. Same(w, u)
        BY <1>2, <3>1 DEF Same, Walks
      <3>. QED  BY <1>1, <1>2, <3>2, <3>3, <3>4, Failing
    <2>. QED  BY <2>1, <2>2
  <1>. QED  BY <1>3, <1>4

LEMMA LeavingAdvances ==
  ASSUME NEW s \in SearchIds, Sound(walk[s]), LeavesFolder(s)
  PROVE  Advanced(s)
  <1>1. PICK w, u : w = walk[s] /\ u = [w EXCEPT !.pending = <<>>]
    OBVIOUS
  <1>2. /\ w \in Walks /\ w.at = "entries" /\ w.rest = {} /\ Open(w)
        /\ Shape(w) /\ Reading(w)
    BY <1>1 DEF LeavesFolder, Open, Sound
  <1>3. /\ u.truncated = w.truncated /\ u.preferred = w.preferred /\ u.other = w.other
        /\ u.queue = w.queue /\ u.depth = w.depth
    BY <1>1, <1>2 DEF Walks
  <1>4. CASE w.truncated
    <2>1. PICK v, list : /\ v = [u EXCEPT !.at = "ended", !.queue = <<>>]
                         /\ list = Flushed(s, w) \o <<Event(s, <<>>, u, TRUE, FALSE, FALSE)>>
      OBVIOUS
    <2>2. Moves(s, v, list)
      BY <1>1, <1>3, <1>4, <2>1 DEF LeavesFolder
    <2>3. Cuts(s, w, u, v, list)
      BY <1>1, <2>1 DEF Cuts
    <2>4. Advances(s, w, v, list)
      BY <1>2, <1>4, <2>3, CutAdvances
    <2>. QED  BY <1>1, <1>2, <2>2, <2>4 DEF Advanced
  <1>5. CASE ~w.truncated
    <2>1. PICK v, list : v = [u EXCEPT !.at = "next", !.queue = Enqueued(u)] /\ list = Flushed(s, w)
      OBVIOUS
    <2>2. Moves(s, v, list)
      BY <1>1, <1>3, <1>5, <2>1 DEF LeavesFolder
    <2>3. Enqueued(u) = Enqueued(w)
      BY <1>3 DEF Enqueued
    <2>4. v = [w EXCEPT !.pending = <<>>, !.at = "next", !.queue = Enqueued(w)]
      BY <1>1, <2>1, <2>3
    <2>5. /\ v \in Walks /\ Shape(v) /\ Reading(v) /\ Same(w, v)
          /\ v.at = "next" /\ v.pending = <<>>
      BY <1>2, <1>5, <2>4, LeavesIs
    <2>6. Advances(s, w, v, list)
      BY <1>2, <2>1, <2>5, LeavesAdvances
    <2>. QED  BY <1>1, <1>2, <2>2, <2>6 DEF Advanced
  <1>. QED  BY <1>4, <1>5

LEMMA ReadingAdvances ==
  ASSUME NEW s \in SearchIds, Sound(walk[s]), ReadsEntry(s)
  PROVE  Advanced(s)
  <1>1. PICK w : w = walk[s]
    OBVIOUS
  <1>2. w \in Walks /\ w.at = "entries" /\ Open(w) /\ Shape(w) /\ Reading(w)
    BY <1>1 DEF ReadsEntry, Open, Sound
  <1>e. PICK e \in w.rest :
          LET x == [w EXCEPT !.rest = w.rest \ {e}]
              pushed == Pushed(s, x, e)
          IN  IF ~(e \in Hits[x.query] \ Link) THEN Moves(s, Noted(x, e), <<>>)
              ELSE Moves(s, IF pushed.w.truncated THEN [pushed.w EXCEPT !.rest = {}]
                            ELSE Noted(pushed.w, e), pushed.out)
    BY <1>1 DEF ReadsEntry
  <1>u. PICK u, found, pv, list :
          /\ u = [w EXCEPT !.rest = w.rest \ {e}] /\ found = (e \in Hits[u.query] \ Link)
          /\ pv = Pushed(s, u, e).w /\ list = Pushed(s, u, e).out
    OBVIOUS
  <1>3. /\ e \in w.rest /\ u = [w EXCEPT !.rest = w.rest \ {e}]
        /\ found = (e \in Hits[u.query] \ Link)
        /\ pv = Pushed(s, u, e).w /\ list = Pushed(s, u, e).out
        /\ IF ~found THEN Moves(s, Noted(u, e), <<>>)
           ELSE Moves(s, IF pv.truncated THEN [pv EXCEPT !.rest = {}] ELSE Noted(pv, e), list)
    BY <1>e, <1>u
  <1>4. w.rest \in SUBSET Entry /\ e \in Entry /\ w.truncated = FALSE /\ w.matches \in Seq(Entry)
    BY <1>2, <1>3 DEF Walks, Reading
  <1>5. u \in Walks
    <2>1. PICK r : r = w.rest \ {e} /\ r \in SUBSET Entry
      BY <1>4
    <2>2. u = [w EXCEPT !.rest = r]
      BY <1>3, <2>1
    <2>. QED  BY <1>2, <2>1, <2>2 DEF Walks
  <1>6. /\ SamePlace(w, u) /\ u.rest = w.rest \ {e} /\ u.matches = w.matches
        /\ u.pending = w.pending /\ u.truncated = FALSE /\ u.query = w.query /\ u.root = w.root
        /\ u.preferred = w.preferred /\ u.other = w.other
    BY <1>2, <1>3, <1>4 DEF SamePlace, Walks
  <1>7. Len(w.matches) < MaxMatches
    BY <1>2, <1>4 DEF Reading
  <1>8. CASE ~found
    <2>1. PICK v : v = Noted(u, e)
      OBVIOUS
    <2>2. Moves(s, v, <<>>) /\ e \notin Hits[w.query] \ Link
      BY <1>3, <1>6, <1>8, <2>1
    <2>3. /\ v \in Walks /\ SamePlace(u, v) /\ Notes(u, v, e) /\ v.rest = u.rest
          /\ v.matches = u.matches /\ v.pending = u.pending /\ v.truncated = u.truncated
      BY <1>4, <1>5, <2>1, NotedIs
    <2>4. /\ SamePlace(w, v) /\ Notes(w, v, e) /\ v.rest = w.rest \ {e}
          /\ v.matches = w.matches /\ v.pending = w.pending /\ v.truncated = FALSE
      BY <1>6, <2>3 DEF SamePlace, Notes
    <2>5. Shape(v) /\ Reading(v)
      BY <1>2, <1>3, <1>7, <2>2, <2>3, <2>4, ReadsOn
    <2>6. Open(v) /\ Same(w, v)
      BY <1>2, <2>4 DEF SamePlace, Open, Same
    <2>7. Advances(s, w, v, <<>>)
      BY <1>2, <2>3, <2>4, <2>5, <2>6, Quietly
    <2>. QED  BY <1>1, <1>2, <2>2, <2>7 DEF Advanced
  <1>9. CASE found
    <2>1. /\ pv \in Walks /\ SamePlace(u, pv) /\ pv.preferred = u.preferred /\ pv.other = u.other
          /\ pv.rest = u.rest /\ pv.matches = Append(u.matches, e)
          /\ pv.truncated = (Len(pv.matches) >= MaxMatches)
          /\ \/ list = <<>> /\ pv.pending = Append(u.pending, e)
             \/ \E x \in EventRecord : /\ list = <<x>> /\ x.id = s /\ ~x.done
                                       /\ x.matches = Append(u.pending, e) /\ pv.pending = <<>>
      <3>1. Pushes(s, u, e, pv, list)
        BY <1>3 DEF Pushes
      <3>. QED  BY <1>4, <1>5, <3>1, PushedIs
    <2>2. /\ SamePlace(w, pv) /\ pv.preferred = w.preferred /\ pv.other = w.other
          /\ pv.rest = w.rest \ {e} /\ pv.matches = Append(w.matches, e)
      BY <1>6, <2>1 DEF SamePlace
    <2>3. e \in Hits[w.query] \ Link
      BY <1>3, <1>6, <1>9
    <2>4. ASSUME NEW v \in Walks, SamePlace(pv, v), v.matches = pv.matches,
                 v.pending = pv.pending, Shape(v), Reading(v), Moves(s, v, list)
          PROVE  Advanced(s)
      <3>1. v.at = "entries" /\ v.query = w.query /\ v.root = w.root
        BY <1>2, <2>2, <2>4 DEF SamePlace
      <3>2. v.matches = Append(w.matches, e)
        BY <2>2, <2>4
      <3>3. \/ list = <<>> /\ v.pending = Append(w.pending, e)
            \/ \E x \in EventRecord : /\ list = <<x>> /\ x.id = s /\ ~x.done
                                      /\ x.matches = Append(w.pending, e) /\ v.pending = <<>>
        BY <1>6, <2>1, <2>4
      <3>4. Advances(s, w, v, list)
        BY <1>2, <1>4, <2>4, <3>1, <3>2, <3>3, FindAdvances
      <3>. QED  BY <1>1, <1>2, <2>4, <3>4 DEF Advanced
    <2>5. CASE pv.truncated
      <3>1. PICK v : v = [pv EXCEPT !.rest = {}]
        OBVIOUS
      <3>2. Moves(s, v, list)
        BY <1>3, <1>9, <2>5, <3>1
      <3>3. v \in Walks
        BY <2>1, <3>1 DEF Walks
      <3>4. /\ SamePlace(pv, v) /\ v.preferred = pv.preferred /\ v.other = pv.other
            /\ v.rest = {} /\ v.truncated = TRUE /\ v.matches = pv.matches
            /\ v.pending = pv.pending
        BY <2>1, <2>5, <3>1 DEF SamePlace, Walks
      <3>5. SamePlace(w, v)
        BY <2>2, <3>4 DEF SamePlace
      <3>6. Shape(v) /\ Reading(v)
        BY <1>2, <1>3, <2>2, <2>3, <3>3, <3>4, <3>5, ReadsLast
      <3>. QED  BY <2>4, <3>2, <3>3, <3>4, <3>6
    <2>6. CASE ~pv.truncated
      <3>1. PICK v : v = Noted(pv, e)
        OBVIOUS
      <3>2. Moves(s, v, list)
        BY <1>3, <1>9, <2>6, <3>1
      <3>3. /\ v \in Walks /\ SamePlace(pv, v) /\ Notes(pv, v, e) /\ v.rest = pv.rest
            /\ v.matches = pv.matches /\ v.pending = pv.pending /\ v.truncated = pv.truncated
        BY <1>4, <2>1, <3>1, NotedIs
      <3>4. pv.truncated = FALSE /\ ~(Len(pv.matches) >= MaxMatches)
        BY <2>1, <2>6 DEF Walks
      <3>5. Len(v.matches) < MaxMatches
        <4>1. v.matches \in Seq(Entry)
          BY <3>3 DEF Walks
        <4>2. Len(v.matches) \in Nat /\ MaxMatches \in Nat
          BY <4>1, LimitsAssumption
        <4>. QED  BY <3>3, <3>4, <4>2
      <3>6. SamePlace(w, v) /\ Notes(w, v, e) /\ v.rest = w.rest \ {e} /\ v.truncated = FALSE
        BY <2>2, <3>3, <3>4 DEF SamePlace, Notes
      <3>7. v.matches = Append(w.matches, e)
        BY <2>2, <3>3
      <3>8. Shape(v) /\ Reading(v)
        BY <1>2, <1>3, <2>3, <3>3, <3>5, <3>6, <3>7, ReadsOn
      <3>. QED  BY <2>4, <3>2, <3>3, <3>8
    <2>. QED  BY <2>5, <2>6
  <1>10. found \in BOOLEAN
    BY <1>3
  <1>. QED  BY <1>8, <1>9, <1>10

LEMMA PassingAdvances ==
  ASSUME NEW s \in SearchIds, Sound(walk[s]), PassesOver(s)
  PROVE  Advanced(s)
  <1>1. PICK w : w = walk[s]
    OBVIOUS
  <1>2. w \in Walks /\ w.at = "entries" /\ Open(w) /\ Shape(w) /\ Reading(w)
    BY <1>1 DEF PassesOver, Open, Sound
  <1>3. PICK e \in w.rest :
          Moves(s, [w EXCEPT !.rest = w.rest \ {e}, !.missed = w.missed \cup {e}], <<>>)
    BY <1>1 DEF PassesOver
  <1>4. PICK v : v = [w EXCEPT !.rest = w.rest \ {e}, !.missed = w.missed \cup {e}]
    OBVIOUS
  <1>5. /\ v \in Walks /\ Shape(v) /\ Reading(v)
        /\ v.at = "entries" /\ v.pending = w.pending
        /\ v.query = w.query /\ v.root = w.root /\ v.matches = w.matches
    BY <1>2, <1>4, MissesIs
  <1>6. Advances(s, w, v, <<>>)
    BY <1>2, <1>5, Quietly DEF Open, Same
  <1>. QED  BY <1>1, <1>2, <1>3, <1>4, <1>6 DEF Advanced

LEMMA WalkAdvances ==
  ASSUME NEW s \in SearchIds, Sound(walk[s]), WalkStep(s), ~TaskEnds(s)
  PROVE  Advanced(s)
  BY EndingAdvances, OpeningAdvances, ReadingAdvances, PassingAdvances, LeavingAdvances
     DEF WalkStep

-----------------------------------------------------------------------------
(* The inductive invariant. *)

Dialogs ==
  [listens : SearchIds \cup {Nobody}, query : DOMAIN Hits \cup {""}, root : Folder \cup {""},
   running : BOOLEAN, shown : Seq(Entry), truncated : BOOLEAN, error : BOOLEAN]

SearchTypes ==
  /\ walk \in [SearchIds -> Walks]
  /\ flag \in SUBSET SearchIds /\ searches \in SUBSET SearchIds /\ cancels \in SUBSET SearchIds
  /\ sent \in [SearchIds -> Seq(EventRecord)]
  /\ events \in Seq(EventRecord)
  /\ reply \in [SearchIds -> {"none", "wanted", "unwanted", "given"}]
  /\ dialog \in Dialogs

(* What a search for q below r may answer, if everything can be read.      *)
Asked(q, r) == Expected([NoWalk EXCEPT !.query = q, !.root = r])

Kept(w) ==
  /\ IsInjective(w.matches) /\ Len(w.matches) <= MaxMatches
  /\ Range(w.matches) \subseteq Asked(w.query, w.root)

WalksInv ==
  \A s \in SearchIds : /\ Sound(walk[s])
                       /\ walk[s].at # "none" => Kept(walk[s])
                       /\ Tells(walk[s], sent[s])

(* The events on the way were found by their searches, each entry once.    *)
Carried(e) ==
  /\ IsInjective(e.matches) /\ Range(e.matches) \subseteq Given(walk[e.id])
  /\ walk[e.id].at # "none"
  /\ e.done => walk[e.id].at \in {"ended", "over"}

EventsInv ==
  /\ \A i \in DOMAIN events : Carried(events[i])
  /\ \A i, j \in DOMAIN events :
       i # j /\ events[i].id = events[j].id
         => Range(events[i].matches) \cap Range(events[j].matches) = {}

(* The dialog set to what the search s was asked.                          *)
Agrees(s) ==
  walk[s].at # "none" /\ dialog.query = walk[s].query /\ dialog.root = walk[s].root

(* What is shown came from the search listened to, and what is on its way  *)
(* from there is not shown yet.                                            *)
Follows(s) ==
  /\ Agrees(s)
  /\ Range(dialog.shown) \subseteq Given(walk[s])
  /\ \A i \in DOMAIN events :
       events[i].id = s => Range(events[i].matches) \cap Range(dialog.shown) = {}

DialogInv ==
  /\ IsInjective(dialog.shown)
  /\ Range(dialog.shown) \subseteq Asked(dialog.query, dialog.root)
  /\ dialog.listens # Nobody => Follows(dialog.listens)
  /\ \A s \in SearchIds :
       reply[s] = "wanted" => dialog.listens = Nobody /\ dialog.shown = <<>> /\ Agrees(s)
  /\ \A r, s \in SearchIds : reply[r] = "wanted" /\ reply[s] = "wanted" => r = s

SearchInv == SearchTypes /\ WalksInv /\ EventsInv /\ DialogInv /\ NoOrphans

LEMMA NobodyIsNone == Nobody \notin SearchIds
  BY DEF Nobody, SearchIds

LEMMA KeptIs ==
  ASSUME NEW w, Sound(w), Open(w)
  PROVE  Kept(w)
  <1>1. w \in Walks /\ Shape(w) /\ Reading(w)
    BY DEF Sound
  <1>2. IsInjective(w.matches)
    BY <1>1 DEF Reading
  <1>3. Len(w.matches) <= MaxMatches
    <2>1. w.matches \in Seq(Entry) /\ w.truncated \in BOOLEAN
      BY <1>1 DEF Walks
    <2>2. Len(w.matches) \in Nat /\ MaxMatches \in Nat
      BY <2>1, LimitsAssumption
    <2>. QED  BY <1>1, <2>1, <2>2 DEF Reading
  <1>4. Range(w.matches) \subseteq Asked(w.query, w.root)
    <2>1. PICK v : v = [NoWalk EXCEPT !.query = w.query, !.root = w.root]
      OBVIOUS
    <2>2. v.query = w.query /\ v.root = w.root /\ v.unread = {} /\ v.missed = {}
      BY <2>1 DEF NoWalk
    <2>3. Range(w.matches) \subseteq Expected(v)
      BY <1>1, <2>2, FoundIsExpected
    <2>. QED  BY <2>1, <2>3 DEF Asked
  <1>. QED  BY <1>2, <1>3, <1>4 DEF Kept

LEMMA NoWalkIs ==
  /\ NoWalk \in Walks /\ NoWalk.at = "none" /\ ~Open(NoWalk)
  /\ NoWalk.matches = <<>> /\ NoWalk.pending = <<>>
  BY NoElement DEF NoWalk, Walks, Open

LEMMA InitIsSound == Init => SearchInv
  <1> SUFFICES ASSUME Init
               PROVE  SearchInv
    OBVIOUS
  <1>1. /\ \A s \in SearchIds : walk[s] = NoWalk /\ sent[s] = <<>> /\ reply[s] = "none"
        /\ flag = {} /\ searches = {} /\ events = <<>> /\ cancels = {} /\ dialog = Fresh
    BY DEF Init
  <1>2. /\ Fresh \in Dialogs /\ Fresh.listens = Nobody /\ Fresh.shown = <<>>
    BY NoElement DEF Fresh, Dialogs
  <1>3. SearchTypes
    <2>1. <<>> \in Seq(EventRecord)
      BY NoElement
    <2>. QED  BY <1>1, <1>2, <2>1, NoWalkIs DEF Init, SearchTypes
  <1>4. WalksInv
    <2>1. Silent(<<>>) = FALSE
      BY DEF Silent
    <2>. QED  BY <1>1, <2>1, NoWalkIs DEF WalksInv, Sound, Tells
  <1>5. EventsInv
    BY <1>1 DEF EventsInv
  <1>6. DialogInv
    BY <1>1, <1>2, NoElement DEF DialogInv
  <1>. QED  BY <1>1, <1>3, <1>4, <1>5, <1>6 DEF SearchInv, NoOrphans

(* A step of the walk of s, from the record w to the record v.             *)
Steps(s, w, v, list) ==
  /\ s \in SearchIds /\ w = walk[s] /\ Open(w) /\ Advances(s, w, v, list) /\ Moves(s, v, list)

LEMMA StepIs ==
  ASSUME SearchInv, NEW s, NEW w, NEW v, NEW list, Steps(s, w, v, list)
  PROVE  /\ s \in SearchIds /\ w \in Walks /\ v \in Walks /\ Shape(w) /\ Reading(w)
         /\ Sound(v) /\ Kept(v) /\ v.at # "none" /\ v.query = w.query /\ v.root = w.root
         /\ sent[s] \in Seq(EventRecord) /\ Tells(w, sent[s]) /\ Tells(v, sent[s] \o list)
         /\ Sends(w, v, list)
         /\ list \in Seq(EventRecord) /\ \A i \in DOMAIN list : list[i].id = s
         /\ walk[s] = w /\ walk'[s] = v /\ \A r \in SearchIds : r # s => walk'[r] = walk[r]
         /\ sent'[s] = sent[s] \o list /\ \A r \in SearchIds : r # s => sent'[r] = sent[r]
         /\ events' = events \o list
         /\ UNCHANGED <<flag, searches, reply, cancels, dialog>>
  <1>1. /\ s \in SearchIds /\ w = walk[s] /\ Open(w) /\ Advances(s, w, v, list)
        /\ Moves(s, v, list)
    BY DEF Steps
  <1>2. walk \in [SearchIds -> Walks] /\ sent \in [SearchIds -> Seq(EventRecord)]
    BY DEF SearchInv, SearchTypes
  <1>3. /\ walk'[s] = v /\ \A r \in SearchIds : r # s => walk'[r] = walk[r]
        /\ sent'[s] = sent[s] \o list /\ \A r \in SearchIds : r # s => sent'[r] = sent[r]
        /\ events' = events \o list
        /\ UNCHANGED <<flag, searches, reply, cancels, dialog>>
    BY <1>1, <1>2 DEF Moves
  <1>4. /\ w \in Walks /\ Shape(w) /\ Reading(w) /\ sent[s] \in Seq(EventRecord)
        /\ Tells(w, sent[s]) /\ Kept(w)
    <2>1. Sound(walk[s]) /\ Tells(walk[s], sent[s]) /\ (walk[s].at # "none" => Kept(walk[s]))
      BY <1>1 DEF SearchInv, WalksInv
    <2>2. w.at # "none"
      BY <1>1 DEF Open
    <2>. QED  BY <1>1, <1>2, <2>1, <2>2 DEF Sound
  <1>5. /\ v \in Walks /\ v.query = w.query /\ v.root = w.root /\ v.at # "none"
        /\ list \in Seq(EventRecord) /\ \A i \in DOMAIN list : list[i].id = s
        /\ Open(v) => Shape(v) /\ Reading(v)
        /\ v.at \in {"next", "entries", "ended"}
    BY <1>1 DEF Advances
  <1>6. Sound(v)
    BY <1>5 DEF Sound
  <1>7. PICK q : q = sent[s]
    OBVIOUS
  <1>8. Tells(v, q \o list) /\ Sends(w, v, list)
    <2>1. q \in Seq(EventRecord) /\ Tells(w, q)
      BY <1>4, <1>7
    <2>. QED  BY <1>1, <1>4, <2>1, TellsOn, SendsOn
  <1>9. Kept(v)
    <2>1. CASE Open(v)
      BY <1>6, <2>1, KeptIs
    <2>2. CASE v.at = "ended"
      <3>1. v.matches = w.matches
        <4>1. PICK new \in Seq(Entry) : v.matches = w.matches \o new /\ new = <<>>
          BY <1>1, <2>2 DEF Advances, Digest
        <4>2. w.matches \in Seq(Entry)
          BY <1>4 DEF Walks
        <4>. QED  BY <4>1, <4>2, NoElement
      <3>. QED  BY <1>4, <1>5, <3>1 DEF Kept
    <2>. QED  BY <1>5, <2>1, <2>2 DEF Open
  <1>. QED  BY <1>1, <1>3, <1>4, <1>5, <1>6, <1>7, <1>8, <1>9

LEMMA StepKeepsWalks ==
  ASSUME SearchInv, NEW s, NEW w, NEW v, NEW list, Steps(s, w, v, list)
  PROVE  SearchTypes' /\ WalksInv'
  <1>1. /\ s \in SearchIds /\ v \in Walks /\ Sound(v) /\ Kept(v) /\ v.at # "none"
        /\ Tells(v, sent[s] \o list) /\ list \in Seq(EventRecord)
        /\ walk'[s] = v /\ \A r \in SearchIds : r # s => walk'[r] = walk[r]
        /\ sent'[s] = sent[s] \o list /\ \A r \in SearchIds : r # s => sent'[r] = sent[r]
        /\ events' = events \o list
        /\ UNCHANGED <<flag, searches, reply, cancels, dialog>>
    BY StepIs
  <1>2. walk' = [walk EXCEPT ![s] = v] /\ sent' = [sent EXCEPT ![s] = @ \o list]
    BY DEF Steps, Moves
  <1>3. SearchTypes'
    <2>1. /\ walk \in [SearchIds -> Walks] /\ sent \in [SearchIds -> Seq(EventRecord)]
          /\ events \in Seq(EventRecord)
      BY DEF SearchInv, SearchTypes
    <2>2. walk' \in [SearchIds -> Walks]
      BY <1>1, <1>2, <2>1
    <2>3. PICK q \in Seq(EventRecord) : q = sent[s] \o list
      <3>1. PICK o \in Seq(EventRecord) : o = sent[s]
        BY <1>1, <2>1
      <3>2. o \o list \in Seq(EventRecord)
        BY <1>1, LastIs
      <3>. QED  BY <3>1, <3>2
    <2>4. sent' \in [SearchIds -> Seq(EventRecord)]
      <3>1. sent' = [sent EXCEPT ![s] = q]
        BY <1>2, <2>3
      <3>. QED  BY <1>1, <2>1, <3>1
    <2>5. events' \in Seq(EventRecord)
      <3>1. events \o list \in Seq(EventRecord)
        BY <1>1, <2>1, LastIs
      <3>. QED  BY <1>1, <3>1
    <2>. QED  BY <1>1, <2>2, <2>4, <2>5 DEF SearchInv, SearchTypes
  <1>4. WalksInv'
    <2> SUFFICES ASSUME NEW r \in SearchIds
                 PROVE  /\ Sound(walk'[r])
                        /\ walk'[r].at # "none" => Kept(walk'[r])
                        /\ Tells(walk'[r], sent'[r])
      BY DEF WalksInv
    <2>1. CASE r = s
      BY <1>1, <2>1
    <2>2. CASE r # s
      BY <1>1, <2>2 DEF SearchInv, WalksInv
    <2>. QED  BY <2>1, <2>2
  <1>. QED  BY <1>3, <1>4

LEMMA StepKeepsEvents ==
  ASSUME SearchInv, NEW s, NEW w, NEW v, NEW list, Steps(s, w, v, list)
  PROVE  EventsInv'
  <1>1. /\ s \in SearchIds /\ v.at # "none" /\ Sends(w, v, list) /\ v \in Walks
        /\ list \in Seq(EventRecord) /\ \A i \in DOMAIN list : list[i].id = s
        /\ walk[s] = w /\ walk'[s] = v /\ \A r \in SearchIds : r # s => walk'[r] = walk[r]
        /\ events' = events \o list
    BY StepIs
  <1>2. Open(w) /\ v.at \in {"next", "entries", "ended"}
    BY DEF Steps, Advances
  <1>3. events \in Seq(EventRecord) /\ \A i \in DOMAIN events : events[i].id \in SearchIds
    <2>1. events \in Seq(EventRecord)
      BY DEF SearchInv, SearchTypes
    <2>2. \A i \in DOMAIN events : events[i] \in EventRecord
      BY <2>1
    <2>. QED  BY <2>1, <2>2 DEF EventRecord
  <1>4. PICK q, n : q = events' /\ n = Len(events)
    OBVIOUS
  <1>5. /\ n \in Nat
        /\ \A i \in DOMAIN q : \/ i \in DOMAIN events /\ q[i] = events[i]
                               \/ i - n \in DOMAIN list /\ q[i] = list[i - n]
        /\ q \in Seq(EventRecord)
    <2>1. PICK o : o = events \o list
      OBVIOUS
    <2>2. /\ o \in Seq(EventRecord) /\ Len(events) \in Nat
          /\ \A i \in DOMAIN o : \/ i \in DOMAIN events /\ o[i] = events[i]
                                 \/ i - Len(events) \in DOMAIN list /\ o[i] = list[i - Len(events)]
      BY <1>1, <1>3, <2>1, LastIs
    <2>. QED  BY <1>1, <1>4, <2>1, <2>2
  <1>6. \A i \in DOMAIN events : /\ Carried(events[i])
                                 /\ events[i].id = s => Range(events[i].matches) \subseteq Given(w)
    BY <1>1 DEF SearchInv, EventsInv, Carried
  <1>7. /\ Given(w) \subseteq Given(v)
        /\ \A i \in DOMAIN list : /\ IsInjective(list[i].matches)
                                  /\ Range(list[i].matches) \subseteq Given(v) \ Given(w)
                                  /\ list[i].done => v.at = "ended"
        /\ Apart(list)
    BY <1>1 DEF Sends
  <1>8. ASSUME NEW i \in DOMAIN q
        PROVE  /\ IsInjective(q[i].matches) /\ Range(q[i].matches) \subseteq Given(walk'[q[i].id])
               /\ walk'[q[i].id].at # "none"
               /\ q[i].done => walk'[q[i].id].at \in {"ended", "over"}
    <2>1. CASE i \in DOMAIN events /\ q[i] = events[i]
      <3>1. Carried(events[i]) /\ events[i].id \in SearchIds
        BY <1>3, <1>6, <2>1
      <3>2. CASE events[i].id = s
        <4>1. ~events[i].done
          BY <1>1, <1>2, <3>1, <3>2 DEF Carried, Open
        <4>. QED  BY <1>1, <1>7, <2>1, <3>1, <3>2, <4>1 DEF Carried
      <3>3. CASE events[i].id # s
        BY <1>1, <2>1, <3>1, <3>3 DEF Carried
      <3>. QED  BY <3>2, <3>3
    <2>2. CASE i - n \in DOMAIN list /\ q[i] = list[i - n]
      BY <1>1, <1>7, <2>2
    <2>. QED  BY <1>5, <2>1, <2>2
  <1>9. ASSUME NEW i \in DOMAIN q, NEW j \in DOMAIN q, i # j, q[i].id = q[j].id
        PROVE  Range(q[i].matches) \cap Range(q[j].matches) = {}
    <2>1. CASE (i \in DOMAIN events /\ q[i] = events[i]) /\ j \in DOMAIN events /\ q[j] = events[j]
      BY <1>9, <2>1 DEF SearchInv, EventsInv
    <2>2. CASE (i \in DOMAIN events /\ q[i] = events[i]) /\ j - n \in DOMAIN list /\ q[j] = list[j - n]
      <3>1. events[i].id = s
        BY <1>1, <1>9, <2>2
      <3>. QED  BY <1>6, <1>7, <2>2, <3>1
    <2>3. CASE (i - n \in DOMAIN list /\ q[i] = list[i - n]) /\ j \in DOMAIN events /\ q[j] = events[j]
      <3>1. events[j].id = s
        BY <1>1, <1>9, <2>3
      <3>. QED  BY <1>6, <1>7, <2>3, <3>1
    <2>4. CASE (i - n \in DOMAIN list /\ q[i] = list[i - n]) /\ j - n \in DOMAIN list /\ q[j] = list[j - n]
      <3>1. i - n # j - n
        <4>1. i \in Nat /\ j \in Nat
          BY <1>5
        <4>. QED  BY <1>5, <1>9, <4>1
      <3>. QED  BY <1>7, <2>4, <3>1 DEF Apart
    <2>. QED  BY <1>5, <2>1, <2>2, <2>3, <2>4
  <1>. QED  BY <1>4, <1>8, <1>9 DEF EventsInv, Carried

LEMMA StepKeepsDialog ==
  ASSUME SearchInv, NEW s, NEW w, NEW v, NEW list, Steps(s, w, v, list)
  PROVE  DialogInv' /\ NoOrphans'
  <1>1. /\ s \in SearchIds /\ v.at # "none" /\ v.query = w.query /\ v.root = w.root
        /\ list \in Seq(EventRecord) /\ \A i \in DOMAIN list : list[i].id = s
        /\ walk[s] = w /\ walk'[s] = v /\ \A r \in SearchIds : r # s => walk'[r] = walk[r]
        /\ events' = events \o list /\ Sends(w, v, list)
        /\ UNCHANGED <<flag, searches, reply, cancels, dialog>>
    BY StepIs
  <1>2. Open(w)
    BY DEF Steps
  <1>3. /\ Given(w) \subseteq Given(v)
        /\ \A i \in DOMAIN list : Range(list[i].matches) \subseteq Given(v) \ Given(w)
    BY <1>1 DEF Sends
  <1>4. \A r \in SearchIds : Agrees(r) => Agrees(r)'
    BY <1>1 DEF Agrees
  <1>5. \A i \in DOMAIN events' :
          \/ i \in DOMAIN events /\ events'[i] = events[i]
          \/ \E j \in DOMAIN list : events'[i] = list[j]
    <2>1. events \in Seq(EventRecord)
      BY DEF SearchInv, SearchTypes
    <2>2. PICK o : o = events \o list
      OBVIOUS
    <2>3. \A i \in DOMAIN o : \/ i \in DOMAIN events /\ o[i] = events[i]
                              \/ i - Len(events) \in DOMAIN list /\ o[i] = list[i - Len(events)]
      BY <1>1, <2>1, <2>2, LastIs
    <2>. QED  BY <1>1, <2>2, <2>3
  <1>6. ASSUME dialog.listens # Nobody
        PROVE  Follows(dialog.listens)'
    <2>1. PICK r : r = dialog.listens /\ r \in SearchIds /\ Follows(r)
      BY <1>6 DEF SearchInv, SearchTypes, Dialogs, DialogInv
    <2>2. Range(dialog.shown) \subseteq Given(walk[r]) /\ Given(walk[r]) \subseteq Given(walk'[r])
      BY <1>1, <1>3, <2>1 DEF Follows
    <2>3. ASSUME NEW i \in DOMAIN events', events'[i].id = r
          PROVE  Range(events'[i].matches) \cap Range(dialog.shown) = {}
      <3>1. CASE i \in DOMAIN events /\ events'[i] = events[i]
        BY <2>1, <2>3, <3>1 DEF Follows
      <3>2. CASE \E j \in DOMAIN list : events'[i] = list[j]
        BY <1>1, <1>3, <2>2, <2>3, <3>2
      <3>. QED  BY <1>5, <3>1, <3>2
    <2>4. Agrees(r)'
      BY <1>4, <2>1 DEF Follows
    <2>5. Follows(r)'
      BY <1>1, <2>2, <2>3, <2>4 DEF Follows
    <2>. QED  BY <1>1, <2>1, <2>5
  <1>7. DialogInv'
    BY <1>1, <1>4, <1>6 DEF SearchInv, DialogInv
  <1>8. NoOrphans'
    <2>1. searches \in SUBSET SearchIds /\ NoOrphans
      BY DEF SearchInv, SearchTypes
    <2> SUFFICES ASSUME NEW r \in searches, walk'[r].at \in {"next", "entries"}
                 PROVE  \/ r = dialog.listens \/ reply[r] \in {"wanted", "unwanted"}
                        \/ r \in cancels \cup flag
      BY <1>1 DEF NoOrphans
    <2>2. walk[r].at \in {"next", "entries"}
      BY <1>1, <1>2, <2>1 DEF Open
    <2>. QED  BY <2>1, <2>2 DEF NoOrphans
  <1>. QED  BY <1>7, <1>8

LEMMA WalkKeeps ==
  ASSUME SearchInv, NEW s \in SearchIds, WalkStep(s), ~TaskEnds(s)
  PROVE  SearchInv'
  <1>1. Sound(walk[s])
    BY DEF SearchInv, WalksInv
  <1>2. PICK w, v, list : Steps(s, w, v, list)
    BY <1>1, WalkAdvances DEF Advanced, Steps
  <1>. QED  BY <1>2, StepKeepsWalks, StepKeepsEvents, StepKeepsDialog DEF SearchInv

LEMMA TaskEndKeeps ==
  ASSUME SearchInv, NEW s \in SearchIds, TaskEnds(s)
  PROVE  SearchInv'
  <1>1. PICK w, v : w = walk[s] /\ v = [w EXCEPT !.at = "over"]
    OBVIOUS
  <1>2. walk \in [SearchIds -> Walks] /\ w \in Walks /\ w.at = "ended"
    BY <1>1 DEF SearchInv, SearchTypes, TaskEnds
  <1>3. /\ v \in Walks /\ v.at = "over" /\ v.query = w.query /\ v.root = w.root
        /\ v.matches = w.matches /\ v.pending = w.pending /\ v.unread = w.unread
        /\ v.missed = w.missed
    BY <1>1, <1>2 DEF Walks
  <1>4. /\ walk' = [walk EXCEPT ![s] = v] /\ searches' = searches \ {s}
        /\ UNCHANGED <<flag, sent, events, reply, cancels, dialog>>
    BY <1>1 DEF TaskEnds
  <1>5. walk'[s] = v /\ \A r \in SearchIds : r # s => walk'[r] = walk[r]
    BY <1>2, <1>4
  <1>6. SearchTypes'
    BY <1>2, <1>3, <1>4 DEF SearchInv, SearchTypes
  <1>7. WalksInv'
    <2> SUFFICES ASSUME NEW r \in SearchIds
                 PROVE  /\ Sound(walk'[r])
                        /\ walk'[r].at # "none" => Kept(walk'[r])
                        /\ Tells(walk'[r], sent'[r])
      BY DEF WalksInv
    <2>1. CASE r = s
      <3>1. Kept(w) /\ Tells(w, sent[s])
        BY <1>1, <1>2 DEF SearchInv, WalksInv
      <3>2. Expected(v) = Expected(w)
        BY <1>3, ExpectedIs
      <3>3. Sound(v) /\ ~Open(v)
        BY <1>3 DEF Sound, Open
      <3>4. Kept(v)
        BY <1>3, <3>1 DEF Kept
      <3>5. Tells(v, sent[s])
        BY <1>2, <1>3, <3>1, <3>2, <3>3 DEF Tells
      <3>. QED  BY <1>4, <1>5, <2>1, <3>3, <3>4, <3>5
    <2>2. CASE r # s
      BY <1>4, <1>5, <2>2 DEF SearchInv, WalksInv
    <2>. QED  BY <2>1, <2>2
  <1>8. /\ Given(v) = Given(w)
        /\ \A r \in SearchIds : Agrees(r) => Agrees(r)'
    BY <1>1, <1>2, <1>3, <1>4, <1>5 DEF Given, Agrees
  <1>9. \A r \in SearchIds : Given(walk'[r]) = Given(walk[r])
    BY <1>1, <1>5, <1>8
  <1>10. EventsInv'
    <2>1. \A i \in DOMAIN events : events[i].id \in SearchIds
      <3>1. events \in Seq(EventRecord)
        BY DEF SearchInv, SearchTypes
      <3>2. \A i \in DOMAIN events : events[i] \in EventRecord
        BY <3>1
      <3>. QED  BY <3>2 DEF EventRecord
    <2>2. ASSUME NEW i \in DOMAIN events
          PROVE  Carried(events[i])'
      <3>1. Carried(events[i]) /\ events[i].id \in SearchIds
        BY <2>1 DEF SearchInv, EventsInv
      <3>. QED  BY <1>1, <1>2, <1>3, <1>4, <1>5, <1>9, <3>1 DEF Carried
    <2>. QED  BY <1>4, <2>2 DEF SearchInv, EventsInv
  <1>11. DialogInv'
    <2>1. dialog.listens # Nobody => dialog.listens \in SearchIds /\ Follows(dialog.listens)
      BY DEF SearchInv, SearchTypes, Dialogs, DialogInv
    <2>2. dialog.listens # Nobody => Follows(dialog.listens)'
      BY <1>4, <1>8, <1>9, <2>1 DEF Follows
    <2>. QED  BY <1>4, <1>8, <2>2 DEF SearchInv, DialogInv
  <1>12. NoOrphans'
    BY <1>4, <1>5 DEF SearchInv, NoOrphans
  <1>. QED  BY <1>6, <1>7, <1>10, <1>11, <1>12 DEF SearchInv

-----------------------------------------------------------------------------
(* The actions of the dialog and of the commands. *)

Request == [query : DOMAIN Hits, root : Folder, remote : BOOLEAN]

LEMMA ReleasedIs ==
  ASSUME SearchInv
  PROVE  /\ Released \in [SearchIds -> {"none", "wanted", "unwanted", "given"}]
         /\ \A r \in SearchIds : /\ Released[r] # "wanted"
                                 /\ reply[r] \in {"wanted", "unwanted"} => Released[r] = "unwanted"
  <1>1. reply \in [SearchIds -> {"none", "wanted", "unwanted", "given"}]
    BY DEF SearchInv, SearchTypes
  <1>. QED  BY <1>1 DEF Released

LEMMA LetsGoIs ==
  ASSUME SearchInv, LetsGo
  PROVE  /\ cancels' \in SUBSET SearchIds /\ cancels \subseteq cancels'
         /\ dialog.listens # Nobody => dialog.listens \in cancels'
  <1>1. cancels \in SUBSET SearchIds /\ dialog.listens \in SearchIds \cup {Nobody}
    BY DEF SearchInv, SearchTypes, Dialogs
  <1>. QED  BY <1>1 DEF LetsGo

(* No walk is forgotten when the dialog turns to something else.           *)
LEMMA LetGoesOn ==
  ASSUME SearchInv, LetsGo, NEW r \in searches, walk[r].at \in {"next", "entries"}
  PROVE  Released[r] = "unwanted" \/ r \in cancels' \cup flag
  <1>1. \/ r = dialog.listens \/ reply[r] \in {"wanted", "unwanted"} \/ r \in cancels \cup flag
    BY DEF SearchInv, NoOrphans
  <1>2. r \in SearchIds /\ r # Nobody
    BY NobodyIsNone DEF SearchInv, SearchTypes
  <1>. QED  BY <1>1, <1>2, ReleasedIs, LetsGoIs

LEMMA AsksKeeps ==
  ASSUME SearchInv, Asks
  PROVE  SearchInv'
  <1>s. PICK s \in SearchIds : \E t \in Targets[s] :
          /\ walk[s].at = "none" /\ LetsGo
          /\ reply' = [Released EXCEPT ![s] = "wanted"]
          /\ walk' = [walk EXCEPT ![s] = NewWalk(t)]
          /\ searches' = searches \cup {s}
          /\ dialog' = [Fresh EXCEPT !.query = t.query, !.root = t.root, !.running = TRUE]
          /\ UNCHANGED <<flag, sent, events>>
    BY DEF Asks
  <1>1. PICK t \in Targets[s] :
          /\ walk[s].at = "none" /\ LetsGo
          /\ reply' = [Released EXCEPT ![s] = "wanted"]
          /\ walk' = [walk EXCEPT ![s] = NewWalk(t)]
          /\ searches' = searches \cup {s}
          /\ dialog' = [Fresh EXCEPT !.query = t.query, !.root = t.root, !.running = TRUE]
          /\ UNCHANGED <<flag, sent, events>>
    BY <1>s
  <1>2. t \in Request /\ t.query \in DOMAIN Hits /\ t.root \in Folder
    <2>1. Targets[s] \subseteq Request
      BY LimitsAssumption DEF SearchIds, Request
    <2>. QED  BY <1>1, <2>1 DEF Request
  <1>3. PICK v : v = NewWalk(t)
    OBVIOUS
  <1>4. /\ v \in Walks /\ v.at = "next" /\ v.query = t.query /\ v.root = t.root
        /\ v.matches = <<>> /\ v.pending = <<>> /\ Shape(v) /\ Reading(v)
    BY <1>2, <1>3, StartIs DEF Request
  <1>5. walk \in [SearchIds -> Walks] /\ sent[s] = <<>>
    BY <1>1 DEF SearchInv, SearchTypes, WalksInv, Tells
  <1>6. walk'[s] = v /\ \A r \in SearchIds : r # s => walk'[r] = walk[r]
    BY <1>1, <1>3, <1>5
  <1>7. reply'[s] = "wanted" /\ \A r \in SearchIds : r # s => reply'[r] = Released[r]
    BY <1>1, ReleasedIs
  <1>8. /\ dialog' \in Dialogs /\ dialog'.listens = Nobody /\ dialog'.shown = <<>>
        /\ dialog'.query = t.query /\ dialog'.root = t.root
    <2>1. PICK d : d = [Fresh EXCEPT !.query = t.query, !.root = t.root, !.running = TRUE]
      OBVIOUS
    <2>2. /\ d \in Dialogs /\ d.listens = Nobody /\ d.shown = <<>>
          /\ d.query = t.query /\ d.root = t.root
      BY <1>2, <2>1, NoElement DEF Fresh, Dialogs
    <2>. QED  BY <1>1, <2>1, <2>2
  <1>9. SearchTypes'
    <2>1. walk' \in [SearchIds -> Walks]
      BY <1>1, <1>3, <1>4, <1>5
    <2>2. reply' \in [SearchIds -> {"none", "wanted", "unwanted", "given"}]
      BY <1>1, ReleasedIs
    <2>. QED  BY <1>1, <1>8, <2>1, <2>2, LetsGoIs DEF SearchInv, SearchTypes
  <1>10. WalksInv'
    <2> SUFFICES ASSUME NEW r \in SearchIds
                 PROVE  /\ Sound(walk'[r])
                        /\ walk'[r].at # "none" => Kept(walk'[r])
                        /\ Tells(walk'[r], sent'[r])
      BY DEF WalksInv
    <2>1. CASE r = s
      <3>1. Sound(v) /\ Open(v)
        BY <1>4 DEF Sound, Open
      <3>2. Kept(v)
        BY <3>1, KeptIs
      <3>3. Tells(v, <<>>)
        <4>1. ~Silent(<<>>) /\ NoneDone(<<>>)
          BY DEF Silent, NoneDone
        <4>2. Told(<<>>) \o v.pending = v.matches
          BY <1>4, ToldNothing, NoElement
        <4>. QED  BY <1>4, <4>1, <4>2 DEF Tells
      <3>. QED  BY <1>1, <1>5, <1>6, <2>1, <3>1, <3>2, <3>3
    <2>2. CASE r # s
      BY <1>1, <1>6, <2>2 DEF SearchInv, WalksInv
    <2>. QED  BY <2>1, <2>2
  <1>11. EventsInv'
    <2>1. \A i \in DOMAIN events : events[i].id \in SearchIds
      <3>1. events \in Seq(EventRecord)
        BY DEF SearchInv, SearchTypes
      <3>2. \A i \in DOMAIN events : events[i] \in EventRecord
        BY <3>1
      <3>. QED  BY <3>2 DEF EventRecord
    <2>2. ASSUME NEW i \in DOMAIN events
          PROVE  Carried(events[i])'
      <3>1. Carried(events[i]) /\ events[i].id \in SearchIds
        BY <2>1 DEF SearchInv, EventsInv
      <3>2. events[i].id # s
        BY <1>1, <3>1 DEF Carried
      <3>. QED  BY <1>1, <1>6, <3>1, <3>2 DEF Carried
    <2>. QED  BY <1>1, <2>2 DEF SearchInv, EventsInv
  <1>12. DialogInv'
    <2>1. Agrees(s)'
      BY <1>4, <1>6, <1>8 DEF Agrees
    <2>2. \A r \in SearchIds : reply'[r] = "wanted" => r = s
      BY <1>7, ReleasedIs
    <2>. QED  BY <1>8, <2>1, <2>2, NoElement DEF DialogInv
  <1>13. NoOrphans'
    <2> SUFFICES ASSUME NEW r \in searches', walk'[r].at \in {"next", "entries"}
                 PROVE  reply'[r] \in {"wanted", "unwanted"} \/ r \in cancels' \cup flag'
      BY DEF NoOrphans
    <2>1. CASE r = s
      BY <1>7, <2>1
    <2>2. CASE r # s
      <3>1. r \in searches /\ r \in SearchIds
        BY <1>1, <2>2 DEF SearchInv, SearchTypes
      <3>2. walk[r].at \in {"next", "entries"}
        BY <1>6, <2>2, <3>1
      <3>. QED  BY <1>1, <1>7, <2>2, <3>1, <3>2, LetGoesOn
    <2>. QED  BY <2>1, <2>2
  <1>. QED  BY <1>9, <1>10, <1>11, <1>12, <1>13 DEF SearchInv

(* Steps that leave the walks, their events and the map alone.             *)
LEMMA AsideKeeps ==
  ASSUME SearchInv, UNCHANGED <<walk, sent, events>>
  PROVE  /\ WalksInv' /\ EventsInv'
         /\ \A r \in SearchIds : dialog' = dialog => (Follows(r) => Follows(r)')
         /\ \A r \in SearchIds :
              dialog'.query = dialog.query /\ dialog'.root = dialog.root
                => (Agrees(r) => Agrees(r)')
  <1>1. WalksInv'
    BY DEF SearchInv, WalksInv
  <1>2. EventsInv'
    BY DEF SearchInv, EventsInv, Carried
  <1>3. \A r \in SearchIds : dialog' = dialog => (Follows(r) => Follows(r)')
    BY DEF Follows, Agrees
  <1>4. \A r \in SearchIds :
          dialog'.query = dialog.query /\ dialog'.root = dialog.root
            => (Agrees(r) => Agrees(r)')
    BY DEF Agrees
  <1>. QED  BY <1>1, <1>2, <1>3, <1>4

LEMMA TurningKeeps ==
  ASSUME SearchInv, LetsGo, reply' = Released, UNCHANGED <<walk, flag, searches, sent, events>>,
         dialog' \in Dialogs, dialog'.listens = Nobody, dialog'.shown = <<>>
  PROVE  SearchInv'
  <1>1. SearchTypes'
    BY ReleasedIs, LetsGoIs DEF SearchInv, SearchTypes
  <1>2. DialogInv'
    BY ReleasedIs, NoElement DEF DialogInv
  <1>3. NoOrphans'
    BY LetGoesOn DEF NoOrphans
  <1>. QED  BY <1>1, <1>2, <1>3, AsideKeeps DEF SearchInv

LEMMA AskFailsKeeps ==
  ASSUME SearchInv, AskFails
  PROVE  SearchInv'
  <1>1. PICK t \in UNION Range(Targets) :
          dialog' = [Fresh EXCEPT !.query = t.query, !.root = t.root, !.error = TRUE]
    BY DEF AskFails
  <1>2. t.query \in DOMAIN Hits /\ t.root \in Folder
    <2>1. PICK i \in DOMAIN Targets : t \in Targets[i]
      BY <1>1 DEF Range
    <2>2. Targets[i] \subseteq Request
      BY LimitsAssumption DEF Request
    <2>. QED  BY <2>1, <2>2 DEF Request
  <1>3. PICK d : d = [Fresh EXCEPT !.query = t.query, !.root = t.root, !.error = TRUE]
    OBVIOUS
  <1>4. d \in Dialogs /\ d.listens = Nobody /\ d.shown = <<>>
    BY <1>2, <1>3, NoElement DEF Fresh, Dialogs
  <1>. QED  BY <1>1, <1>3, <1>4, TurningKeeps DEF AskFails

LEMMA ClearsKeeps ==
  ASSUME SearchInv, Clears
  PROVE  SearchInv'
  <1>1. Fresh \in Dialogs /\ Fresh.listens = Nobody /\ Fresh.shown = <<>>
    BY NoElement DEF Fresh, Dialogs
  <1>. QED  BY <1>1, TurningKeeps DEF Clears

LEMMA PressesStopKeeps ==
  ASSUME SearchInv, PressesStop
  PROVE  SearchInv'
  <1>1. LetsGo /\ UNCHANGED <<walk, flag, searches, sent, events, reply, dialog>>
    BY DEF PressesStop
  <1>2. SearchTypes'
    BY <1>1, LetsGoIs DEF SearchInv, SearchTypes
  <1>3. DialogInv'
    <2>1. dialog.listens # Nobody => dialog.listens \in SearchIds /\ Follows(dialog.listens)
      BY DEF SearchInv, SearchTypes, Dialogs, DialogInv
    <2>. QED  BY <1>1, <2>1, AsideKeeps DEF SearchInv, DialogInv
  <1>4. NoOrphans'
    BY <1>1, LetsGoIs DEF SearchInv, NoOrphans
  <1>. QED  BY <1>1, <1>2, <1>3, <1>4, AsideKeeps DEF SearchInv

LEMMA CancelKeeps ==
  ASSUME SearchInv, NEW s \in SearchIds, CancelSearch(s)
  PROVE  SearchInv'
  <1>1. /\ cancels' = cancels \ {s} /\ flag' = flag \cup ({s} \cap searches)
        /\ UNCHANGED <<walk, searches, sent, events, reply, dialog>>
    BY DEF CancelSearch
  <1>2. SearchTypes'
    BY <1>1 DEF SearchInv, SearchTypes
  <1>3. DialogInv'
    <2>1. dialog.listens # Nobody => dialog.listens \in SearchIds /\ Follows(dialog.listens)
      BY DEF SearchInv, SearchTypes, Dialogs, DialogInv
    <2>. QED  BY <1>1, <2>1, AsideKeeps DEF SearchInv, DialogInv
  <1>4. NoOrphans'
    BY <1>1 DEF SearchInv, NoOrphans
  <1>. QED  BY <1>1, <1>2, <1>3, <1>4, AsideKeeps DEF SearchInv

LEMMA AnswerKeeps ==
  ASSUME SearchInv, NEW s \in SearchIds, AnswerArrives(s)
  PROVE  SearchInv'
  <1>1. /\ reply' = [reply EXCEPT ![s] = "given"]
        /\ UNCHANGED <<walk, flag, searches, sent, events>>
    BY DEF AnswerArrives
  <1>2. reply \in [SearchIds -> {"none", "wanted", "unwanted", "given"}] /\ dialog \in Dialogs
    BY DEF SearchInv, SearchTypes
  <1>3. reply'[s] = "given" /\ \A r \in SearchIds : r # s => reply'[r] = reply[r]
    BY <1>1, <1>2
  <1>4. searches \in SUBSET SearchIds /\ NoOrphans
    BY DEF SearchInv, SearchTypes
  <1>5. CASE reply[s] = "wanted" /\ dialog' = [dialog EXCEPT !.listens = s] /\ UNCHANGED cancels
    <2>1. /\ dialog' \in Dialogs /\ dialog'.listens = s /\ dialog'.shown = dialog.shown
          /\ dialog'.query = dialog.query /\ dialog'.root = dialog.root
      BY <1>2, <1>5 DEF Dialogs
    <2>2. /\ dialog.listens = Nobody /\ dialog.shown = <<>> /\ Agrees(s)
          /\ \A r \in SearchIds : r # s => reply[r] # "wanted"
      BY <1>5 DEF SearchInv, DialogInv
    <2>3. SearchTypes'
      BY <1>1, <1>2, <1>5, <2>1 DEF SearchInv, SearchTypes
    <2>4. Follows(s)'
      <3>1. Agrees(s)'
        BY <1>1, <2>1, <2>2 DEF Agrees
      <3>. QED  BY <2>1, <2>2, <3>1, NoElement DEF Follows
    <2>5. \A r \in SearchIds : reply'[r] # "wanted"
      BY <1>3, <2>2
    <2>6. DialogInv'
      BY <2>1, <2>2, <2>4, <2>5, NoElement DEF DialogInv
    <2>7. NoOrphans'
      <3> SUFFICES ASSUME NEW r \in searches, walk[r].at \in {"next", "entries"}
                   PROVE  r = s \/ reply'[r] \in {"wanted", "unwanted"} \/ r \in cancels \cup flag
        BY <1>1, <1>5, <2>1 DEF NoOrphans
      <3>1. r # Nobody /\ r \in SearchIds
        BY <1>4, NobodyIsNone
      <3>. QED  BY <1>3, <1>4, <2>2, <3>1 DEF NoOrphans
    <2>. QED  BY <1>1, <2>3, <2>6, <2>7, AsideKeeps DEF SearchInv
  <1>6. CASE reply[s] = "unwanted" /\ cancels' = cancels \cup {s} /\ UNCHANGED dialog
    <2>1. SearchTypes'
      BY <1>1, <1>2, <1>6 DEF SearchInv, SearchTypes
    <2>2. DialogInv'
      <3>1. dialog.listens # Nobody => dialog.listens \in SearchIds /\ Follows(dialog.listens)
        BY <1>2 DEF SearchInv, Dialogs, DialogInv
      <3>2. \A r \in SearchIds : reply'[r] = "wanted" => reply[r] = "wanted"
        BY <1>3
      <3>3. \A r \in SearchIds : Agrees(r) => Agrees(r)'
        BY <1>1, <1>6 DEF Agrees
      <3>. QED  BY <1>1, <1>6, <3>1, <3>2, <3>3, AsideKeeps DEF SearchInv, DialogInv
    <2>3. NoOrphans'
      <3> SUFFICES ASSUME NEW r \in searches, walk[r].at \in {"next", "entries"}
                   PROVE  \/ r = dialog.listens \/ reply'[r] \in {"wanted", "unwanted"}
                          \/ r \in cancels' \cup flag
        BY <1>1, <1>6 DEF NoOrphans
      <3>1. r \in SearchIds
        BY <1>4
      <3>. QED  BY <1>3, <1>4, <1>6, <3>1 DEF NoOrphans
    <2>. QED  BY <1>1, <2>1, <2>2, <2>3, AsideKeeps DEF SearchInv
  <1>. QED  BY <1>5, <1>6 DEF AnswerArrives

LEMMA HearsKeeps ==
  ASSUME SearchInv, HearsEvent
  PROVE  SearchInv'
  <1>1. /\ events # <<>> /\ events' = Tail(events)
        /\ dialog' = IF Head(events).id = dialog.listens THEN Heard(Head(events)) ELSE dialog
        /\ UNCHANGED <<walk, flag, searches, sent, reply, cancels>>
    BY DEF HearsEvent
  <1>2. events \in Seq(EventRecord) /\ dialog \in Dialogs
    BY DEF SearchInv, SearchTypes
  <1>3. PICK e, q : e = Head(events) /\ q = events'
    OBVIOUS
  <1>4. /\ e = events[1] /\ 1 \in DOMAIN events /\ e \in EventRecord
        /\ q \in Seq(EventRecord)
        /\ \A i \in DOMAIN q : i + 1 \in DOMAIN events /\ i + 1 # 1 /\ q[i] = events[i + 1]
        /\ \A i, j \in DOMAIN q : i # j => i + 1 # j + 1
    BY <1>1, <1>2, <1>3
  <1>5. /\ e.id \in SearchIds /\ e.matches \in Seq(Entry) /\ e.truncated \in BOOLEAN
        /\ e.done \in BOOLEAN /\ e.error \in BOOLEAN
    BY <1>4 DEF EventRecord
  <1>6. Carried(e)
    BY <1>4 DEF SearchInv, EventsInv
  <1>7. WalksInv'
    BY <1>1 DEF SearchInv, WalksInv
  <1>8. EventsInv'
    <2>1. \A i \in DOMAIN q : Carried(q[i])
      BY <1>4 DEF SearchInv, EventsInv
    <2>2. \A i \in DOMAIN q : Carried(q[i])'
      BY <1>1, <1>3, <2>1 DEF Carried
    <2>3. ASSUME NEW i \in DOMAIN q, NEW j \in DOMAIN q, i # j, q[i].id = q[j].id
          PROVE  Range(q[i].matches) \cap Range(q[j].matches) = {}
      BY <1>4, <2>3 DEF SearchInv, EventsInv
    <2>. QED  BY <1>3, <2>2, <2>3 DEF EventsInv
  <1>9. CASE e.id # dialog.listens
    <2>1. UNCHANGED dialog
      BY <1>1, <1>3, <1>9
    <2>2. SearchTypes'
      BY <1>1, <1>3, <1>4, <2>1 DEF SearchInv, SearchTypes
    <2>3. \A r \in SearchIds : (Agrees(r) => Agrees(r)') /\ (Follows(r) => Follows(r)')
      <3>1. \A r \in SearchIds : Agrees(r) => Agrees(r)'
        BY <1>1, <2>1 DEF Agrees
      <3>. QED  BY <1>1, <1>3, <1>4, <2>1, <3>1 DEF Follows
    <2>4. DialogInv'
      <3>1. dialog.listens # Nobody => dialog.listens \in SearchIds /\ Follows(dialog.listens)
        BY <1>2 DEF SearchInv, Dialogs, DialogInv
      <3>. QED  BY <1>1, <2>1, <2>3, <3>1 DEF SearchInv, DialogInv
    <2>5. NoOrphans'
      BY <1>1, <2>1 DEF SearchInv, NoOrphans
    <2>. QED  BY <1>7, <1>8, <2>2, <2>4, <2>5 DEF SearchInv
  <1>10. CASE e.id = dialog.listens
    <2>1. PICK s : s = e.id
      OBVIOUS
    <2>2. s \in SearchIds /\ s # Nobody /\ Follows(s) /\ dialog.listens = s
      BY <1>5, <1>10, <2>1, NobodyIsNone DEF SearchInv, DialogInv
    <2>3. dialog' = Heard(e)
      BY <1>1, <1>3, <1>10
    <2>4. PICK old, m, new : old = dialog.shown /\ m = e.matches /\ new = old \o m
      OBVIOUS
    <2>5. old \in Seq(Entry) /\ m \in Seq(Entry)
      BY <1>2, <1>5, <2>4 DEF Dialogs
    <2>6. /\ new \in Seq(Entry) /\ Range(new) = Range(old) \cup Range(m) /\ IsInjective(new)
      <3>1. IsInjective(old)
        BY <2>4 DEF SearchInv, DialogInv
      <3>2. IsInjective(m)
        BY <1>6, <2>4 DEF Carried
      <3>3. Range(old) \cap Range(m) = {}
        <4>1. Range(events[1].matches) \cap Range(dialog.shown) = {}
          BY <1>4, <2>1, <2>2 DEF Follows
        <4>. QED  BY <1>4, <2>4, <4>1
      <3>4. /\ old \o m \in Seq(Entry) /\ Range(old \o m) = Range(old) \cup Range(m)
            /\ IsInjective(old \o m)
        BY <2>5, <3>1, <3>2, <3>3, ConcatIs
      <3>. QED  BY <2>4, <3>4
    <2>7. /\ dialog' \in Dialogs /\ dialog'.shown = new
          /\ dialog'.query = dialog.query /\ dialog'.root = dialog.root
          /\ dialog'.listens = IF e.done THEN Nobody ELSE s
      <3>1. PICK bad, run, to, cut : /\ bad = (dialog.error \/ e.error)
                                     /\ run = (dialog.running /\ ~e.done)
                                     /\ to = (IF e.done THEN Nobody ELSE s)
                                     /\ cut = e.truncated
        OBVIOUS
      <3>2. dialog' = [dialog EXCEPT !.shown = new, !.truncated = cut, !.error = bad,
                                     !.running = run, !.listens = to]
        BY <1>2, <2>2, <2>3, <2>4, <3>1 DEF Heard, Dialogs
      <3>3. bad \in BOOLEAN /\ run \in BOOLEAN /\ cut \in BOOLEAN
        BY <1>5, <3>1
      <3>4. to \in SearchIds \cup {Nobody}
        BY <2>2, <3>1
      <3>5. dialog' \in Dialogs
        BY <1>2, <2>6, <3>2, <3>3, <3>4 DEF Dialogs
      <3>6. /\ dialog'.shown = new /\ dialog'.query = dialog.query
            /\ dialog'.root = dialog.root /\ dialog'.listens = to
        BY <1>2, <3>2 DEF Dialogs
      <3>. QED  BY <3>1, <3>5, <3>6
    <2>8. SearchTypes'
      BY <1>1, <1>3, <1>4, <2>7 DEF SearchInv, SearchTypes
    <2>9. Range(m) \subseteq Given(walk[s])
      BY <1>6, <2>1, <2>4 DEF Carried
    <2>10. Follows(s)'
      <3>1. Agrees(s)'
        BY <1>1, <2>2, <2>7 DEF Follows, Agrees
      <3>2. Range(new) \subseteq Given(walk[s])
        BY <2>2, <2>4, <2>6, <2>9 DEF Follows
      <3>3. ASSUME NEW i \in DOMAIN q, q[i].id = s
            PROVE  Range(q[i].matches) \cap Range(new) = {}
        <4>1. i + 1 \in DOMAIN events /\ q[i] = events[i + 1] /\ i + 1 # 1
          BY <1>4
        <4>2. PICK k : k = i + 1
          OBVIOUS
        <4>3. k \in DOMAIN events /\ q[i] = events[k] /\ k # 1 /\ events[k].id = s
          BY <3>3, <4>1, <4>2
        <4>4. Range(events[k].matches) \cap Range(old) = {}
          BY <2>2, <2>4, <4>3 DEF Follows
        <4>5. Range(events[k].matches) \cap Range(events[1].matches) = {}
          BY <1>4, <2>1, <4>3 DEF SearchInv, EventsInv
        <4>. QED  BY <1>4, <2>4, <2>6, <4>3, <4>4, <4>5
      <3>. QED  BY <1>1, <1>3, <2>7, <3>1, <3>2, <3>3 DEF Follows
    <2>11. Range(new) \subseteq Asked(dialog.query, dialog.root)
      <3>1. Range(old) \subseteq Asked(dialog.query, dialog.root)
        BY <2>4 DEF SearchInv, DialogInv
      <3>2. Agrees(s) /\ Kept(walk[s])
        BY <2>2 DEF SearchInv, WalksInv, Follows, Agrees
      <3>3. Range(m) \subseteq Asked(dialog.query, dialog.root)
        BY <2>9, <3>2 DEF Agrees, Kept, Given
      <3>. QED  BY <2>6, <3>1, <3>3
    <2>12. DialogInv'
      <3>1. \A r \in SearchIds : reply'[r] # "wanted"
        BY <1>1, <2>2 DEF SearchInv, DialogInv
      <3>. QED  BY <2>6, <2>7, <2>10, <2>11, <3>1 DEF DialogInv
    <2>13. NoOrphans'
      <3> SUFFICES ASSUME NEW r \in searches, walk[r].at \in {"next", "entries"}
                   PROVE  \/ r = dialog'.listens \/ reply[r] \in {"wanted", "unwanted"}
                          \/ r \in cancels \cup flag
        BY <1>1 DEF NoOrphans
      <3>1. r = s => ~e.done
        BY <1>6, <2>1 DEF Carried
      <3>. QED  BY <2>2, <2>7, <3>1 DEF SearchInv, NoOrphans
    <2>. QED  BY <1>7, <1>8, <2>8, <2>12, <2>13 DEF SearchInv
  <1>. QED  BY <1>9, <1>10

LEMMA NextKeeps == SearchInv /\ [Next]_vars => SearchInv'
  <1> SUFFICES ASSUME SearchInv, [Next]_vars
               PROVE  SearchInv'
    OBVIOUS
  <1>1. CASE Asks
    BY <1>1, AsksKeeps
  <1>2. CASE AskFails
    BY <1>2, AskFailsKeeps
  <1>3. CASE Clears
    BY <1>3, ClearsKeeps
  <1>4. CASE PressesStop
    BY <1>4, PressesStopKeeps
  <1>5. CASE HearsEvent
    BY <1>5, HearsKeeps
  <1>6. ASSUME NEW s \in SearchIds, AnswerArrives(s)
        PROVE  SearchInv'
    BY <1>6, AnswerKeeps
  <1>7. ASSUME NEW s \in SearchIds, CancelSearch(s)
        PROVE  SearchInv'
    BY <1>7, CancelKeeps
  <1>8. ASSUME NEW s \in SearchIds, WalkStep(s)
        PROVE  SearchInv'
    BY <1>8, WalkKeeps, TaskEndKeeps
  <1>9. CASE UNCHANGED vars
    BY <1>9 DEF vars, SearchInv, SearchTypes, WalksInv, EventsInv, Carried, DialogInv, Follows,
                Agrees, NoOrphans
  <1>. QED  BY <1>1, <1>2, <1>3, <1>4, <1>5, <1>6, <1>7, <1>8, <1>9 DEF Next

LEMMA SearchInvariant == Spec => []SearchInv
  <1>. QED  BY InitIsSound, NextKeeps, PTL DEF Spec

-----------------------------------------------------------------------------
(* The theorems. *)

LEMMA ReportedIs ==
  ASSUME NEW s
  PROVE  Reported(s) = Told(sent[s])
  BY DEF Reported, Told, MatchesOf

LEMMA ToSetIsRange ==
  ASSUME NEW q
  PROVE  ToSet(q) = Range(q)
  BY DEF ToSet, Range

LEMMA PrefixKeeps ==
  ASSUME NEW p \in Seq(Entry), NEW m \in Seq(Entry), IsPrefix(p, m), IsInjective(m)
  PROVE  IsInjective(p) /\ Len(p) <= Len(m)
  <1>1. Len(p) <= Len(m) /\ SubSeq(p, 1, Len(p)) = SubSeq(m, 1, Len(p))
    BY DEF IsPrefix
  <1>2. Len(p) \in Nat /\ Len(m) \in Nat /\ DOMAIN p = 1..Len(p) /\ DOMAIN m = 1..Len(m)
    OBVIOUS
  <1>3. \A i \in DOMAIN p : i \in DOMAIN m /\ p[i] = m[i]
    <2>1. ASSUME NEW i \in 1..Len(p)
          PROVE  p[i] = m[i]
      <3>1. SubSeq(p, 1, Len(p))[i] = p[i] /\ SubSeq(m, 1, Len(p))[i] = m[i]
        BY <1>1, <1>2
      <3>. QED  BY <1>1, <3>1
    <2>. QED  BY <1>1, <1>2, <2>1
  <1>4. IsInjective(p)
    BY <1>3 DEF IsInjective
  <1>. QED  BY <1>1, <1>4

(* A search that ends without saying that it was truncated, cancelled or   *)
(* failed has reported every match of every folder it could read: the      *)
(* limits, the queue and the folders passed over (search.rs) lose nothing  *)
(* silently.                                                               *)
THEOREM SilenceIsComplete == Spec => []SilenceMeansComplete
  <1>1. SearchInv => SilenceMeansComplete
    <2> SUFFICES ASSUME SearchInv, NEW s \in SearchIds, Silent(sent[s])
                 PROVE  ToSet(Reported(s)) = Expected(walk[s])
      BY DEF SilenceMeansComplete, Silent, Ends
    <2>1. Told(sent[s]) = walk[s].matches /\ Range(walk[s].matches) = Expected(walk[s])
      BY DEF SearchInv, WalksInv, Tells
    <2>. QED  BY <2>1, ReportedIs, ToSetIsRange
  <1>. QED  BY <1>1, SearchInvariant, PTL

(* Across its batches a search reports an entry once, in the order found,  *)
(* and not more than the limit (push_match and flush of search.rs).        *)
THEOREM EntriesAreReportedOnce == Spec => []ReportedOnce
  <1>1. SearchInv => ReportedOnce
    <2> SUFFICES ASSUME SearchInv, NEW s \in SearchIds
                 PROVE  /\ IsInjective(Reported(s))
                        /\ IsPrefix(Reported(s), walk[s].matches)
                        /\ walk[s].at = "next" => Reported(s) = walk[s].matches
                        /\ Len(Reported(s)) <= MaxMatches
      BY DEF ReportedOnce
    <2>1. PICK w, t : w = walk[s] /\ t = Reported(s)
      OBVIOUS
    <2>2. /\ Sound(w) /\ (w.at # "none" => Kept(w)) /\ Tells(w, sent[s]) /\ t = Told(sent[s])
      BY <2>1, ReportedIs DEF SearchInv, WalksInv
    <2>3. t \in Seq(Entry) /\ w \in Walks
      BY <2>2, ToldType DEF SearchInv, SearchTypes, Sound
    <2>4. PICK m \in Seq(Entry), p \in Seq(Entry) : m = w.matches /\ p = w.pending
      <3>1. w.matches \in Seq(Entry) /\ w.pending \in Seq(Entry)
        BY <2>3 DEF Walks
      <3>. QED  BY <3>1
    <2>5. MaxMatches \in Nat /\ Len(t) \in Nat /\ Len(m) \in Nat
      BY <2>3, <2>4, LimitsAssumption
    <2>6. CASE w.at = "none"
      <3>1. t = <<>>
        BY <2>2, <2>6, ToldNothing DEF Tells
      <3>2. IsPrefix(t, t \o m) /\ t \o m = m
        BY <2>3, <2>4, <3>1, PrefixIs, NoElement
      <3>3. Len(t) = 0
        BY <3>1
      <3>. QED  BY <2>1, <2>4, <2>5, <2>6, <3>1, <3>2, <3>3, NoElement
    <2>7. CASE Open(w)
      <3>1. t \o p = m /\ Kept(w)
        BY <2>2, <2>4, <2>7 DEF Tells, Open
      <3>2. IsInjective(t) /\ IsPrefix(t, t \o p)
        <4>1. IsInjective(t \o p)
          BY <2>4, <3>1 DEF Kept
        <4>. QED  BY <2>3, <2>4, <4>1, ConcatIs
      <3>3. Len(t) <= MaxMatches
        <4>1. Len(t \o p) = Len(t) + Len(p) /\ Len(p) \in Nat
          BY <2>3, <2>4, ConcatIs
        <4>2. Len(m) <= MaxMatches
          BY <2>4, <3>1 DEF Kept
        <4>. QED  BY <2>5, <3>1, <4>1, <4>2
      <3>4. w.at = "next" => t = m
        <4>1. w.at = "next" => p = <<>>
          BY <2>2, <2>4, <2>7 DEF Sound, Shape
        <4>. QED  BY <2>3, <3>1, <4>1, NoElement
      <3>. QED  BY <2>1, <2>4, <3>1, <3>2, <3>3, <3>4
    <2>8. CASE w.at \in {"ended", "over"}
      <3>1. IsPrefix(t, m) /\ IsInjective(m) /\ Len(m) <= MaxMatches
        BY <2>2, <2>4, <2>8 DEF Tells, Kept
      <3>2. IsInjective(t) /\ Len(t) <= Len(m)
        BY <2>3, <2>4, <3>1, PrefixKeeps
      <3>. QED  BY <2>1, <2>4, <2>5, <2>8, <3>1, <3>2
    <2>. QED  BY <2>3, <2>6, <2>7, <2>8 DEF Walks, Open
  <1>. QED  BY <1>1, SearchInvariant, PTL

(* What the dialog shows answers the query and the root it is set to, no   *)
(* entry twice, however late the events and answers of earlier searches    *)
(* arrive (the listener of the search dialog).                             *)
THEOREM ShownIsAsked == Spec => []ShownAnswersTheQuery
  <1>1. SearchInv => ShownAnswersTheQuery
    BY ToSetIsRange DEF SearchInv, DialogInv, ShownAnswersTheQuery, Asked
  <1>. QED  BY <1>1, SearchInvariant, PTL

(* No walk goes on for nobody: one that is not listened to is still to be  *)
(* answered or cancelled, or has its flag raised (start_search_local,      *)
(* start_search_remote and cancel_search).                                 *)
THEOREM NoWalkIsForgotten == Spec => []NoOrphans
  <1>1. SearchInv => NoOrphans
    BY DEF SearchInv
  <1>. QED  BY <1>1, SearchInvariant, PTL

===============================================================================
