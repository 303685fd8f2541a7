---------------------------- MODULE FilesProofs ----------------------------
(***************************************************************************)
(* Proofs about Files, for any names, depth, and number of inodes and      *)
(* descriptors: what is open stays where its path leads, and the           *)
(* recursive removals of lwext4 never take more than what was asked for.   *)
(***************************************************************************)
EXTENDS Files, SequenceTheorems, FiniteSetTheorems, WellFoundedInduction, TLAPS

-----------------------------------------------------------------------------
(* The least of a set, and paths *)

LEMMA LeastOf ==
  ASSUME NEW R, \A x, y \in Nat : <<y, x>> \in R <=> y < x, IsWellFoundedOn(R, Nat),
         NEW S \in SUBSET Nat, S # {}
  PROVE  Min(S) \in S
<1>1. PICK x \in S : \A y \in S : ~ (<<y, x>> \in R)
  BY WFMin
<1>2. \A y \in S : ~ (y < x)
  BY <1>1
<1>3. \A y \in S : x <= y
  BY <1>2
<1> QED BY <1>3 DEF Min

LEMMA Least ==
  ASSUME NEW S \in SUBSET Nat, S # {}
  PROVE  Min(S) \in S
<1>1. IsWellFoundedOn(OpToRel(<, Nat), Nat)
  BY NatLessThanWellFounded
<1>2. \A x, y \in Nat : <<y, x>> \in OpToRel(<, Nat) <=> y < x
  BY DEF OpToRel
<1> QED BY <1>1, <1>2, LeastOf

Text == Seq(Name)

LEMMA PathIs == \A p : p \in Path <=> p \in Text /\ Len(p) <= MaxDepth
<1>1. ASSUME NEW p \in Path PROVE p \in Text /\ Len(p) <= MaxDepth
  <2>1. PICK m \in 0 .. MaxDepth : p \in [1 .. m -> Name]
    BY DEF Path, BoundedSeq, SeqOf
  <2> QED BY <2>1, BoundAssumption DEF Text
<1>2. ASSUME NEW p \in Text, Len(p) <= MaxDepth PROVE p \in Path
  <2>1. Len(p) \in 0 .. MaxDepth /\ p \in [1 .. Len(p) -> Name]
    BY <1>2, LenProperties, BoundAssumption DEF Text
  <2> QED BY <2>1 DEF Path, BoundedSeq, SeqOf
<1> QED BY <1>1, <1>2

LEMMA PrefixIs ==
  ASSUME NEW p \in Text, NEW q \in Text
  PROVE  IsPrefix(p, q) <=> Len(p) <= Len(q) /\ \A i \in 1 .. Len(p) : p[i] = q[i]
<1>1. SubSeq(p, 1, Len(p)) = p
  BY SubSeqFull DEF Text
<1>2. Len(p) \in Nat /\ Len(q) \in Nat
  BY LenProperties DEF Text
<1>3. CASE Len(p) <= Len(q)
  <2>1. \A i \in 1 .. Len(p) : q[i] \in Name
    BY <1>2, <1>3, ElementOfSeq DEF Text
  <2>2. /\ SubSeq(q, 1, Len(p)) \in Text /\ Len(SubSeq(q, 1, Len(p))) = Len(p)
        /\ \A i \in 1 .. Len(p) : SubSeq(q, 1, Len(p))[i] = q[i]
    BY <1>2, <2>1, SubSeqProperties DEF Text
  <2>3. SubSeq(q, 1, Len(p)) = p <=> \A i \in 1 .. Len(p) : p[i] = q[i]
    <3>1. (\A i \in 1 .. Len(p) : p[i] = q[i]) => SubSeq(q, 1, Len(p)) = p
      BY <2>2, SeqEqual DEF Text
    <3> QED BY <2>2, <3>1
  <2> QED BY <1>1, <1>3, <2>3 DEF IsPrefix
<1> QED BY <1>3 DEF IsPrefix

\* Prefixes are ordered, and those of one path are comparable.
LEMMA PrefixOrder ==
  /\ <<>> \in Text
  /\ \A p \in Text : IsPrefix(p, p) /\ IsPrefix(<<>>, p) /\ (IsPrefix(p, <<>>) => p = <<>>)
  /\ \A p, q \in Text : IsPrefix(p, q) /\ IsPrefix(q, p) => p = q
  /\ \A p, q, r \in Text : IsPrefix(p, q) /\ IsPrefix(q, r) => IsPrefix(p, r)
  /\ \A p, q, r \in Text : IsPrefix(p, r) /\ IsPrefix(q, r) => IsPrefix(p, q) \/ IsPrefix(q, p)
<1>1. \A p \in Text : Len(p) \in Nat
  BY LenProperties DEF Text
<1>2. <<>> \in Text /\ Len(<<>>) = 0
  BY EmptySeq DEF Text
<1>3. \A p, q \in Text : Len(p) = Len(q) /\ (\A i \in 1 .. Len(p) : p[i] = q[i]) => p = q
  BY SeqEqual DEF Text
<1>4. \A p \in Text : IsPrefix(p, p) /\ IsPrefix(<<>>, p)
  BY <1>1, <1>2, PrefixIs
<1>5. \A p, q \in Text : IsPrefix(p, q) /\ IsPrefix(q, p) => p = q
  BY <1>1, <1>3, PrefixIs
<1>6. \A p, q, r \in Text : IsPrefix(p, q) /\ IsPrefix(q, r) => IsPrefix(p, r)
  BY <1>1, PrefixIs
<1>7. \A p, q, r \in Text : IsPrefix(p, r) /\ IsPrefix(q, r) => IsPrefix(p, q) \/ IsPrefix(q, p)
  BY <1>1, PrefixIs
<1> QED BY <1>2, <1>4, <1>5, <1>6, <1>7

\* what follows the prefix p of q
Rest(p, q) == SubSeq(q, Len(p) + 1, Len(q))

LEMMA Splits ==
  ASSUME NEW p \in Text, NEW q \in Text, IsPrefix(p, q)
  PROVE  Rest(p, q) \in Text /\ q = p \o Rest(p, q)
<1>1. Len(p) \in Nat /\ Len(q) \in Nat /\ Len(p) <= Len(q) /\ \A i \in 1 .. Len(p) : p[i] = q[i]
  BY PrefixIs, LenProperties DEF Text
<1>2. \A i \in Len(p) + 1 .. Len(q) : q[i] \in Name
  BY <1>1, ElementOfSeq DEF Text
<1>3. /\ Rest(p, q) \in Text
      /\ Len(Rest(p, q)) = Len(q) - Len(p)
      /\ \A i \in 1 .. Len(q) - Len(p) : Rest(p, q)[i] = q[Len(p) + i]
  <2>1. /\ Rest(p, q) \in Text
        /\ Len(Rest(p, q)) = IF Len(p) + 1 <= Len(q) THEN Len(q) - (Len(p) + 1) + 1 ELSE 0
        /\ \A i \in 1 .. Len(q) - (Len(p) + 1) + 1 : Rest(p, q)[i] = q[(Len(p) + 1) + i - 1]
    BY <1>1, <1>2, SubSeqProperties DEF Text, Rest
  <2> QED BY <1>1, <2>1
<1>4. /\ p \o Rest(p, q) \in Text /\ Len(p \o Rest(p, q)) = Len(q)
      /\ \A i \in 1 .. Len(q) : (p \o Rest(p, q))[i] =
                                  IF i <= Len(p) THEN p[i] ELSE Rest(p, q)[i - Len(p)]
  BY <1>1, <1>3, ConcatProperties DEF Text
<1>5. \A i \in 1 .. Len(q) : (p \o Rest(p, q))[i] = q[i]
  BY <1>1, <1>3, <1>4
<1> QED BY <1>3, <1>4, <1>5, SeqEqual DEF Text

LEMMA Extends ==
  ASSUME NEW p \in Text, NEW s \in Text
  PROVE  /\ p \o s \in Text /\ IsPrefix(p, p \o s) /\ Rest(p, p \o s) = s
         /\ Len(p \o s) = Len(p) + Len(s)
<1>1. Len(p) \in Nat /\ Len(s) \in Nat
  BY LenProperties DEF Text
<1>2. /\ p \o s \in Text /\ Len(p \o s) = Len(p) + Len(s)
      /\ \A i \in 1 .. Len(p) + Len(s) : (p \o s)[i] = IF i <= Len(p) THEN p[i] ELSE s[i - Len(p)]
  BY ConcatProperties DEF Text
<1>3. IsPrefix(p, p \o s)
  <2>1. Len(p) <= Len(p \o s) /\ \A i \in 1 .. Len(p) : p[i] = (p \o s)[i]
    BY <1>1, <1>2
  <2> HIDE DEF Text
  <2> QED BY <1>2, <2>1, PrefixIs
<1>4. Rest(p, p \o s) \in Text /\ p \o s = p \o Rest(p, p \o s)
  BY <1>2, <1>3, Splits
<1> QED BY <1>2, <1>3, <1>4, ConcatSimplifications DEF Text

LEMMA PrefixAfter ==
  ASSUME NEW p \in Text, NEW s \in Text, NEW t \in Text
  PROVE  IsPrefix(p \o s, p \o t) <=> IsPrefix(s, t)
<1>1. ASSUME IsPrefix(s, t) PROVE IsPrefix(p \o s, p \o t)
  <2>1. Rest(s, t) \in Text /\ t = s \o Rest(s, t)
    BY <1>1, Splits
  <2>2. p \o (s \o Rest(s, t)) = (p \o s) \o Rest(s, t)
    BY <2>1, ConcatAssociative DEF Text
  <2>3. IsPrefix(p \o s, (p \o s) \o Rest(s, t))
    BY <2>1, Extends
  <2> QED BY <2>1, <2>2, <2>3
<1>2. ASSUME IsPrefix(p \o s, p \o t) PROVE IsPrefix(s, t)
  <2> DEFINE r == Rest(p \o s, p \o t)
  <2>1. r \in Text /\ p \o t = (p \o s) \o r
    BY <1>2, Splits, Extends
  <2> HIDE DEF r
  <2>2. (p \o s) \o r = p \o (s \o r)
    <3>1. p \in Seq(Name) /\ s \in Seq(Name) /\ r \in Seq(Name)
      BY <2>1 DEF Text
    <3> QED BY <3>1, ConcatAssociative
  <2>3. s \o r \in Text
    BY <2>1, ConcatProperties DEF Text
  <2>4. t = s \o r
    BY <2>1, <2>2, <2>3, ConcatSimplifications DEF Text
  <2> QED BY <2>1, <2>4, Extends
<1> QED BY <1>1, <1>2

\* The directory of a path, and the entry of a directory a path goes through.
LEMMA Fronts ==
  ASSUME NEW p \in Path, p # <<>>
  PROVE  /\ Front(p) \in Path /\ IsPrefix(Front(p), p) /\ Front(p) # p
         /\ \A q \in Text : IsPrefix(q, p) /\ q # p => IsPrefix(q, Front(p))
<1>1. p \in Text /\ Len(p) \in Nat \ {0} /\ Len(p) <= MaxDepth
  BY PathIs, EmptySeq DEF Text
<1>2. \A i \in 1 .. Len(p) - 1 : p[i] \in Name
  BY <1>1, ElementOfSeq DEF Text
<1>3. /\ Front(p) \in Text /\ Len(Front(p)) = Len(p) - 1
      /\ \A i \in 1 .. Len(p) - 1 : Front(p)[i] = p[i]
  <2>1. /\ Front(p) \in Text
        /\ Len(Front(p)) = IF 1 <= Len(p) - 1 THEN Len(p) - 1 - 1 + 1 ELSE 0
        /\ \A i \in 1 .. Len(p) - 1 - 1 + 1 : Front(p)[i] = p[1 + i - 1]
    BY <1>1, <1>2, SubSeqProperties DEF Text, Front
  <2>2. Len(p) - 1 - 1 + 1 = Len(p) - 1
    BY <1>1
  <2>3. Len(Front(p)) = Len(p) - 1
    <3>1. CASE Len(p) = 1
      BY <2>1, <3>1
    <3>2. CASE Len(p) # 1
      <4>1. 1 <= Len(p) - 1
        BY <1>1, <3>2
      <4> QED BY <2>1, <2>2, <4>1
    <3> QED BY <3>1, <3>2
  <2>4. ASSUME NEW i \in 1 .. Len(p) - 1 PROVE Front(p)[i] = p[i]
    <3>1. i \in 1 .. Len(p) - 1 - 1 + 1 /\ 1 + i - 1 = i
      BY <1>1
    <3>2. Front(p)[i] = p[1 + i - 1]
      BY <2>1, <3>1
    <3> QED BY <3>1, <3>2
  <2> QED BY <2>1, <2>3, <2>4
<1>4. Front(p) \in Path
  BY <1>1, <1>3, BoundAssumption, PathIs
<1>5. IsPrefix(Front(p), p) /\ Front(p) # p
  BY <1>1, <1>3, PrefixIs
<1>6. ASSUME NEW q \in Text, IsPrefix(q, p), q # p
      PROVE  IsPrefix(q, Front(p))
  <2>1. Len(q) \in Nat /\ Len(q) <= Len(p) /\ \A i \in 1 .. Len(q) : q[i] = p[i]
    BY <1>1, <1>6, PrefixIs, LenProperties DEF Text
  <2>2. Len(q) # Len(p)
    BY <1>1, <1>6, <2>1, SeqEqual DEF Text
  <2> QED BY <1>1, <1>3, <2>1, <2>2, PrefixIs
<1> QED BY <1>4, <1>5, <1>6

-----------------------------------------------------------------------------
(* The tree of paths *)

\* Below is an order with <<>> at its root, and what is above a path is a chain.
LEMMA Tops ==
  /\ <<>> \in Path
  /\ \A p \in Path : p \in Below[p] /\ Below[p] \subseteq Path /\ p \in Below[<<>>]
  /\ \A p \in Path : <<>> \in Below[p] => p = <<>>
  /\ \A p, q \in Path : q \in Below[p] /\ p \in Below[q] => p = q
  /\ \A p, q, r \in Path : q \in Below[p] /\ r \in Below[q] => r \in Below[p]
  /\ \A p, q, r \in Path : r \in Below[p] /\ r \in Below[q] => q \in Below[p] \/ p \in Below[q]
<1>1. Path \subseteq Text
  BY PathIs
<1>2. <<>> \in Path
  <2>1. <<>> \in Text /\ Len(<<>>) = 0
    BY EmptySeq DEF Text
  <2> QED BY <2>1, PathIs, BoundAssumption
<1>3. \A p, q \in Path : q \in Below[p] <=> IsPrefix(p, q)
  BY DEF Below
<1>4. \A p \in Path : Below[p] \subseteq Path
  BY DEF Below
<1> QED BY <1>1, <1>2, <1>3, <1>4, PrefixOrder

LEMMA Parents ==
  ASSUME NEW p \in Path, p # <<>>
  PROVE  /\ Front(p) \in Path /\ p \in Below[Front(p)] /\ Front(p) # p
         /\ Front(p) \notin Below[p]
         /\ \A q \in Path : p \in Below[q] /\ q # p => Front(p) \in Below[q]
<1>1. Front(p) \in Path /\ p \in Below[Front(p)] /\ Front(p) # p
  BY Fronts DEF Below
<1>2. ASSUME NEW q \in Path, p \in Below[q], q # p
      PROVE  Front(p) \in Below[q]
  <2>1. q \in Text /\ IsPrefix(q, p)
    BY <1>2, PathIs DEF Below
  <2> QED BY <1>1, <1>2, <2>1, Fronts DEF Below
<1> QED BY <1>1, <1>2, Tops

\* The entries of a directory
LEMMA Children ==
  ASSUME NEW p \in Path
  PROVE  /\ \A e \in Entries[p] : e \in Path /\ e \in Below[p] /\ e # p
         /\ \A e \in Entries[p], q \in Path : e \in Below[q] /\ q # e => p \in Below[q]
         /\ \A q \in Below[p] : q # p => \E e \in Entries[p] : q \in Below[e]
<1>1. p \in Text /\ Len(p) \in Nat
  BY PathIs, LenProperties DEF Text
<1>2. ASSUME NEW e \in Entries[p]
      PROVE  e \in Path /\ e \in Below[p] /\ e # p /\ Len(e) = Len(p) + 1
  BY <1>1 DEF Entries, Below
<1>3. ASSUME NEW e \in Entries[p], NEW q \in Path, e \in Below[q], q # e
      PROVE  p \in Below[q]
  <2>1. e \in Path /\ e \in Below[p] /\ Len(e) = Len(p) + 1
    BY <1>2
  <2>2. CASE p \in Below[q]
    BY <2>2
  <2>3. CASE q \in Below[p]
    <3>1. /\ p \in Text /\ q \in Text /\ e \in Text
          /\ IsPrefix(p, q) /\ IsPrefix(q, e)
      BY <1>1, <1>3, <2>1, <2>3, PathIs DEF Below
    <3>2. Len(p) <= Len(q) /\ Len(q) <= Len(e) /\ Len(q) \in Nat /\ Len(e) \in Nat
          /\ (\A i \in 1 .. Len(p) : p[i] = q[i]) /\ (\A i \in 1 .. Len(q) : q[i] = e[i])
      BY <3>1, PrefixIs, LenProperties DEF Text
    <3>3. Len(q) # Len(e)
      BY <1>3, <3>1, <3>2, SeqEqual DEF Text
    <3>4. Len(q) = Len(p)
      BY <1>1, <2>1, <3>2, <3>3
    <3>5. q = p
      BY <3>1, <3>2, <3>4, SeqEqual DEF Text
    <3> QED BY <3>5, Tops
  <2> QED BY <1>3, <2>1, <2>2, <2>3, Tops
<1>4. ASSUME NEW q \in Below[p], q # p
      PROVE  \E e \in Entries[p] : q \in Below[e]
  <2>1. /\ q \in Path /\ q \in Text /\ IsPrefix(p, q) /\ Len(q) \in Nat /\ Len(q) <= MaxDepth
        /\ Len(p) <= Len(q) /\ \A i \in 1 .. Len(p) : p[i] = q[i]
    BY <1>1, PathIs, PrefixIs, LenProperties DEF Below, Text
  <2>2. Len(p) # Len(q)
    BY <1>1, <1>4, <2>1, SeqEqual DEF Text
  <2> DEFINE e == SubSeq(q, 1, Len(p) + 1)
  <2>3. /\ e \in Text /\ Len(e) = Len(p) + 1
        /\ \A i \in 1 .. Len(p) + 1 : e[i] = q[i]
    <3>1. \A i \in 1 .. Len(p) + 1 : q[i] \in Name
      BY <1>1, <2>1, <2>2, ElementOfSeq DEF Text
    <3>2. /\ e \in Text
          /\ Len(e) = IF 1 <= Len(p) + 1 THEN Len(p) + 1 - 1 + 1 ELSE 0
          /\ \A i \in 1 .. Len(p) + 1 - 1 + 1 : e[i] = q[1 + i - 1]
      BY <1>1, <3>1, SubSeqProperties DEF Text
    <3>3. Len(p) + 1 - 1 + 1 = Len(p) + 1 /\ 1 <= Len(p) + 1
      BY <1>1
    <3>4. ASSUME NEW i \in 1 .. Len(p) + 1 PROVE e[i] = q[i]
      <4>1. 1 + i - 1 = i
        BY <1>1
      <4> QED BY <3>2, <3>3, <4>1
    <3> QED BY <3>2, <3>3, <3>4
  <2> HIDE DEF e
  <2>4. e \in Path
    <3>1. Len(e) <= MaxDepth
      BY <1>1, <2>1, <2>2, <2>3, BoundAssumption
    <3> QED BY <2>3, <3>1, PathIs
  <2>5. IsPrefix(e, q)
    BY <1>1, <2>1, <2>2, <2>3, PrefixIs
  <2>6. IsPrefix(p, e)
    BY <1>1, <2>1, <2>3, PrefixIs
  <2>7. e \in Entries[p] /\ q \in Below[e]
    BY <2>1, <2>3, <2>4, <2>5, <2>6 DEF Entries, Below
  <2> QED BY <2>7
<1> QED BY <1>2, <1>3, <1>4

\* The entries of a directory that is neither below p nor holds p
LEMMA Elsewhere ==
  ASSUME NEW p \in Path, p # <<>>, NEW q \in Path, q \notin Below[p], q # Front(p)
  PROVE  \A e \in Entries[q] : e \in Path /\ e \notin Below[p]
<1> SUFFICES ASSUME NEW e \in Entries[q] PROVE e \in Path /\ e \notin Below[p]
  OBVIOUS
<1>1. e \in Path /\ e \in Below[q] /\ e # q
  BY Children
<1>2. ASSUME e = p PROVE FALSE
  <2>1. Front(p) \in Below[q] /\ Front(p) \in Path /\ p \in Below[Front(p)] /\ Front(p) # p
    BY <1>1, <1>2, Parents
  <2>2. q \in Below[Front(p)]
    BY <1>2, <2>1, Children
  <2> QED BY <2>1, <2>2, Tops
<1> QED BY <1>1, <1>2, Children

\* What moves from below op to below np keeps its place, and can be moved back.
LEMMA Targets ==
  ASSUME NEW op \in Path, NEW np \in Path, NEW q \in Below[op],
         Target(op, np, q) \in Path
  PROVE  /\ Target(op, np, q) \in Below[np]
         /\ Target(np, op, Target(op, np, q)) = q
         /\ \A r \in Below[op] : q \in Below[r] =>
              /\ Target(op, np, r) \in Path
              /\ Target(op, np, q) \in Below[Target(op, np, r)]
<1> DEFINE s == Rest(op, q)
<1>1. op \in Text /\ np \in Text /\ q \in Text /\ q \in Path /\ IsPrefix(op, q)
  BY PathIs DEF Below
<1>2. s \in Text /\ q = op \o s /\ Target(op, np, q) = np \o s
  BY <1>1, Splits DEF Target, Rest
<1>3. np \o s \in Text /\ IsPrefix(np, np \o s) /\ Rest(np, np \o s) = s
  BY <1>1, <1>2, Extends
<1>4. Target(np, op, np \o s) = q
  BY <1>2, <1>3 DEF Target, Rest
<1>5. ASSUME NEW r \in Below[op], q \in Below[r]
      PROVE  /\ Target(op, np, r) \in Path
             /\ Target(op, np, q) \in Below[Target(op, np, r)]
  <2> DEFINE t == Rest(op, r)
  <2>1. r \in Path /\ r \in Text /\ IsPrefix(op, r) /\ IsPrefix(r, q)
    BY <1>5, PathIs DEF Below
  <2>2. t \in Text /\ r = op \o t /\ Target(op, np, r) = np \o t
    BY <1>1, <2>1, Splits DEF Target, Rest
  <2> HIDE DEF s, t
  <2>3. IsPrefix(op \o t, op \o s)
    BY <1>2, <2>1, <2>2
  <2>4. IsPrefix(t, s)
    BY <1>1, <1>2, <2>2, <2>3, PrefixAfter
  <2>5. IsPrefix(np \o t, np \o s)
    BY <1>1, <1>2, <2>2, <2>4, PrefixAfter
  <2>6. np \o t \in Text
    BY <1>1, <2>2, Extends
  <2>7. Len(np \o t) <= Len(np \o s)
    BY <1>3, <2>5, <2>6, PrefixIs
  <2>8. Len(np \o s) <= MaxDepth /\ Len(np \o t) \in Nat /\ Len(np \o s) \in Nat
    <3>1. np \o s \in Path
      BY <1>2
    <3> QED BY <1>3, <2>6, <3>1, PathIs, LenProperties DEF Text
  <2>9. np \o t \in Path
    <3>1. Len(np \o t) <= MaxDepth
      BY <2>7, <2>8, BoundAssumption
    <3> QED BY <2>6, <3>1, PathIs
  <2> QED BY <1>2, <2>2, <2>5, <2>9 DEF Below
<1> QED BY <1>2, <1>3, <1>4, <1>5 DEF Below

-----------------------------------------------------------------------------
(* A file system is a tree: its root is there, an inode has one name, and   *)
(* what is above something is a directory.  Every change keeps it one.      *)

FsType == [at : [Path -> Ino \cup {NoIno}], isDir : [Ino -> BOOLEAN], size : [Ino -> Nat]]

IsTree(f) ==
  /\ f \in FsType
  /\ LookDir(f, <<>>)
  /\ \A p, q \in Path : f.at[p] # NoIno /\ f.at[p] = f.at[q] => p = q
  /\ \A p \in Path : \A q \in Below[p] : f.at[q] # NoIno /\ p # q => LookDir(f, p)

LEMMA Inos ==
  /\ Ino \subseteq Nat /\ NoIno \notin Ino /\ Root \in Ino
  /\ IsFiniteSet(Ino)
<1>1. IsFiniteSet(1 .. MaxIno)
  BY FS_Interval, BoundAssumption
<1> QED BY <1>1, BoundAssumption DEF Ino, NoIno, Root

\* An inode in the tree below p is at a path below p, and nowhere else.
LEMMA InTree ==
  ASSUME NEW f, IsTree(f), NEW p \in Path, NEW q \in Path, f.at[q] # NoIno
  PROVE  /\ f.at[q] \in Ino
         /\ f.at[q] \in Tree(f, p) <=> q \in Below[p]
         /\ f.at[q] \in Kids(f, p) <=> q \in Entries[p]
<1>1. f.at[q] \in Ino
  BY DEF IsTree, FsType
<1>2. \A r \in Path : f.at[r] = f.at[q] => r = q
  BY DEF IsTree
<1>3. Below[p] \subseteq Path /\ Entries[p] \subseteq Path
  BY Tops, Children
<1> QED BY <1>1, <1>2, <1>3 DEF Tree, Kids

\* A directory without entries has nothing below it.
LEMMA EmptyTree ==
  ASSUME NEW f, IsTree(f), NEW p \in Path, Kids(f, p) = {} \/ ~ LookDir(f, p)
  PROVE  /\ \A q \in Below[p] : q # p => f.at[q] = NoIno
         /\ Kids(f, p) = {}
<1>1. ASSUME NEW q \in Below[p], q # p, f.at[q] # NoIno PROVE FALSE
  <2>1. LookDir(f, p)
    BY <1>1 DEF IsTree
  <2>2. PICK e \in Entries[p] : q \in Below[e]
    BY <1>1, Children
  <2>3. e \in Path
    BY <2>2, Children
  <2>4. f.at[e] # NoIno
    BY <1>1, <2>2, <2>3 DEF IsTree, LookDir
  <2> QED BY <2>1, <2>2, <2>4 DEF Kids
<1>2. ASSUME NEW e \in Entries[p] PROVE f.at[e] = NoIno
  BY <1>1, <1>2, Children
<1> QED BY <1>1, <1>2 DEF Kids

LEMMA KidsFinite ==
  ASSUME NEW f \in FsType, NEW p \in Path
  PROVE  IsFiniteSet(Kids(f, p)) /\ Cardinality(Kids(f, p)) \in Nat
<1>1. Entries[p] \subseteq Path
  BY Children
<1>2. Kids(f, p) \subseteq Ino
  BY <1>1 DEF FsType, Kids
<1> QED BY <1>2, Inos, FS_Subset, FS_CardinalityType

-----------------------------------------------------------------------------
(* What lwext4 does to a tree *)

\* A new inode is one that nothing leads to.
NewIno(f) == Min(FreeInos(f))

LEMMA CreatedIs ==
  ASSUME NEW f, IsTree(f), NEW p \in Path, FreeInos(f) # {}, NEW isDir \in BOOLEAN
  PROVE  /\ NewIno(f) \in Ino /\ \A q \in Path : f.at[q] # NewIno(f)
         /\ Created(f, p, isDir).at = [f.at EXCEPT ![p] = NewIno(f)]
         /\ Created(f, p, isDir).isDir = [f.isDir EXCEPT ![NewIno(f)] = isDir]
         /\ Created(f, p, isDir).size = f.size
         /\ Created(f, p, isDir) \in FsType
<1> DEFINE i == NewIno(f)
<1>1. i \in FreeInos(f)
  BY Least, Inos DEF FreeInos, NewIno
<1>4. Created(f, p, isDir) = [f EXCEPT !.at[p] = i, !.isDir[i] = isDir]
  BY DEF Created, NewIno
<1> HIDE DEF i
<1>2. i \in Ino /\ i \notin Tree(f, <<>>)
  BY <1>1 DEF FreeInos
<1>3. \A q \in Path : f.at[q] # i
  BY <1>2, Tops, Inos DEF Tree
<1>5. /\ Created(f, p, isDir).at = [f.at EXCEPT ![p] = i]
      /\ Created(f, p, isDir).isDir = [f.isDir EXCEPT ![i] = isDir]
      /\ Created(f, p, isDir).size = f.size
      /\ Created(f, p, isDir) \in FsType
  <2>1. f \in FsType
    BY DEF IsTree
  <2>2. p \in DOMAIN f.at /\ i \in DOMAIN f.isDir
    BY <1>2, <2>1 DEF FsType
  <2>3. /\ Created(f, p, isDir).at = [f.at EXCEPT ![p] = i]
        /\ Created(f, p, isDir).isDir = [f.isDir EXCEPT ![i] = isDir]
        /\ Created(f, p, isDir).size = f.size
    BY <1>4, <2>1 DEF FsType
  <2>4. [f.at EXCEPT ![p] = i] \in [Path -> Ino \cup {NoIno}]
        /\ [f.isDir EXCEPT ![i] = isDir] \in [Ino -> BOOLEAN]
    BY <1>2, <2>1 DEF FsType
  <2>5. Created(f, p, isDir) = [at |-> [f.at EXCEPT ![p] = i],
                                isDir |-> [f.isDir EXCEPT ![i] = isDir], size |-> f.size]
    BY <1>4, <2>1 DEF FsType
  <2> QED BY <2>1, <2>3, <2>4, <2>5 DEF FsType
<1> QED BY <1>2, <1>3, <1>5 DEF i

LEMMA CreatedIsTree ==
  ASSUME NEW f, IsTree(f), NEW p \in Path, CanCreate(f, p), FreeInos(f) # {},
         NEW isDir \in BOOLEAN
  PROVE  IsTree(Created(f, p, isDir))
<1> DEFINE g == Created(f, p, isDir)
           i == NewIno(f)
<1>1. /\ i \in Ino /\ \A q \in Path : f.at[q] # i
      /\ g.at = [f.at EXCEPT ![p] = i]
      /\ g.isDir = [f.isDir EXCEPT ![i] = isDir]
      /\ g \in FsType
  BY CreatedIs
<1> HIDE DEF g, i
<1>2. f \in FsType /\ f.at[p] = NoIno /\ LookDir(f, Front(p)) /\ LookDir(f, <<>>) /\ <<>> \in Path
  BY Tops DEF IsTree, CanCreate
<1>3. p # <<>>
  BY <1>2 DEF LookDir
<1>4. \A q \in Path : q # p => g.at[q] = f.at[q] /\ (LookDir(f, q) => LookDir(g, q))
  BY <1>1, <1>2 DEF LookDir, FsType
<1>5. g.at[p] = i
  BY <1>1, <1>2 DEF FsType
<1>6. LookDir(g, <<>>)
  BY <1>2, <1>3, <1>4
<1>7. ASSUME NEW q \in Path, NEW r \in Path, g.at[q] # NoIno, g.at[q] = g.at[r]
      PROVE  q = r
  BY <1>1, <1>4, <1>5, <1>7 DEF IsTree
<1>8. ASSUME NEW d \in Path, NEW q \in Below[d], g.at[q] # NoIno, d # q
      PROVE  LookDir(g, d)
  <2>1. q \in Path
    BY Tops
  <2>2. CASE q = p
    <3>1. Front(p) \in Below[d] /\ Front(p) \in Path
      BY <1>3, <1>8, <2>2, Parents
    <3>2. f.at[Front(p)] # NoIno
      BY <1>2 DEF LookDir
    <3>3. LookDir(f, d)
      BY <1>2, <3>1, <3>2 DEF IsTree
    <3> QED BY <1>4, <1>8, <2>2, <3>3
  <2>3. CASE q # p
    <3>1. f.at[q] # NoIno
      BY <1>4, <1>8, <2>1, <2>3
    <3>2. LookDir(f, d)
      BY <1>8, <3>1 DEF IsTree
    <3>3. d # p
      BY <1>2, <3>2 DEF LookDir
    <3> QED BY <1>4, <3>2, <3>3
  <2> QED BY <2>2, <2>3
<1>9. IsTree(g)
  BY <1>1, <1>6, <1>7, <1>8 DEF IsTree
<1> QED BY <1>9 DEF g

LEMMA RemovedIs ==
  ASSUME NEW f, IsTree(f), NEW p \in Path
  PROVE  /\ Removed(f, p) \in FsType
         /\ \A q \in Path : Removed(f, p).at[q] = IF q \in Below[p] THEN NoIno ELSE f.at[q]
         /\ \A q \in Path : q \notin Below[p] /\ f.at[q] # NoIno =>
              /\ f.at[q] \in Ino
              /\ Removed(f, p).isDir[f.at[q]] = f.isDir[f.at[q]]
              /\ Removed(f, p).size[f.at[q]] = f.size[f.at[q]]
         /\ \A q \in Path : q \notin Below[p] /\ LookDir(f, q) => LookDir(Removed(f, p), q)
<1> DEFINE g == Removed(f, p)
<1>1. f \in FsType
  BY DEF IsTree
<1>2. /\ g.at = [q \in Path |-> IF q \in Below[p] THEN NoIno ELSE f.at[q]]
      /\ g.isDir = [i \in Ino |-> f.isDir[i] /\ i \notin Tree(f, p)]
      /\ g.size = [i \in Ino |-> IF i \in Tree(f, p) THEN 0 ELSE f.size[i]]
      /\ g = [at |-> g.at, isDir |-> g.isDir, size |-> g.size]
  BY DEF Removed
<1> HIDE DEF g
<1>3. g.at \in [Path -> Ino \cup {NoIno}] /\ g.isDir \in [Ino -> BOOLEAN] /\ g.size \in [Ino -> Nat]
  BY <1>1, <1>2 DEF FsType
<1>4. g \in FsType
  BY <1>2, <1>3 DEF FsType
<1>5. \A q \in Path : g.at[q] = IF q \in Below[p] THEN NoIno ELSE f.at[q]
  BY <1>2
<1>6. ASSUME NEW q \in Path, q \notin Below[p], f.at[q] # NoIno
      PROVE  /\ f.at[q] \in Ino /\ g.isDir[f.at[q]] = f.isDir[f.at[q]]
             /\ g.size[f.at[q]] = f.size[f.at[q]]
  <2>1. f.at[q] \in Ino /\ f.at[q] \notin Tree(f, p)
    BY <1>6, InTree
  <2> QED BY <1>1, <1>2, <2>1 DEF FsType
<1>7. \A q \in Path : q \notin Below[p] /\ LookDir(f, q) => LookDir(g, q)
  BY <1>5, <1>6 DEF LookDir
<1> QED BY <1>4, <1>5, <1>6, <1>7 DEF g

LEMMA RemovedIsTree ==
  ASSUME NEW f, IsTree(f), NEW p \in Path, p # <<>>
  PROVE  IsTree(Removed(f, p))
<1> DEFINE g == Removed(f, p)
<1>1. g \in FsType /\ LookDir(f, <<>>)
  BY RemovedIs DEF IsTree
<1>2. \A q \in Path : g.at[q] = IF q \in Below[p] THEN NoIno ELSE f.at[q]
  BY RemovedIs
<1>3. \A q \in Path : q \notin Below[p] /\ LookDir(f, q) => LookDir(g, q)
  BY RemovedIs
<1> HIDE DEF g
<1>4. LookDir(g, <<>>)
  BY <1>1, <1>3, Tops
<1>5. \A q, r \in Path : g.at[q] # NoIno /\ g.at[q] = g.at[r] => q = r
  BY <1>2 DEF IsTree
<1>6. ASSUME NEW d \in Path, NEW q \in Below[d], g.at[q] # NoIno, d # q
      PROVE  LookDir(g, d)
  <2>1. q \in Path /\ q \notin Below[p] /\ f.at[q] # NoIno
    BY <1>2, <1>6, Tops
  <2>2. d \notin Below[p]
    BY <1>6, <2>1, Tops
  <2>3. LookDir(f, d)
    BY <1>6, <2>1 DEF IsTree
  <2> QED BY <1>3, <2>2, <2>3
<1>7. IsTree(g)
  BY <1>1, <1>4, <1>5, <1>6 DEF IsTree
<1> QED BY <1>7 DEF g

\* What a move finds: nothing at its target, and room for what it moves.
Movable(f, op, np) ==
  /\ op # <<>> /\ op \notin Below[np] /\ np \notin Below[op]
  /\ LookDir(f, Front(np))
  /\ \A q \in Below[np] : f.at[q] = NoIno
  /\ \A q \in Below[op] : f.at[q] # NoIno => Target(op, np, q) \in Path

LEMMA MovedIs ==
  ASSUME NEW f \in FsType, NEW op \in Path, NEW np \in Path, Movable(f, op, np)
  PROVE  /\ Moved(f, op, np).isDir = f.isDir /\ Moved(f, op, np).size = f.size
         /\ \A q \in Below[np] : Moved(f, op, np).at[q] =
              IF Target(np, op, q) \in Path THEN f.at[Target(np, op, q)] ELSE NoIno
         /\ \A q \in Below[op] : Moved(f, op, np).at[q] = NoIno
         /\ \A q \in Path : q \notin Below[op] /\ q \notin Below[np] =>
              Moved(f, op, np).at[q] = f.at[q]
         /\ Moved(f, op, np) \in FsType
<1> DEFINE g == Moved(f, op, np)
           Comes(q) == \E r \in Below[op] : Target(op, np, r) = q
           to == [q \in Path |-> IF Comes(q) THEN f.at[Target(np, op, q)]
                                 ELSE IF q \in Below[op] THEN NoIno ELSE f.at[q]]
<1>1. g = [f EXCEPT !.at = to]
  BY DEF Moved
<1>2. g.isDir = f.isDir /\ g.size = f.size /\ g.at = to
  BY <1>1 DEF FsType
<1>3. ASSUME NEW q \in Below[np]
      PROVE  Comes(q) <=> Target(np, op, q) \in Path
  <2>1. q \in Path
    BY Tops
  <2>2. ASSUME NEW r \in Below[op], Target(op, np, r) = q PROVE Target(np, op, q) \in Path
    <3>1. r \in Path
      BY Tops
    <3> QED BY <2>1, <2>2, <3>1, Targets
  <2>3. ASSUME Target(np, op, q) \in Path PROVE Comes(q)
    BY <2>3, Targets
  <2> QED BY <2>2, <2>3
<1>4. ASSUME NEW q \in Path, q \notin Below[np] PROVE ~ Comes(q)
  BY <1>4, Targets
<1>5. Below[op] \subseteq Path /\ Below[np] \subseteq Path /\ Below[op] \cap Below[np] = {}
  BY Tops DEF Movable
<1> HIDE DEF g, Comes
<1>6. \A q \in Path : g.at[q] = IF Comes(q) THEN f.at[Target(np, op, q)]
                                ELSE IF q \in Below[op] THEN NoIno ELSE f.at[q]
  BY <1>2
<1>7. \A q \in Below[np] :
        g.at[q] = IF Target(np, op, q) \in Path THEN f.at[Target(np, op, q)] ELSE NoIno
  BY <1>3, <1>5, <1>6 DEF Movable
<1>8. \A q \in Below[op] : g.at[q] = NoIno
  BY <1>4, <1>5, <1>6
<1>9. \A q \in Path : q \notin Below[op] /\ q \notin Below[np] => g.at[q] = f.at[q]
  BY <1>4, <1>6
<1>10. g \in FsType
  <2>1. to = [q \in Path |-> g.at[q]]
    BY <1>2
  <2>2. \A q \in Path : f.at[q] \in Ino \cup {NoIno}
    BY DEF FsType
  <2>3. \A q \in Path : g.at[q] \in Ino \cup {NoIno}
    BY <1>7, <1>8, <1>9, <2>2
  <2>4. to \in [Path -> Ino \cup {NoIno}]
    BY <2>1, <2>3
  <2> HIDE DEF to
  <2> QED BY <1>1, <2>4 DEF FsType
<1> QED BY <1>2, <1>7, <1>8, <1>9, <1>10 DEF g

LEMMA MovedIsTree ==
  ASSUME NEW f, IsTree(f), NEW op \in Path, NEW np \in Path, Movable(f, op, np)
  PROVE  IsTree(Moved(f, op, np))
<1> DEFINE g == Moved(f, op, np)
<1>1. f \in FsType /\ LookDir(f, <<>>) /\ <<>> \in Path
  BY Tops DEF IsTree
<1>2. /\ g.isDir = f.isDir
      /\ \A q \in Below[np] :
           g.at[q] = IF Target(np, op, q) \in Path THEN f.at[Target(np, op, q)] ELSE NoIno
      /\ \A q \in Below[op] : g.at[q] = NoIno
      /\ \A q \in Path : q \notin Below[op] /\ q \notin Below[np] => g.at[q] = f.at[q]
      /\ g \in FsType
  BY <1>1, MovedIs
<1> HIDE DEF g
<1>3. op # <<>> /\ np # <<>> /\ f.at[np] = NoIno
  BY <1>1, Tops DEF Movable, LookDir
<1>4. \A q \in Path : q \notin Below[op] /\ q \notin Below[np] /\ LookDir(f, q) => LookDir(g, q)
  BY <1>2 DEF LookDir
<1>5. LookDir(g, <<>>)
  BY <1>1, <1>3, <1>4, Tops
\* what leads somewhere below np led there from below op
<1>6. ASSUME NEW q \in Below[np], g.at[q] # NoIno
      PROVE  /\ Target(np, op, q) \in Below[op] /\ Target(op, np, Target(np, op, q)) = q
             /\ Target(np, op, q) \in Path /\ g.at[q] = f.at[Target(np, op, q)]
  <2>1. Target(np, op, q) \in Path /\ g.at[q] = f.at[Target(np, op, q)]
    BY <1>2, <1>6
  <2> QED BY <2>1, Targets
<1>7. ASSUME NEW q \in Path, NEW r \in Path, g.at[q] # NoIno, g.at[q] = g.at[r]
      PROVE  q = r
  <2>1. q \notin Below[op] /\ r \notin Below[op]
    BY <1>2, <1>7
  <2>2. \A a, b \in Path : f.at[a] # NoIno /\ f.at[a] = f.at[b] => a = b
    BY DEF IsTree
  <2>3. CASE q \in Below[np] /\ r \in Below[np]
    BY <1>6, <1>7, <2>2, <2>3
  <2>4. CASE q \notin Below[np] /\ r \notin Below[np]
    BY <1>2, <1>7, <2>1, <2>2, <2>4
  <2>5. CASE q \in Below[np] /\ r \notin Below[np]
    BY <1>2, <1>6, <1>7, <2>1, <2>2, <2>5
  <2>6. CASE q \notin Below[np] /\ r \in Below[np]
    BY <1>2, <1>6, <1>7, <2>1, <2>2, <2>6
  <2> QED BY <2>3, <2>4, <2>5, <2>6
<1>8. ASSUME NEW d \in Path, NEW q \in Below[d], g.at[q] # NoIno, d # q
      PROVE  LookDir(g, d)
  <2>1. q \in Path /\ q \notin Below[op] /\ d \notin Below[op]
    BY <1>2, <1>8, Tops
  <2>2. CASE q \notin Below[np]
    <3>1. d \notin Below[np] /\ f.at[q] # NoIno
      BY <1>2, <1>8, <2>1, <2>2, Tops
    <3>2. LookDir(f, d)
      BY <1>8, <3>1 DEF IsTree
    <3> QED BY <1>4, <2>1, <3>1, <3>2
  <2>3. CASE q \in Below[np] /\ d \notin Below[np]
    <3>1. np \in Below[d] /\ np # d
      BY <1>8, <2>1, <2>3, Tops
    <3>2. Front(np) \in Below[d] /\ Front(np) \in Path
      BY <1>3, <3>1, Parents
    <3>3. LookDir(f, d)
      BY <3>2 DEF Movable, IsTree, LookDir
    <3> QED BY <1>4, <2>1, <2>3, <3>3
  <2>4. CASE q \in Below[np] /\ d \in Below[np]
    <3> DEFINE a == Target(np, op, q)
               b == Target(np, op, d)
    <3>1. /\ a \in Below[op] /\ a \in Path /\ f.at[a] # NoIno
          /\ Target(op, np, a) = q
      BY <1>6, <1>8, <2>4
    <3>2. b \in Path /\ a \in Below[b]
      BY <1>8, <2>4, <3>1, Targets
    <3>3. Target(op, np, b) = d
      BY <2>4, <3>2, Targets
    <3>4. a # b
      BY <1>8, <3>1, <3>3
    <3>5. LookDir(f, b)
      BY <3>1, <3>2, <3>4 DEF IsTree
    <3>6. g.at[d] = f.at[b]
      BY <1>2, <2>4, <3>2
    <3> QED BY <1>2, <3>5, <3>6 DEF LookDir
  <2> QED BY <2>2, <2>3, <2>4
<1>9. IsTree(g)
  BY <1>2, <1>5, <1>7, <1>8 DEF IsTree
<1> QED BY <1>9 DEF g

-----------------------------------------------------------------------------
(* The inductive invariant *)

SlotType == [used : BOOLEAN, isDir : BOOLEAN, wr : BOOLEAN, ino : Ino \cup {NoIno},
             fpos : Nat, fsize : Nat, path : Path, next : Nat, given : Seq(Nat), lost : SUBSET Nat]

TypeOK == files \in [Slot -> SlotType] /\ cwd \in Path /\ ret \in {"ok", "fail"}

\* what an open slot d says is so in f
Leads(f, d) ==
  /\ f.at[d.path] = d.ino
  /\ f.isDir[d.ino] = d.isDir
  /\ ~ d.isDir => d.fsize = f.size[d.ino]
  /\ d.isDir => d.next <= Cardinality(Kids(f, d.path))

\* f is a file system for what is open
Fits(f) ==
  /\ \A s \in Slot : files[s].used => Leads(f, files[s])
  /\ LookDir(f, cwd)

\* what has been passed of a directory: delivered, once and in order, or lost
Listing(d) ==
  LET listed == {d.given[i] : i \in DOMAIN d.given} IN
  /\ \A i, j \in DOMAIN d.given : i < j => d.given[i] < d.given[j]
  /\ listed \cup d.lost = 1 .. d.next /\ listed \cap d.lost = {}

\* a slot by itself
Sound(d) ==
  /\ ~ d.used => d = Unused
  /\ d.used => d.ino # NoIno
  /\ d.isDir => ~ d.wr
  /\ Listing(d)

\* the only descriptor on its file, if it is written
Alone(d, e) == d.used /\ e.used /\ d.ino = e.ino => ~ d.wr /\ ~ e.wr

IInv ==
  /\ TypeOK
  /\ IsTree(fs)
  /\ Fits(fs)
  /\ \A s \in Slot : Sound(files[s])
  /\ \A s, t \in Slot : s # t => Alone(files[s], files[t])

LEMMA StillLeads ==
  ASSUME NEW f \in FsType, NEW g \in FsType, NEW d \in SlotType, Leads(f, d), d.ino \in Ino,
         g.at[d.path] = f.at[d.path], g.isDir[d.ino] = f.isDir[d.ino],
         g.size[d.ino] = f.size[d.ino],
         d.next = 0 \/ Kids(f, d.path) \subseteq Kids(g, d.path)
  PROVE  Leads(g, d)
<1>1. d.path \in Path /\ d.next \in Nat
  BY DEF SlotType
<1>2. /\ IsFiniteSet(Kids(g, d.path)) /\ Cardinality(Kids(g, d.path)) \in Nat
      /\ Cardinality(Kids(f, d.path)) \in Nat
  BY <1>1, KidsFinite
<1>3. CASE d.next = 0
  BY <1>2, <1>3 DEF Leads
<1>4. CASE Kids(f, d.path) \subseteq Kids(g, d.path)
  <2>1. Cardinality(Kids(f, d.path)) <= Cardinality(Kids(g, d.path))
    BY <1>2, <1>4, FS_Subset
  <2> QED BY <1>1, <1>2, <2>1 DEF Leads
<1> QED BY <1>3, <1>4

LEMMA Used ==
  ASSUME IInv, NEW s \in Slot, files[s].used
  PROVE  /\ files[s] \in SlotType /\ files[s].path \in Path /\ files[s].ino \in Ino
         /\ fs.at[files[s].path] = files[s].ino /\ fs.at[files[s].path] # NoIno
BY Inos DEF IInv, TypeOK, SlotType, Fits, Leads, Sound

\* Nothing in use is below p; nobody is in the middle of listing d.
Clear(p) ==
  /\ cwd \notin Below[p]
  /\ \A s \in Slot : files[s].used => files[s].path \notin Below[p]

Unread(d) == \A s \in Slot : files[s].used /\ files[s].path = d => files[s].next = 0

LEMMA NotListedIs ==
  ASSUME IInv, NEW d, NotListed(d)
  PROVE  Unread(d)
BY Used DEF NotListed, Unread

LEMMA MayGoIs ==
  ASSUME IInv, NEW p \in Path, MayGo(p)
  PROVE  p # <<>> /\ Clear(p) /\ Unread(Front(p))
<1>1. IsTree(fs) /\ cwd \in Path /\ cwd \notin Below[p]
  BY DEF IInv, TypeOK, MayGo, Untouched
<1>2. p # <<>>
  BY <1>1, Tops
<1>3. ASSUME NEW s \in Slot, files[s].used PROVE files[s].path \notin Below[p]
  <2>1. files[s].path \in Path /\ fs.at[files[s].path] = files[s].ino
        /\ fs.at[files[s].path] # NoIno
    BY <1>3, Used
  <2>2. files[s].ino \notin Tree(fs, p)
    BY <1>3 DEF MayGo, Untouched, OpenOn
  <2> QED BY <1>1, <2>1, <2>2, InTree
<1> QED BY <1>1, <1>2, <1>3, NotListedIs DEF MayGo, Clear

-----------------------------------------------------------------------------
(* A changed tree fits what is open, if that has been left alone. *)

LEMMA CreatedFits ==
  ASSUME IInv, NEW p \in Path, CanCreate(fs, p), FreeInos(fs) # {}, NEW isDir \in BOOLEAN
  PROVE  Fits(Created(fs, p, isDir))
<1> DEFINE g == Created(fs, p, isDir)
           i == NewIno(fs)
<1>1. IsTree(fs) /\ fs \in FsType /\ cwd \in Path
  BY DEF IInv, IsTree, TypeOK
<1>2. /\ i \in Ino /\ \A q \in Path : fs.at[q] # i
      /\ g.at = [fs.at EXCEPT ![p] = i]
      /\ g.isDir = [fs.isDir EXCEPT ![i] = isDir]
      /\ g.size = fs.size /\ g \in FsType
  BY <1>1, CreatedIs
<1> HIDE DEF g, i
<1>3. fs.at[p] = NoIno
  BY DEF CanCreate
<1>4. /\ \A q \in Path : q # p => g.at[q] = fs.at[q]
      /\ \A q \in Path : fs.at[q] \in Ino => g.isDir[fs.at[q]] = fs.isDir[fs.at[q]]
  BY <1>1, <1>2 DEF FsType
<1>5. LookDir(g, cwd)
  BY <1>1, <1>3, <1>4 DEF IInv, Fits, LookDir, FsType
<1>6. ASSUME NEW q \in Path PROVE Kids(fs, q) \subseteq Kids(g, q)
  BY <1>3, <1>4, Children DEF Kids
<1>7. ASSUME NEW s \in Slot, files[s].used PROVE Leads(g, files[s])
  <2>1. /\ files[s] \in SlotType /\ files[s].path \in Path /\ files[s].ino \in Ino
        /\ fs.at[files[s].path] = files[s].ino /\ fs.at[files[s].path] # NoIno
        /\ Leads(fs, files[s])
    BY <1>7, Used DEF IInv, Fits
  <2>2. files[s].path # p
    BY <1>3, <2>1
  <2>3. g.at[files[s].path] = fs.at[files[s].path] /\ g.isDir[files[s].ino] = fs.isDir[files[s].ino]
    BY <1>4, <2>1, <2>2
  <2> QED BY <1>1, <1>2, <1>6, <2>1, <2>3, StillLeads
<1>8. Fits(g)
  BY <1>5, <1>7 DEF Fits
<1> QED BY <1>8 DEF g

LEMMA RemovedFits ==
  ASSUME IInv, NEW p \in Path, p # <<>>, Clear(p), Unread(Front(p))
  PROVE  Fits(Removed(fs, p))
<1> DEFINE g == Removed(fs, p)
<1>1. IsTree(fs) /\ fs \in FsType /\ cwd \in Path /\ LookDir(fs, cwd)
  BY DEF IInv, IsTree, TypeOK, Fits
<1>2. /\ g \in FsType
      /\ \A q \in Path : g.at[q] = IF q \in Below[p] THEN NoIno ELSE fs.at[q]
      /\ \A q \in Path : q \notin Below[p] /\ fs.at[q] # NoIno =>
           /\ g.isDir[fs.at[q]] = fs.isDir[fs.at[q]]
           /\ g.size[fs.at[q]] = fs.size[fs.at[q]]
      /\ \A q \in Path : q \notin Below[p] /\ LookDir(fs, q) => LookDir(g, q)
  BY <1>1, RemovedIs
<1> HIDE DEF g
<1>3. LookDir(g, cwd)
  BY <1>1, <1>2 DEF Clear
<1>4. ASSUME NEW q \in Path, q \notin Below[p], q # Front(p)
      PROVE  Kids(fs, q) \subseteq Kids(g, q)
  <2>1. \A e \in Entries[q] : e \in Path /\ e \notin Below[p]
    BY <1>4, Elsewhere
  <2> QED BY <1>2, <2>1 DEF Kids
<1>5. ASSUME NEW s \in Slot, files[s].used PROVE Leads(g, files[s])
  <2>1. /\ files[s] \in SlotType /\ files[s].path \in Path /\ files[s].ino \in Ino
        /\ fs.at[files[s].path] = files[s].ino /\ fs.at[files[s].path] # NoIno
        /\ Leads(fs, files[s])
    BY <1>5, Used DEF IInv, Fits
  <2>2. files[s].path \notin Below[p]
    BY <1>5 DEF Clear
  <2>3. files[s].next = 0 \/ Kids(fs, files[s].path) \subseteq Kids(g, files[s].path)
    BY <1>4, <1>5, <2>1, <2>2 DEF Unread
  <2>4. /\ g.at[files[s].path] = fs.at[files[s].path]
        /\ g.isDir[files[s].ino] = fs.isDir[files[s].ino]
        /\ g.size[files[s].ino] = fs.size[files[s].ino]
    BY <1>2, <2>1, <2>2
  <2> QED BY <1>1, <1>2, <2>1, <2>3, <2>4, StillLeads
<1>6. Fits(g)
  BY <1>3, <1>5 DEF Fits
<1> QED BY <1>6 DEF g

LEMMA MovedFits ==
  ASSUME IInv, NEW f, IsTree(f), Fits(f), NEW op \in Path, NEW np \in Path, np # <<>>,
         Movable(f, op, np), Clear(op), Unread(Front(op)), Unread(Front(np))
  PROVE  Fits(Moved(f, op, np))
<1> DEFINE g == Moved(f, op, np)
<1>1. f \in FsType /\ cwd \in Path /\ LookDir(f, cwd) /\ op # <<>>
  BY DEF IInv, IsTree, TypeOK, Fits, Movable
<1>2. /\ g.isDir = f.isDir /\ g.size = f.size
      /\ \A q \in Path : q \notin Below[op] /\ q \notin Below[np] => g.at[q] = f.at[q]
      /\ g \in FsType
  BY <1>1, MovedIs
<1> HIDE DEF g
<1>3. \A q \in Path : f.at[q] # NoIno => q \notin Below[np]
  BY DEF Movable
<1>4. LookDir(g, cwd)
  BY <1>1, <1>2, <1>3 DEF Clear, LookDir
<1>5. ASSUME NEW s \in Slot, files[s].used PROVE Leads(g, files[s])
  <2> DEFINE q == files[s].path
  <2>1. /\ files[s] \in SlotType /\ q \in Path /\ files[s].ino \in Ino
        /\ f.at[q] = files[s].ino /\ f.at[q] # NoIno /\ Leads(f, files[s])
    BY <1>5, Used, Inos DEF Fits, Leads
  <2>2. q \notin Below[op] /\ q \notin Below[np]
    BY <1>3, <1>5, <2>1 DEF Clear
  <2>3. CASE q = Front(op) \/ q = Front(np)
    <3>1. files[s].next = 0
      BY <1>5, <2>3 DEF Unread
    <3> QED BY <1>1, <1>2, <2>1, <2>2, <3>1, StillLeads
  <2>4. CASE q # Front(op) /\ q # Front(np)
    <3>1. \A e \in Entries[q] : e \in Path /\ e \notin Below[op] /\ e \notin Below[np]
      BY <1>1, <2>1, <2>2, <2>4, Elsewhere
    <3>2. Kids(f, q) \subseteq Kids(g, q)
      BY <1>2, <3>1 DEF Kids
    <3> QED BY <1>1, <1>2, <2>1, <2>2, <3>2, StillLeads
  <2> QED BY <2>3, <2>4
<1>6. Fits(g)
  BY <1>4, <1>5 DEF Fits
<1> QED BY <1>6 DEF g

\* A file gets another size, i being its inode.
LEMMA Resized ==
  ASSUME NEW f, IsTree(f), NEW i \in Ino, NEW z \in Nat
  PROVE  LET g == [f EXCEPT !.size[i] = z] IN
         /\ IsTree(g) /\ g.at = f.at /\ g.isDir = f.isDir
         /\ g.size[i] = z /\ \A j \in Ino : j # i => g.size[j] = f.size[j]
<1> DEFINE g == [f EXCEPT !.size[i] = z]
<1>1. f \in FsType
  BY DEF IsTree
<1>2. g.at = f.at /\ g.isDir = f.isDir /\ g.size = [f.size EXCEPT ![i] = z]
  BY <1>1 DEF FsType
<1>3. g \in FsType
  BY <1>1 DEF FsType
<1>4. g.size[i] = z /\ \A j \in Ino : j # i => g.size[j] = f.size[j]
  BY <1>1, <1>2 DEF FsType
<1> HIDE DEF g
<1>5. \A p \in Path : LookDir(g, p) <=> LookDir(f, p)
  BY <1>2 DEF LookDir
<1>6. IsTree(g)
  BY <1>2, <1>3, <1>5, Tops DEF IsTree
<1>7. /\ IsTree(g) /\ g.at = f.at /\ g.isDir = f.isDir
      /\ g.size[i] = z /\ \A j \in Ino : j # i => g.size[j] = f.size[j]
  BY <1>2, <1>4, <1>6
<1> QED BY <1>7 DEF g

-----------------------------------------------------------------------------
(* Steps *)

\* what every step does
Right ==
  /\ IInv'
  /\ ret' = "fail" => UNCHANGED fs \/ \E op, np \in Path : TargetLost(op, np)
  /\ OneGoes

\* every name that leads to something goes on leading to it
NamesStay == \A q \in Path : fs.at[q] # NoIno => fs'.at[q] = fs.at[q]

LEMMA NoneGoes ==
  ASSUME NamesStay
  PROVE  OneGoes
<1> DEFINE gone == Tree(fs, <<>>) \ Tree(fs', <<>>)
<1>1. gone = {}
  BY Tops DEF NamesStay, Tree
<1> HIDE DEF gone
<1>2. Cardinality(gone) <= 1 /\ \A p \in Path : fs.at[p] \in gone => Kids(fs, p) = {}
  BY <1>1, FS_EmptySet
<1> QED BY <1>2 DEF OneGoes, gone

LEMMA ThisGoes ==
  ASSUME IsTree(fs), NEW p \in Path, Kids(fs, p) = {},
         \A q \in Path : q # p /\ fs.at[q] # NoIno => \E r \in Path : fs'.at[r] = fs.at[q]
  PROVE  OneGoes
<1> DEFINE gone == Tree(fs, <<>>) \ Tree(fs', <<>>)
<1>1. gone \subseteq {fs.at[p]} /\ NoIno \notin gone
  BY Tops DEF Tree
<1>2. Cardinality(gone) <= 1
  <2>1. IsFiniteSet({fs.at[p]}) /\ Cardinality({fs.at[p]}) = 1
    BY FS_Singleton
  <2> HIDE DEF gone
  <2> QED BY <1>1, <2>1, FS_Subset, FS_CardinalityType
<1>3. ASSUME NEW q \in Path, fs.at[q] \in gone PROVE Kids(fs, q) = {}
  <2>1. q = p
    BY <1>1, <1>3 DEF IsTree
  <2> QED BY <2>1
<1> QED BY <1>2, <1>3 DEF OneGoes

LEMMA Stays ==
  ASSUME UNCHANGED <<fs, files, cwd>>, IInv, ret' \in {"ok", "fail"}
  PROVE  Right
<1>1. IInv'
  BY DEF IInv, TypeOK, Fits, LookDir
<1>2. OneGoes
  BY NoneGoes DEF NamesStay
<1> QED BY <1>1, <1>2 DEF Right

\* only the file system changes
LEMMA TreeStep ==
  ASSUME IInv, NEW f, IsTree(f), Fits(f), fs' = f, UNCHANGED <<files, cwd>>,
         ret' \in {"ok", "fail"}
  PROVE  IInv'
<1>1. IsTree(fs)' /\ Fits(fs)'
  BY DEF Fits, IsTree, LookDir
<1> QED BY <1>1 DEF IInv, TypeOK

\* slot s changes to d, and the file system with it
LEMMA SlotStep ==
  ASSUME IInv, NEW s \in Slot, NEW d \in SlotType, files' = [files EXCEPT ![s] = d],
         ret' \in {"ok", "fail"}, UNCHANGED cwd,
         IsTree(fs'), LookDir(fs', cwd),
         \A t \in Slot : t # s /\ files[t].used => Leads(fs', files[t]),
         d.used => Leads(fs', d), Sound(d),
         \A t \in Slot : t # s => Alone(d, files[t])
  PROVE  IInv'
<1>1. files \in [Slot -> SlotType]
  BY DEF IInv, TypeOK
<1>2. files'[s] = d /\ \A t \in Slot : t # s => files'[t] = files[t]
  BY <1>1
<1>3. TypeOK'
  BY <1>1 DEF IInv, TypeOK
<1>4. IsTree(fs)' /\ LookDir(fs, cwd)'
  BY DEF IsTree, LookDir
<1>5. \A t \in Slot : files'[t].used => Leads(fs', files'[t])
  BY <1>2
<1>6. \A t \in Slot : Sound(files'[t])
  BY <1>2 DEF IInv
<1>7. ASSUME NEW t \in Slot, NEW u \in Slot, t # u PROVE Alone(files'[t], files'[u])
  <2>1. CASE t = s
    BY <1>2, <1>7, <2>1
  <2>2. CASE u = s
    BY <1>2, <1>7, <2>2 DEF Alone
  <2>3. CASE t # s /\ u # s
    BY <1>2, <1>7, <2>3 DEF IInv
  <2> QED BY <2>1, <2>2, <2>3
<1>8. Fits(fs)'
  BY <1>4, <1>5 DEF Fits, Leads
<1> QED BY <1>3, <1>4, <1>6, <1>7, <1>8 DEF IInv, Sound, Alone

\* slot s changes to d, the rest stays
LEMMA SlotOnly ==
  ASSUME IInv, NEW s \in Slot, NEW d \in SlotType, files' = [files EXCEPT ![s] = d],
         ret' \in {"ok", "fail"}, UNCHANGED <<fs, cwd>>,
         d.used => Leads(fs, d), Sound(d),
         \A t \in Slot : t # s => Alone(d, files[t])
  PROVE  Right
<1>1. IsTree(fs') /\ LookDir(fs', cwd) /\ \A t \in Slot : files[t].used => Leads(fs', files[t])
  BY DEF IInv, Fits
<1>2. d.used => Leads(fs', d)
  OBVIOUS
<1>3. IInv'
  BY <1>1, <1>2, SlotStep
<1>4. OneGoes
  BY NoneGoes DEF NamesStay
<1> QED BY <1>3, <1>4 DEF Right

-----------------------------------------------------------------------------
(* The calls on descriptors *)

LEMMA Two ==
  ASSUME NEW a \in Nat, NEW b \in Nat
  PROVE  /\ Min({a, b}) \in {a, b} /\ Min({a, b}) <= a /\ Min({a, b}) <= b
         /\ Max({a, b}) \in {a, b}
<1>1. \E x \in {a, b} : \A y \in {a, b} : x <= y
  OBVIOUS
<1>2. Min({a, b}) \in {a, b} /\ \A y \in {a, b} : Min({a, b}) <= y
  BY <1>1 DEF Min
<1>3. \E x \in {a, b} : \A y \in {a, b} : x >= y
  OBVIOUS
<1>4. Max({a, b}) \in {a, b}
  BY <1>3 DEF Max
<1> QED BY <1>2, <1>4

LEMMA Blank ==
  /\ Unused \in SlotType /\ Unused.next = 0 /\ Unused.given = <<>> /\ Unused.lost = {}
  /\ Unused.used = FALSE /\ Unused.isDir = FALSE /\ Unused.wr = FALSE
BY Tops DEF Unused, SlotType, NoIno

LEMMA Unlisted ==
  ASSUME NEW d, d.next = 0, d.given = <<>>, d.lost = {}
  PROVE  Listing(d)
BY DEF Listing

LEMMA CloseStep ==
  ASSUME IInv, NEW s \in Slot, Close(s)
  PROVE  Right
<1>1. Sound(Unused)
  BY Blank, Unlisted DEF Sound
<1> QED BY <1>1, Blank, SlotOnly DEF Close, Alone

\* An open file has another offset.
LEMMA Repositioned ==
  ASSUME IInv, NEW s \in Slot, files[s].used, NEW pos \in Nat,
         files' = [files EXCEPT ![s].fpos = pos], UNCHANGED <<fs, cwd>>, ret' \in {"ok", "fail"}
  PROVE  Right
<1> DEFINE d == [files[s] EXCEPT !.fpos = pos]
<1>1. files[s] \in SlotType /\ files \in [Slot -> SlotType]
  BY DEF IInv, TypeOK
<1>2. /\ d \in SlotType /\ d.used /\ d.used = files[s].used /\ d.isDir = files[s].isDir
      /\ d.wr = files[s].wr /\ d.ino = files[s].ino /\ d.fsize = files[s].fsize
      /\ d.path = files[s].path /\ d.next = files[s].next
      /\ d.given = files[s].given /\ d.lost = files[s].lost
  BY <1>1 DEF SlotType
<1>3. files' = [files EXCEPT ![s] = d]
  BY <1>1
<1> HIDE DEF d
<1>4. Leads(fs, d) /\ Sound(d) /\ \A t \in Slot : t # s => Alone(d, files[t])
  BY <1>2 DEF IInv, Fits, Leads, Sound, Listing, Alone
<1> QED BY <1>2, <1>3, <1>4, SlotOnly

LEMMA ReadStep ==
  ASSUME IInv, NEW s \in Slot, NEW k \in 1 .. MaxSize, Read(s, k)
  PROVE  Right
<1>1. files[s] \in SlotType /\ files[s].fpos \in Nat /\ files[s].fsize \in Nat
  BY DEF IInv, TypeOK, SlotType
<1>2. CASE files[s].isDir
  BY <1>2, Stays DEF Read
<1>3. CASE ~ files[s].isDir
  <2> DEFINE left == files[s].fsize - files[s].fpos
             more == IF ReadAtEnd(s) THEN 0 ELSE Min({k, left})
  <2>1. more \in Nat
    <3>1. CASE ReadAtEnd(s)
      BY <3>1
    <3>2. CASE ~ ReadAtEnd(s)
      <4>1. left \in Nat /\ k \in Nat
        BY <1>1, <3>2, BoundAssumption DEF ReadAtEnd
      <4>2. Min({k, left}) \in {k, left}
        BY <4>1, Two
      <4> QED BY <3>2, <4>1, <4>2
    <3> QED BY <3>1, <3>2
  <2>2. /\ files[s].used /\ files' = [files EXCEPT ![s].fpos = files[s].fpos + more]
        /\ ret' = (IF more < 0 THEN "underflow" ELSE "ok") /\ UNCHANGED <<fs, cwd>>
    BY <1>3 DEF Read
  <2> HIDE DEF more
  <2>3. files[s].fpos + more \in Nat /\ ret' = "ok"
    BY <1>1, <2>1, <2>2
  <2> QED BY <2>2, <2>3, Repositioned
<1> QED BY <1>2, <1>3

LEMMA LseekFileStep ==
  ASSUME IInv, NEW s \in Slot, NEW whence \in {"SET", "CUR", "END"},
         NEW off \in -MaxSize .. MaxSize, LseekFile(s, whence, off)
  PROVE  Right
<1> DEFINE target == off + CASE whence = "SET" -> 0
                             [] whence = "CUR" -> files[s].fpos
                             [] whence = "END" -> files[s].fsize
<1>1. files[s].fpos \in Nat /\ files[s].fsize \in Nat
  BY DEF IInv, TypeOK, SlotType
<1>2. target \in Int
  BY <1>1, BoundAssumption
<1>3. CASE target < 0
  BY <1>3, Stays DEF LseekFile, Fails
<1>4. CASE ~ (target < 0)
  <2>1. /\ files[s].used /\ files' = [files EXCEPT ![s].fpos = target]
        /\ ret' = "ok" /\ UNCHANGED <<fs, cwd>>
    BY <1>4 DEF LseekFile
  <2> HIDE DEF target
  <2>2. target \in Nat
    BY <1>2, <1>4
  <2> QED BY <2>1, <2>2, Repositioned
<1> QED BY <1>3, <1>4

\* The iterator of a directory moves.
LEMMA Listed ==
  ASSUME IInv, NEW s \in Slot, files[s].used, files[s].isDir,
         NEW next \in Nat, NEW given \in Seq(Nat), NEW lost \in SUBSET Nat,
         next <= Cardinality(Kids(fs, files[s].path)),
         Listing([next |-> next, given |-> given, lost |-> lost]),
         files' = [files EXCEPT ![s].next = next, ![s].given = given, ![s].lost = lost],
         UNCHANGED <<fs, cwd>>, ret' \in {"ok", "fail"}
  PROVE  Right
<1> DEFINE d == [files[s] EXCEPT !.next = next, !.given = given, !.lost = lost]
<1>1. files[s] \in SlotType /\ files \in [Slot -> SlotType]
  BY DEF IInv, TypeOK
<1>2. /\ d \in SlotType /\ d.used /\ d.used = files[s].used /\ d.isDir = files[s].isDir
      /\ d.wr = files[s].wr /\ d.ino = files[s].ino /\ d.fsize = files[s].fsize
      /\ d.path = files[s].path /\ d.next = next /\ d.given = given /\ d.lost = lost
  BY <1>1 DEF SlotType
<1>3. files' = [files EXCEPT ![s] = d]
  BY <1>1
<1> HIDE DEF d
<1>4. Listing(d)
  BY <1>2 DEF Listing
<1>5. Leads(fs, d) /\ Sound(d) /\ \A t \in Slot : t # s => Alone(d, files[t])
  BY <1>2, <1>4 DEF IInv, Fits, Leads, Sound, Alone
<1> QED BY <1>2, <1>3, <1>5, SlotOnly

LEMMA LseekDirStep ==
  ASSUME IInv, NEW s \in Slot, NEW whence \in {"SET", "CUR", "END"},
         NEW off \in -MaxSize .. MaxSize, LseekDir(s, whence, off)
  PROVE  Right
<1>1. CASE off = 0 /\ whence = "SET"
  <2>1. files[s].used /\ files[s].isDir /\ files[s].path \in Path /\ fs \in FsType
    BY Used DEF LseekDir, IInv, IsTree
  <2>2. Cardinality(Kids(fs, files[s].path)) \in Nat
    BY <2>1, KidsFinite
  <2>3. /\ files' = [files EXCEPT ![s].next = 0, ![s].given = <<>>, ![s].lost = {}]
        /\ ret' = "ok" /\ UNCHANGED <<fs, cwd>>
    BY <1>1 DEF LseekDir
  <2>4. Listing([next |-> 0, given |-> <<>>, lost |-> {}])
    BY Unlisted
  <2>5. /\ 0 \in Nat /\ <<>> \in Seq(Nat) /\ {} \in SUBSET Nat
        /\ 0 <= Cardinality(Kids(fs, files[s].path))
    BY <2>2
  <2> QED BY <2>1, <2>3, <2>4, <2>5, Listed
<1>2. CASE ~ (off = 0 /\ whence = "SET")
  BY <1>2, Stays DEF LseekDir, Fails
<1> QED BY <1>1, <1>2

\* Entries are delivered from where the iterator is on.
LEMMA ListedMore ==
  ASSUME NEW next \in Nat, NEW given \in Seq(Nat), NEW lost \in SUBSET Nat, NEW k \in Nat,
         Listing([next |-> next, given |-> given, lost |-> lost])
  PROVE  LET more == given \o [i \in 1 .. k |-> next + i] IN
         /\ more \in Seq(Nat)
         /\ Listing([next |-> next + k, given |-> more, lost |-> lost])
<1> DEFINE added == [i \in 1 .. k |-> next + i]
           more == given \o added
           listed == {given[i] : i \in DOMAIN given}
<1>1. added \in Seq(Nat) /\ Len(added) = k /\ \A i \in 1 .. k : added[i] = next + i
  OBVIOUS
<1>2. Len(given) \in Nat /\ DOMAIN given = 1 .. Len(given)
  BY LenProperties
<1>3. /\ \A i, j \in DOMAIN given : i < j => given[i] < given[j]
      /\ listed \cup lost = 1 .. next /\ listed \cap lost = {}
  BY DEF Listing
<1> HIDE DEF added
<1>4. /\ more \in Seq(Nat) /\ Len(more) = Len(given) + k /\ DOMAIN more = 1 .. Len(given) + k
      /\ \A i \in 1 .. Len(given) : more[i] = given[i]
      /\ \A i \in Len(given) + 1 .. Len(given) + k : more[i] = next + (i - Len(given))
  <2>1. /\ more \in Seq(Nat) /\ Len(more) = Len(given) + k
        /\ \A i \in 1 .. Len(given) + k :
             more[i] = IF i <= Len(given) THEN given[i] ELSE added[i - Len(given)]
    BY <1>1, ConcatProperties
  <2> HIDE DEF more
  <2>2. DOMAIN more = 1 .. Len(given) + k
    BY <2>1, LenProperties
  <2>3. ASSUME NEW i \in 1 .. Len(given) PROVE more[i] = given[i]
    <3>1. i \in 1 .. Len(given) + k /\ i <= Len(given)
      BY <1>2
    <3> QED BY <2>1, <3>1
  <2>4. ASSUME NEW i \in Len(given) + 1 .. Len(given) + k PROVE more[i] = next + (i - Len(given))
    <3>1. i \in 1 .. Len(given) + k /\ ~ (i <= Len(given)) /\ i - Len(given) \in 1 .. k
      BY <1>2
    <3> QED BY <1>1, <2>1, <3>1
  <2> QED BY <2>1, <2>2, <2>3, <2>4
<1> HIDE DEF more
<1>5. \A i \in 1 .. Len(given) : given[i] \in listed /\ given[i] <= next /\ given[i] \in Nat
  BY <1>2, <1>3
<1>6. \A i, j \in DOMAIN more : i < j => more[i] < more[j]
  <2> SUFFICES ASSUME NEW i \in DOMAIN more, NEW j \in DOMAIN more, i < j
               PROVE  more[i] < more[j]
    OBVIOUS
  <2>1. CASE j \in 1 .. Len(given)
    <3>1. i \in 1 .. Len(given)
      BY <1>2, <1>4, <2>1
    <3> QED BY <1>2, <1>3, <1>4, <2>1, <3>1
  <2>2. CASE i \in 1 .. Len(given) /\ j \notin 1 .. Len(given)
    <3>1. j \in Len(given) + 1 .. Len(given) + k
      BY <1>2, <1>4, <2>2
    <3>2. more[i] = given[i] /\ more[j] = next + (j - Len(given)) /\ given[i] <= next /\ given[i] \in Nat
      BY <1>4, <1>5, <2>2, <3>1
    <3> QED BY <1>2, <3>1, <3>2
  <2>3. CASE i \notin 1 .. Len(given)
    <3>1. i \in Len(given) + 1 .. Len(given) + k /\ j \in Len(given) + 1 .. Len(given) + k
      BY <1>2, <1>4, <2>3
    <3>2. more[i] = next + (i - Len(given)) /\ more[j] = next + (j - Len(given))
      BY <1>4, <3>1
    <3> QED BY <1>2, <3>1, <3>2
  <2> QED BY <2>1, <2>2, <2>3
<1>7. {more[i] : i \in DOMAIN more} = listed \cup (next + 1 .. next + k)
  <2>1. ASSUME NEW i \in DOMAIN more PROVE more[i] \in listed \cup (next + 1 .. next + k)
    <3>1. CASE i \in 1 .. Len(given)
      BY <1>4, <1>5, <3>1
    <3>2. CASE i \in Len(given) + 1 .. Len(given) + k
      <4>1. more[i] = next + (i - Len(given)) /\ i - Len(given) \in 1 .. k
        BY <1>2, <1>4, <3>2
      <4> QED BY <4>1
    <3> QED BY <1>2, <1>4, <3>1, <3>2
  <2>2. ASSUME NEW x \in listed PROVE \E i \in DOMAIN more : more[i] = x
    <3>1. PICK i \in 1 .. Len(given) : x = given[i]
      BY <1>2, <2>2
    <3>2. i \in DOMAIN more /\ more[i] = x
      BY <1>2, <1>4, <3>1
    <3> QED BY <3>2
  <2>3. ASSUME NEW x \in next + 1 .. next + k PROVE \E i \in DOMAIN more : more[i] = x
    <3> DEFINE i == Len(given) + (x - next)
    <3>1. i \in Len(given) + 1 .. Len(given) + k /\ next + (i - Len(given)) = x
      BY <1>2, <2>3
    <3> HIDE DEF i
    <3>2. i \in 1 .. Len(given) + k
      BY <1>2, <3>1
    <3>3. i \in DOMAIN more /\ more[i] = x
      BY <1>4, <3>1, <3>2
    <3> QED BY <3>3
  <2> QED BY <2>1, <2>2, <2>3
<1>8. 1 .. next + k = (1 .. next) \cup (next + 1 .. next + k)
      /\ (1 .. next) \cap (next + 1 .. next + k) = {}
  OBVIOUS
<1>9. Listing([next |-> next + k, given |-> more, lost |-> lost])
  <2> HIDE DEF listed
  <2>1. (listed \cup (next + 1 .. next + k)) \cup lost = 1 .. next + k
    BY <1>3, <1>8
  <2>2. (listed \cup (next + 1 .. next + k)) \cap lost = {}
    BY <1>3, <1>8
  <2> QED BY <1>6, <1>7, <2>1, <2>2 DEF Listing
<1> QED BY <1>4, <1>9 DEF more, added

LEMMA GetdentsStep ==
  ASSUME IInv, NEW s \in Slot, NEW room \in 0 .. MaxSize, Getdents(s, room)
  PROVE  Right
<1>1. CASE Fails
  BY <1>1, Stays DEF Fails
<1>2. CASE ~ Fails
  <2> DEFINE given == files[s].given
             next == files[s].next
             lost == files[s].lost
             n == Cardinality(Kids(fs, files[s].path))
             fits == Min({n - next, room})
  <2>1. /\ files[s].used /\ files[s].isDir /\ files[s] \in SlotType /\ files[s].path \in Path
        /\ fs \in FsType
    BY <1>2, Used DEF Getdents, IInv, IsTree
  <2>2. /\ given \in Seq(Nat) /\ next \in Nat /\ lost \in SUBSET Nat /\ n \in Nat /\ next <= n
        /\ Listing(files[s]) /\ room \in Nat /\ files \in [Slot -> SlotType]
    BY <2>1, KidsFinite, BoundAssumption DEF IInv, TypeOK, Fits, Leads, Sound, SlotType
  <2>3. Listing([next |-> next, given |-> given, lost |-> lost])
    BY <2>2 DEF Listing
  <2>4. CASE /\ next < n
             /\ files' = [files EXCEPT ![s].next = next + 1, ![s].lost = lost \cup {next + 1}]
             /\ ret' = "fail" /\ UNCHANGED <<fs, cwd>>
    <3>1. files' = [files EXCEPT ![s].next = next + 1, ![s].given = given,
                                 ![s].lost = lost \cup {next + 1}]
      BY <2>1, <2>2, <2>4 DEF SlotType
    <3>2. 1 .. next + 1 = (1 .. next) \cup {next + 1} /\ next + 1 \notin 1 .. next
      BY <2>2
    <3> HIDE DEF given, next, lost, n
    <3>3. Listing([next |-> next + 1, given |-> given, lost |-> lost \cup {next + 1}])
      BY <2>3, <3>2 DEF Listing
    <3>4. next + 1 \in Nat /\ lost \cup {next + 1} \in SUBSET Nat /\ next + 1 <= n
      BY <2>2, <2>4
    <3> QED BY <2>1, <2>2, <2>4, <3>1, <3>3, <3>4, Listed DEF n
  <2>5. CASE /\ files' = [files EXCEPT ![s].next = PutBack(next, n, room),
                                      ![s].given = given \o [i \in 1 .. fits |-> next + i]]
             /\ ret' = "ok" /\ UNCHANGED <<fs, cwd>>
    <3> DEFINE more == given \o [i \in 1 .. fits |-> next + i]
    <3>1. fits \in Nat /\ PutBack(next, n, room) = next + fits /\ next + fits <= n
      <4> HIDE DEF n, next
      <4>1. n - next \in Nat /\ next + room \in Nat
        BY <2>2
      <4>2. fits \in {n - next, room} /\ fits <= n - next /\ fits <= room
        BY <2>2, <4>1, Two
      <4>3. PutBack(next, n, room) \in {n, next + room} /\ PutBack(next, n, room) <= n
            /\ PutBack(next, n, room) <= next + room
        BY <2>2, <4>1, Two DEF PutBack
      <4> DEFINE left == PutBack(next, n, room)
      <4> HIDE DEF fits, left
      <4>4. left \in {n, next + room} /\ left <= n /\ left <= next + room
        BY <4>3 DEF left
      <4>5. next \in Nat /\ n \in Nat /\ room \in Nat /\ next <= n
        BY <2>2
      <4>6. fits \in Nat /\ left = next + fits /\ next + fits <= n
        BY <4>2, <4>4, <4>5
      <4> QED BY <4>6 DEF left
    <3>2. files' = [files EXCEPT ![s].next = next + fits, ![s].given = more, ![s].lost = lost]
      BY <2>1, <2>2, <2>5, <3>1 DEF SlotType
    <3> HIDE DEF given, next, lost, n, fits
    <3>3. more \in Seq(Nat) /\ Listing([next |-> next + fits, given |-> more, lost |-> lost])
      BY <2>2, <2>3, <3>1, ListedMore
    <3> HIDE DEF more
    <3>4. next + fits \in Nat
      BY <2>2, <3>1
    <3> QED BY <2>1, <2>2, <2>5, <3>1, <3>2, <3>3, <3>4, Listed DEF n
  <2> QED BY <1>2, <2>4, <2>5 DEF Getdents
<1> QED BY <1>1, <1>2

\* A written file has another size and offset.
LEMMA Rewritten ==
  ASSUME IInv, NEW s \in Slot, files[s].used, files[s].wr, NEW pos \in Nat, NEW z \in Nat,
         fs' = [fs EXCEPT !.size[files[s].ino] = z],
         files' = [files EXCEPT ![s].fpos = pos, ![s].fsize = z], UNCHANGED cwd,
         ret' = "ok"
  PROVE  Right
<1> DEFINE d == [files[s] EXCEPT !.fpos = pos, !.fsize = z]
           i == files[s].ino
<1>1. files[s] \in SlotType /\ files \in [Slot -> SlotType] /\ IsTree(fs)
      /\ fs \in FsType /\ i \in Ino
  BY Used DEF IInv, TypeOK, IsTree
<1>2. /\ d \in SlotType /\ d.used /\ d.used = files[s].used /\ d.isDir = files[s].isDir
      /\ d.wr = files[s].wr /\ d.ino = files[s].ino /\ d.fsize = z
      /\ d.path = files[s].path /\ d.next = files[s].next
      /\ d.given = files[s].given /\ d.lost = files[s].lost
  BY <1>1 DEF SlotType
<1>3. files' = [files EXCEPT ![s] = d]
  BY <1>1
<1>4. /\ IsTree(fs') /\ fs'.at = fs.at /\ fs'.isDir = fs.isDir
      /\ fs'.size[i] = z /\ \A j \in Ino : j # i => fs'.size[j] = fs.size[j]
  BY <1>1, Resized
<1> HIDE DEF d, i
<1>5. \A p \in Path : Kids(fs', p) = Kids(fs, p) /\ (LookDir(fs', p) <=> LookDir(fs, p))
  BY <1>4 DEF Kids, LookDir
<1>6. Leads(fs', d) /\ Sound(d) /\ \A t \in Slot : t # s => Alone(d, files[t])
  <2>1. Leads(fs, files[s]) /\ ~ files[s].isDir
    BY DEF IInv, Fits, Sound
  <2>2. Leads(fs', d)
    BY <1>2, <1>4, <2>1 DEF Leads, i
  <2> QED BY <1>2, <2>2 DEF IInv, Sound, Listing, Alone
<1>7. ASSUME NEW t \in Slot, t # s, files[t].used PROVE Leads(fs', files[t])
  <2>1. /\ files[t] \in SlotType /\ files[t].path \in Path /\ files[t].ino \in Ino
        /\ Leads(fs, files[t])
    BY <1>7, Used DEF IInv, Fits
  <2>2. files[t].ino # i
    BY <1>7 DEF IInv, Alone, i
  <2> QED BY <1>4, <1>5, <2>1, <2>2 DEF Leads
<1>8. LookDir(fs', cwd)
  BY <1>5 DEF IInv, Fits, TypeOK
<1>9. IInv'
  BY <1>2, <1>3, <1>4, <1>6, <1>7, <1>8, SlotStep
<1>10. OneGoes
  BY <1>4, NoneGoes DEF NamesStay
<1> QED BY <1>9, <1>10 DEF Right

LEMMA WriteStep ==
  ASSUME IInv, NEW s \in Slot, NEW k \in 1 .. MaxSize, Write(s, k)
  PROVE  Right
<1>1. CASE files[s].isDir \/ ~ files[s].wr
  BY <1>1, Stays DEF Write, Fails
<1>2. CASE ~ files[s].isDir /\ files[s].wr
  <2> DEFINE end == files[s].fpos + k
             z == Max({end, files[s].fsize})
  <2>1. end \in Nat /\ files[s].fsize \in Nat
    BY BoundAssumption DEF IInv, TypeOK, SlotType
  <2>2. z \in Nat
    BY <2>1, Two
  <2>3. /\ files[s].used
        /\ fs' = [fs EXCEPT !.size[files[s].ino] = z]
        /\ files' = [files EXCEPT ![s].fpos = end, ![s].fsize = z]
        /\ ret' = "ok" /\ UNCHANGED cwd
    BY <1>2 DEF Write
  <2> HIDE DEF end, z
  <2> QED BY <1>2, <2>1, <2>2, <2>3, Rewritten
<1> QED BY <1>1, <1>2

LEMMA TruncateStep ==
  ASSUME IInv, NEW s \in Slot, NEW z \in 0 .. MaxSize, Truncate(s, z)
  PROVE  Right
<1>1. CASE files[s].isDir \/ ~ files[s].wr
  BY <1>1, Stays DEF Truncate, Fails
<1>2. CASE ~ files[s].isDir /\ files[s].wr
  <2>1. files[s].fpos \in Nat /\ z \in Nat /\ files \in [Slot -> SlotType]
    BY BoundAssumption DEF IInv, TypeOK, SlotType
  <2>2. PICK pos \in {files[s].fpos, Min({z, files[s].fpos})} :
          files' = [files EXCEPT ![s].fsize = z, ![s].fpos = pos]
    BY <1>2 DEF Truncate
  <2>3. pos \in Nat
    BY <2>1, <2>2, Two
  <2>4. files' = [files EXCEPT ![s].fpos = pos, ![s].fsize = z]
    BY <2>1, <2>2 DEF SlotType
  <2>5. /\ files[s].used
        /\ fs' = [fs EXCEPT !.size[files[s].ino] = z]
        /\ ret' = "ok" /\ UNCHANGED cwd
    BY <1>2 DEF Truncate
  <2> QED BY <1>2, <2>1, <2>3, <2>4, <2>5, Rewritten
<1> QED BY <1>1, <1>2

LEMMA OpenDirStep ==
  ASSUME IInv, NEW in, NEW p \in Path, NEW flags \in Modes, NEW s \in Slot,
         OpenDir(in, p, flags, s)
  PROVE  Right
<1>1. CASE "wr" \in flags
  BY <1>1, Stays DEF OpenDir, Fails
<1>2. CASE "wr" \notin flags
  <2> DEFINE d == [Unused EXCEPT !.used = TRUE, !.isDir = TRUE, !.ino = fs.at[p], !.path = p]
  <2>1. LookDir(fs, p) /\ IsTree(fs) /\ fs \in FsType /\ fs.at[p] \in Ino
    BY DEF OpenDir, IInv, IsTree, LookDir, FsType
  <2>2. /\ d \in SlotType /\ d.used /\ d.isDir /\ ~ d.wr /\ d.ino = fs.at[p] /\ d.path = p
        /\ d.next = 0 /\ d.given = <<>> /\ d.lost = {}
    BY <2>1, Blank DEF SlotType
  <2>3. files' = [files EXCEPT ![s] = d] /\ ret' = "ok" /\ UNCHANGED <<fs, cwd>>
    BY <1>2 DEF OpenDir, Opened
  <2> HIDE DEF d
  <2>4. Leads(fs, d)
    <3>1. Cardinality(Kids(fs, p)) \in Nat
      BY <2>1, <2>2, KidsFinite
    <3>2. fs.isDir[d.ino] = TRUE /\ d.isDir = TRUE
      BY <2>1, <2>2 DEF LookDir, FsType, SlotType
    <3>3. fs.at[d.path] = d.ino /\ d.next <= Cardinality(Kids(fs, d.path))
      BY <2>2, <3>1
    <3> QED BY <3>2, <3>3 DEF Leads
  <2>5. Sound(d)
    BY <2>1, <2>2, Inos, Unlisted DEF Sound
  <2>6. ASSUME NEW t \in Slot PROVE Alone(d, files[t])
    <3>1. SUFFICES ASSUME files[t].used, files[t].ino = fs.at[p] PROVE ~ files[t].wr
      BY <2>2 DEF Alone
    <3>2. files[t] \in SlotType /\ fs.isDir[files[t].ino] = files[t].isDir
          /\ (files[t].isDir => ~ files[t].wr)
      BY <3>1, Used DEF IInv, Fits, Leads, Sound
    <3> QED BY <2>1, <3>1, <3>2 DEF LookDir
  <2> QED BY <2>2, <2>3, <2>4, <2>5, <2>6, SlotOnly
<1> QED BY <1>1, <1>2

\* An open file on inode i of f, which gets the size z.
OpensAs(f, p, s, wr, z, pos) ==
  /\ fs' = [f EXCEPT !.size[f.at[p]] = z]
  /\ files' = [files EXCEPT ![s] =
       [Unused EXCEPT !.used = TRUE, !.wr = wr, !.ino = f.at[p], !.fsize = z,
                      !.fpos = pos, !.path = p]]
  /\ ret' = "ok" /\ UNCHANGED cwd

\* whoever else has i open reads it, as this descriptor does
OthersRead(i, wr, z, size) ==
  \A t \in Slot : files[t].used /\ files[t].ino = i => ~ wr /\ ~ files[t].wr /\ z = size

LEMMA FileOpened ==
  ASSUME IInv, NEW f, IsTree(f), Fits(f), NEW p \in Path, f.at[p] # NoIno, ~ LookDir(f, p),
         NEW s \in Slot, ~ files[s].used, NEW wr \in BOOLEAN, NEW z \in Nat, NEW pos \in Nat,
         OpensAs(f, p, s, wr, z, pos), OthersRead(f.at[p], wr, z, f.size[f.at[p]])
  PROVE  IInv' /\ fs'.at = f.at
<1> USE DEF OpensAs, OthersRead
<1> DEFINE i == f.at[p]
           d == [Unused EXCEPT !.used = TRUE, !.wr = wr, !.ino = i, !.fsize = z,
                               !.fpos = pos, !.path = p]
<1>1. f \in FsType /\ i \in Ino
  BY DEF IsTree, FsType
<1>2. /\ d \in SlotType /\ d.used /\ d.isDir = FALSE /\ d.wr = wr /\ d.ino = i /\ d.fsize = z
      /\ d.path = p /\ d.next = 0 /\ d.given = <<>> /\ d.lost = {}
  BY <1>1, Blank DEF SlotType
<1>3. /\ IsTree(fs') /\ fs'.at = f.at /\ fs'.isDir = f.isDir
      /\ fs'.size[i] = z /\ \A j \in Ino : j # i => fs'.size[j] = f.size[j]
  BY <1>1, Resized
<1>4. files' = [files EXCEPT ![s] = d]
  OBVIOUS
<1> HIDE DEF d
<1>5. Leads(fs', d)
  <2>1. f.isDir[i] = FALSE
    BY <1>1 DEF LookDir, FsType
  <2> QED BY <1>2, <1>3, <2>1 DEF Leads
<1>6. Sound(d)
  BY <1>1, <1>2, Inos, Unlisted DEF Sound
<1>7. \A t \in Slot : Alone(d, files[t])
  BY <1>2 DEF Alone
<1>8. \A q \in Path : Kids(fs', q) = Kids(f, q) /\ (LookDir(fs', q) <=> LookDir(f, q))
  BY <1>3 DEF Kids, LookDir
<1>9. ASSUME NEW t \in Slot, t # s, files[t].used PROVE Leads(fs', files[t])
  <2>1. /\ files[t] \in SlotType /\ files[t].path \in Path /\ files[t].ino \in Ino
        /\ Leads(f, files[t])
    BY <1>9, Used DEF IInv, Fits
  <2>2. fs'.size[files[t].ino] = f.size[files[t].ino]
    BY <1>3, <1>9, <2>1
  <2> QED BY <1>3, <1>8, <2>1, <2>2 DEF Leads
<1>10. LookDir(fs', cwd)
  BY <1>8 DEF IInv, Fits, TypeOK
<1>11. IInv'
  BY <1>2, <1>3, <1>4, <1>5, <1>6, <1>7, <1>9, <1>10, SlotStep
<1> QED BY <1>3, <1>11

LEMMA OpenFileStep ==
  ASSUME IInv, NEW in, NEW p \in Path, NEW flags \in Modes, NEW s \in Slot, ~ files[s].used,
         OpenFile(in, p, flags, s)
  PROVE  Right
<1> DEFINE new == fs.at[p] = NoIno
           f == IF new THEN Created(fs, p, FALSE) ELSE fs
           wr == "wr" \in flags
           z == IF "trunc" \in flags THEN 0 ELSE f.size[f.at[p]]
           pos == IF "append" \in flags THEN z ELSE 0
<1>1. CASE new /\ ~ ("creat" \in flags /\ CanCreate(fs, p))
  BY <1>1, Stays DEF OpenFile, Fails
<1>2. CASE ~ (new /\ ~ ("creat" \in flags /\ CanCreate(fs, p)))
  <2>1. /\ OpensAs(f, p, s, wr, z, pos)
        /\ IF new THEN FreeInos(fs) # {} ELSE MayOpen(fs.at[p], wr)
    BY <1>2 DEF OpenFile, Opened, OpensAs
  <2>2. ~ LookDir(fs, p) /\ IsTree(fs) /\ fs \in FsType /\ Fits(fs) /\ ("trunc" \in flags => wr)
    BY DEF OpenFile, IInv, IsTree, Modes
  \* the tree with the file in it
  <2>3. /\ IsTree(f) /\ Fits(f) /\ f.at[p] \in Ino /\ ~ LookDir(f, p)
        /\ \A q \in Path : fs.at[q] # NoIno => f.at[q] = fs.at[q]
        /\ \A t \in Slot : files[t].used /\ files[t].ino = f.at[p] => ~ new
    <3>1. CASE new
      <4>1. CanCreate(fs, p) /\ FreeInos(fs) # {} /\ f = Created(fs, p, FALSE)
        BY <1>2, <2>1, <3>1
      <4>2. IsTree(f) /\ Fits(f)
        BY <2>2, <4>1, CreatedIsTree, CreatedFits
      <4>3. /\ NewIno(fs) \in Ino /\ \A q \in Path : fs.at[q] # NewIno(fs)
            /\ f.at = [fs.at EXCEPT ![p] = NewIno(fs)]
            /\ f.isDir = [fs.isDir EXCEPT ![NewIno(fs)] = FALSE]
        <5> HIDE DEF f
        <5> QED BY <2>2, <4>1, CreatedIs
      <4> HIDE DEF f
      <4>4. /\ f.at[p] = NewIno(fs) /\ f.isDir[NewIno(fs)] = FALSE
            /\ \A q \in Path : q # p => f.at[q] = fs.at[q]
        BY <2>2, <4>3 DEF FsType
      <4>5. ~ LookDir(f, p)
        BY <4>4 DEF LookDir
      <4>6. \A t \in Slot : files[t].used => files[t].ino # f.at[p]
        BY <4>3, <4>4, Used
      <4> QED BY <3>1, <4>2, <4>3, <4>4, <4>5, <4>6
    <3>2. CASE ~ new
      BY <2>2, <3>2 DEF FsType
    <3> QED BY <3>1, <3>2
  <2>4. f.at[p] # NoIno /\ z \in Nat
    BY <2>3, Inos DEF IsTree, FsType
  <2>5. pos \in Nat /\ wr \in BOOLEAN
    <3>1. wr \in BOOLEAN
      OBVIOUS
    <3> HIDE DEF z, wr
    <3> QED BY <2>4, <3>1
  <2>6. OthersRead(f.at[p], wr, z, f.size[f.at[p]])
    BY <2>1, <2>2, <2>3 DEF MayOpen, OthersRead
  <2> HIDE DEF f, z, pos, wr, new
  <2>7. IInv' /\ fs'.at = f.at
    BY <2>1, <2>3, <2>4, <2>5, <2>6, FileOpened
  <2>8. OneGoes
    <3>1. NamesStay
      BY <2>3, <2>7 DEF NamesStay
    <3> QED BY <3>1, NoneGoes
  <2>9. ret' = "ok"
    BY <2>1 DEF OpensAs
  <2> QED BY <2>7, <2>8, <2>9 DEF Right
<1> QED BY <1>1, <1>2

LEMMA OpenStep ==
  ASSUME IInv, NEW in, NEW flags \in Modes, Open(in, flags)
  PROVE  Right
<1>1. CASE Fails
  BY <1>1, Stays DEF Fails
<1>2. ASSUME NEW p \in Path, FreeSlots # {},
             \/ OpenDir(in, p, flags, Min(FreeSlots))
             \/ OpenFile(in, p, flags, Min(FreeSlots))
      PROVE  Right
  <2>1. FreeSlots \subseteq Slot /\ Slot \subseteq Nat
    BY OpenAssumption DEF FreeSlots, Slot
  <2>2. Min(FreeSlots) \in FreeSlots
    BY <1>2, <2>1, Least
  <2>3. Min(FreeSlots) \in Slot /\ ~ files[Min(FreeSlots)].used
    BY <2>2 DEF FreeSlots
  <2> QED BY <1>2, <2>3, OpenDirStep, OpenFileStep
<1> QED BY <1>1, <1>2 DEF Open

-----------------------------------------------------------------------------
(* The calls on names *)

LEMMA MkdirStep ==
  ASSUME IInv, NEW in, Mkdir(in)
  PROVE  Right
<1>1. CASE Fails
  BY <1>1, Stays DEF Fails
<1>2. ASSUME NEW p \in Path, CanCreate(fs, p), FreeInos(fs) # {}, Does(Created(fs, p, TRUE))
      PROVE  Right
  <2>1. IsTree(fs) /\ fs \in FsType
    BY DEF IInv, IsTree
  <2>2. IsTree(Created(fs, p, TRUE)) /\ Fits(Created(fs, p, TRUE))
    BY <1>2, <2>1, CreatedIsTree, CreatedFits
  <2>3. IInv' /\ ret' = "ok"
    BY <1>2, <2>2, TreeStep DEF Does
  <2>4. fs'.at = [fs.at EXCEPT ![p] = NewIno(fs)]
    BY <1>2, <2>1, CreatedIs DEF Does
  <2>5. NamesStay
    BY <1>2, <2>1, <2>4 DEF CanCreate, FsType, NamesStay
  <2>6. OneGoes
    BY <2>5, NoneGoes
  <2> QED BY <2>3, <2>6 DEF Right
<1> QED BY <1>1, <1>2 DEF Mkdir

\* A name that may go, with nothing below it, is removed.
LEMMA Goes ==
  ASSUME IInv, NEW p \in Path, MayGo(p), Kids(fs, p) = {} \/ ~ LookDir(fs, p),
         Does(Removed(fs, p))
  PROVE  Right
<1>1. p # <<>> /\ Clear(p) /\ Unread(Front(p)) /\ IsTree(fs)
  BY MayGoIs DEF IInv
<1>2. IsTree(Removed(fs, p)) /\ Fits(Removed(fs, p))
  BY <1>1, RemovedIsTree, RemovedFits
<1>3. IInv' /\ ret' = "ok"
  BY <1>2, TreeStep DEF Does
<1>4. Kids(fs, p) = {} /\ \A q \in Below[p] : q # p => fs.at[q] = NoIno
  BY <1>1, EmptyTree
<1>5. \A q \in Path : fs'.at[q] = IF q \in Below[p] THEN NoIno ELSE fs.at[q]
  BY <1>1, RemovedIs DEF Does
<1>6. \A q \in Path : q # p /\ fs.at[q] # NoIno => fs'.at[q] = fs.at[q]
  BY <1>4, <1>5
<1>7. OneGoes
  BY <1>1, <1>4, <1>6, ThisGoes
<1> QED BY <1>3, <1>7 DEF Right

LEMMA UnlinkStep ==
  ASSUME IInv, NEW in, Unlink(in)
  PROVE  Right
<1>1. CASE Fails
  BY <1>1, Stays DEF Fails
<1>2. ASSUME NEW p \in Path, ~ LookDir(fs, p), MayGo(p), Does(Removed(fs, p))
      PROVE  Right
  BY <1>2, Goes
<1> QED BY <1>1, <1>2 DEF Unlink

LEMMA RmdirStep ==
  ASSUME IInv, NEW in, Rmdir(in)
  PROVE  Right
<1>1. CASE Fails
  BY <1>1, Stays DEF Fails
<1>2. ASSUME NEW p \in Path, IsEmpty(p), MayGo(p), Does(Removed(fs, p))
      PROVE  Right
  BY <1>2, Goes DEF IsEmpty
<1> QED BY <1>1, <1>2 DEF Rmdir, RmdirRefuses

LEMMA ChdirStep ==
  ASSUME IInv, NEW p \in Path, LookDir(fs, p), cwd' = p, ret' = "ok", UNCHANGED <<fs, files>>
  PROVE  Right
<1>1. IInv'
  BY DEF IInv, TypeOK, Fits, LookDir
<1>2. OneGoes
  BY NoneGoes DEF NamesStay
<1> QED BY <1>1, <1>2 DEF Right

LEMMA FchdirStep ==
  ASSUME IInv, NEW s \in Slot, Fchdir(s)
  PROVE  Right
<1>1. CASE Fails
  BY <1>1, Stays DEF Fails
<1>2. CASE files[s].used /\ files[s].isDir
  <2>1. files[s].path \in Path /\ LookDir(fs, files[s].path)
    BY <1>2, Used DEF IInv, Fits, Leads, LookDir
  <2> QED BY <1>2, <2>1, ChdirStep DEF Fchdir
<1> QED BY <1>1, <1>2 DEF Fchdir

\* rename() has tested all that ext4_frename() could refuse: what is left is a
\* tree, whether lwext4 fails then or not, and it loses nothing but the target.
LEMMA RenameMoves ==
  ASSUME IInv, NEW op \in Path, NEW np \in Path, fs.at[op] # NoIno, op # np,
         ~ Refuses(op, np), MayMove(op, np),
         NEW f, f = IF fs.at[np] = NoIno THEN fs ELSE Removed(fs, np),
         \/ ret' = "fail" /\ fs' = f /\ UNCHANGED <<files, cwd>>
         \/ CanMove(f, op, np) /\ Does(Moved(f, op, np))
  PROVE  Right
<1>1. IsTree(fs) /\ fs \in FsType /\ Fits(fs) /\ LookDir(fs, <<>>)
  BY DEF IInv, IsTree
<1>2. op # <<>> /\ Clear(op) /\ Unread(Front(op)) /\ Unread(Front(np)) /\ np \notin Below[op]
  BY MayGoIs, NotListedIs DEF MayMove
\* nothing is below the target but itself
<1>3. /\ \A q \in Below[np] : q # np => fs.at[q] = NoIno
      /\ Kids(fs, np) = {}
  <2>1. Kids(fs, np) = {} \/ ~ LookDir(fs, np)
    BY DEF Refuses, IsEmpty
  <2> QED BY <1>1, <2>1, EmptyTree
<1>4. op \notin Below[np]
  BY <1>3
<1>5. np # <<>>
  BY <1>4, Tops
<1>6. /\ IsTree(f) /\ Fits(f)
      /\ \A q \in Path : q # np => f.at[q] = fs.at[q]
      /\ \A q \in Below[np] : f.at[q] = NoIno
      /\ fs.at[np] # NoIno => LookDir(f, Front(np))
  <2>1. CASE fs.at[np] = NoIno
    BY <1>1, <1>3, <2>1
  <2>2. CASE fs.at[np] # NoIno
    <3>1. f = Removed(fs, np) /\ MayGo(np)
      BY <2>2 DEF MayMove
    <3>2. Clear(np) /\ IsTree(f) /\ Fits(f)
      BY <1>1, <1>2, <1>5, <3>1, MayGoIs, RemovedIsTree, RemovedFits
    <3>3. /\ \A q \in Path : f.at[q] = IF q \in Below[np] THEN NoIno ELSE fs.at[q]
          /\ \A q \in Path : q \notin Below[np] /\ LookDir(fs, q) => LookDir(f, q)
      BY <1>1, <3>1, RemovedIs
    <3>4. \A q \in Path : q # np => f.at[q] = fs.at[q]
      BY <1>3, <3>3
    <3>5. /\ Front(np) \in Path /\ np \in Below[Front(np)] /\ Front(np) # np
          /\ Front(np) \notin Below[np]
      BY <1>5, Parents
    <3>6. LookDir(fs, Front(np))
      BY <1>1, <2>2, <3>5 DEF IsTree
    <3>7. \A q \in Below[np] : f.at[q] = NoIno
      BY <3>3, Tops
    <3> QED BY <3>2, <3>3, <3>4, <3>5, <3>6, <3>7
  <2> QED BY <2>1, <2>2
<1>7. f.at[op] # NoIno /\ f.at[np] = NoIno
  BY <1>6, Tops
<1>8. CASE ret' = "fail" /\ fs' = f /\ UNCHANGED <<files, cwd>>
  <2>1. CASE fs.at[np] = NoIno
    BY <1>8, <2>1, Stays
  <2>2. CASE fs.at[np] # NoIno
    <3>1. IInv'
      BY <1>6, <1>8, TreeStep
    <3>2. OneGoes
      BY <1>1, <1>3, <1>6, <1>8, ThisGoes
    <3>3. fs'.at = [fs.at EXCEPT ![np] = NoIno]
      <4>1. fs'.at \in [Path -> Ino \cup {NoIno}] /\ fs.at \in [Path -> Ino \cup {NoIno}]
        BY <1>1, <1>6, <1>8 DEF IsTree, FsType
      <4> QED BY <1>6, <1>7, <1>8, <4>1
    <3>4. LookDir(fs, np) <=> LookDir(fs, op)
      BY <2>2 DEF Refuses
    <3>5. TargetLost(op, np)
      BY <1>3, <2>2, <3>3, <3>4 DEF TargetLost
    <3> QED BY <3>1, <3>2, <3>5 DEF Right
  <2> QED BY <2>1, <2>2
<1>9. CASE CanMove(f, op, np) /\ Does(Moved(f, op, np))
  <2>1. Does(Moved(f, op, np)) /\ LookDir(f, Front(np))
    BY <1>9 DEF CanMove, CanCreate
  <2>2. \A q \in Below[op] : f.at[q] # NoIno => Target(op, np, q) \in Path
    BY <1>2, <1>6, Tops DEF MayMove
  <2>3. Movable(f, op, np)
    BY <1>2, <1>4, <1>6, <2>1, <2>2 DEF Movable
  <2>4. IsTree(Moved(f, op, np)) /\ Fits(Moved(f, op, np))
    BY <1>2, <1>5, <1>6, <2>3, MovedIsTree, MovedFits
  <2>5. IInv' /\ ret' = "ok"
    BY <2>1, <2>4, TreeStep DEF Does
  <2>6. /\ \A q \in Below[np] : fs'.at[q] =
             IF Target(np, op, q) \in Path THEN f.at[Target(np, op, q)] ELSE NoIno
        /\ \A q \in Path : q \notin Below[op] /\ q \notin Below[np] => fs'.at[q] = f.at[q]
    BY <1>6, <2>1, <2>3, MovedIs DEF Does, IsTree
  <2>7. ASSUME NEW q \in Path, q # np, fs.at[q] # NoIno
        PROVE  \E r \in Path : fs'.at[r] = fs.at[q]
    <3>1. f.at[q] = fs.at[q] /\ q \notin Below[np]
      BY <1>6, <2>7
    <3>2. CASE q \notin Below[op]
      BY <2>6, <2>7, <3>1, <3>2
    <3>3. CASE q \in Below[op]
      <4> DEFINE r == Target(op, np, q)
      <4>1. r \in Path
        BY <2>2, <2>7, <3>1, <3>3
      <4>2. r \in Below[np] /\ Target(np, op, r) = q
        BY <3>3, <4>1, Targets
      <4> HIDE DEF r
      <4>3. fs'.at[r] = f.at[q]
        BY <2>6, <2>7, <4>2
      <4> QED BY <3>1, <4>1, <4>3
    <3> QED BY <3>2, <3>3
  <2>8. OneGoes
    BY <1>1, <1>3, <2>7, ThisGoes
  <2> QED BY <2>5, <2>8 DEF Right
<1> QED BY <1>8, <1>9

LEMMA RenameStep ==
  ASSUME IInv, NEW from, NEW to, Rename(from, to)
  PROVE  Right
<1>1. CASE Fails
  BY <1>1, Stays DEF Fails
<1>2. CASE Does(fs)
  BY <1>2, Stays DEF Does
<1>3. ASSUME NEW op \in Path, NEW np \in Path, fs.at[op] # NoIno, op # np,
             ~ Refuses(op, np), MayMove(op, np),
             LET f == IF fs.at[np] = NoIno THEN fs ELSE Removed(fs, np) IN
             \/ ret' = "fail" /\ fs' = f /\ UNCHANGED <<files, cwd>>
             \/ CanMove(f, op, np) /\ Does(Moved(f, op, np))
      PROVE  Right
  BY <1>3, RenameMoves
<1> QED BY <1>1, <1>2, <1>3 DEF Rename

-----------------------------------------------------------------------------
(* Theorems *)

LEMMA NamedStep ==
  ASSUME IInv, Named
  PROVE  Right
<1>1. PICK in \in In :
        \/ \E flags \in Modes : Open(in, flags)
        \/ Unlink(in) \/ Mkdir(in) \/ Rmdir(in) \/ Chdir(in)
        \/ \E to \in In : Rename(in, to)
  BY DEF Named
<1>2. CASE Chdir(in)
  <2>1. CASE Fails
    BY <2>1, Stays DEF Fails
  <2>2. ASSUME NEW p \in Path, LookDir(fs, p), cwd' = p, ret' = "ok", UNCHANGED <<fs, files>>
        PROVE  Right
    BY <2>2, ChdirStep
  <2> QED BY <1>2, <2>1, <2>2 DEF Chdir
<1> QED BY <1>1, <1>2, OpenStep, UnlinkStep, MkdirStep, RmdirStep, RenameStep

LEMMA OnDescriptorStep ==
  ASSUME IInv, OnDescriptor
  PROVE  Right
<1>1. PICK s \in Slot :
        \/ Close(s) \/ Fchdir(s)
        \/ \E n \in 1 .. MaxSize : Read(s, n) \/ Write(s, n)
        \/ \E room \in 0 .. MaxSize : Getdents(s, room)
        \/ \E z \in 0 .. MaxSize : Truncate(s, z)
        \/ \E whence \in {"SET", "CUR", "END"}, off \in -MaxSize .. MaxSize :
             LseekDir(s, whence, off) \/ LseekFile(s, whence, off)
  BY DEF OnDescriptor
<1> QED BY <1>1, CloseStep, FchdirStep, ReadStep, WriteStep, GetdentsStep, TruncateStep,
           LseekDirStep, LseekFileStep

LEMMA Starts == Init => IInv
<1> SUFFICES ASSUME Init PROVE IInv
  OBVIOUS
<1>1. /\ fs.at = [p \in Path |-> IF p = <<>> THEN Root ELSE NoIno]
      /\ fs.isDir = [i \in Ino |-> i = Root]
      /\ fs.size = [i \in Ino |-> 0]
      /\ fs = [at |-> fs.at, isDir |-> fs.isDir, size |-> fs.size]
      /\ files = [s \in Slot |-> Unused] /\ cwd = <<>> /\ ret = "ok"
  BY DEF Init
<1>2. fs \in FsType
  <2>1. fs.at \in [Path -> Ino \cup {NoIno}]
    BY <1>1, Inos
  <2>2. fs.isDir \in [Ino -> BOOLEAN] /\ fs.size \in [Ino -> Nat]
    BY <1>1
  <2> QED BY <1>1, <2>1, <2>2 DEF FsType
<1>3. LookDir(fs, <<>>)
  <2>1. fs.at[<<>>] = Root /\ Root # NoIno
    BY <1>1, Tops, Inos
  <2>2. fs.isDir[Root] = (Root = Root)
    BY <1>1, Inos
  <2> QED BY <2>1, <2>2 DEF LookDir
<1>4. \A p \in Path : fs.at[p] # NoIno => p = <<>>
  BY <1>1
<1>5. IsTree(fs)
  BY <1>2, <1>3, <1>4, Tops DEF IsTree
<1>6. TypeOK
  BY <1>1, Blank, Tops DEF TypeOK
<1>7. \A s \in Slot : files[s] = Unused /\ ~ files[s].used
  BY <1>1, Blank
<1>8. Fits(fs)
  BY <1>1, <1>3, <1>7 DEF Fits
<1>9. \A s \in Slot : Sound(files[s])
  BY <1>7, Blank, Unlisted DEF Sound
<1>10. \A s, t \in Slot : s # t => Alone(files[s], files[t])
  BY <1>7 DEF Alone
<1> QED BY <1>5, <1>6, <1>8, <1>9, <1>10 DEF IInv

LEMMA Steps == IInv /\ [Next]_vars => Right
<1>1. ASSUME IInv, Next PROVE Right
  BY <1>1, NamedStep, OnDescriptorStep DEF Next
<1>2. ASSUME IInv, UNCHANGED vars PROVE Right
  BY <1>2, Stays DEF vars, IInv, TypeOK
<1> QED BY <1>1, <1>2

\* The inductive invariant: the file system is a tree, each open slot leads
\* where it says, no file has a second descriptor if one writes it, and the
\* working directory is there.
THEOREM Inductive == Spec => []IInv
<1>1. IInv /\ [Next]_vars => IInv'
  BY Steps DEF Right
<1> QED BY Starts, <1>1, PTL DEF Spec

\* Whatever has been opened, renamed, removed and changed into, an open file
\* is where the path it remembers leads and has the size it believes, the
\* working directory is there, and no read has reached the subtraction in
\* ext4_fread() with the offset beyond the size.
THEOREM DescriptorsRight == Spec => []DescriptorsAgree
<1>1. IInv => DescriptorsAgree
  BY Used DEF IInv, TypeOK, Fits, Leads, DescriptorsAgree
<1> QED BY <1>1, Inductive, PTL

\* getdents() gives no entry twice and each in its turn, and passes over none
\* but the one on which each -EINVAL was returned, whatever the buffers.
THEOREM EntriesOnce == Spec => []ListedOnce
<1>1. IInv => ListedOnce
  BY DEF IInv, TypeOK, SlotType, Fits, Leads, Sound, Listing, ListedOnce
<1> QED BY <1>1, Inductive, PTL

\* A call that fails changes no name; a rename() that lwext4 fails after the
\* removal of the target has lost that target, which it could have replaced,
\* and nothing else.
THEOREM FailureKeeps == Spec => FailureKeepsFiles
<1>1. IInv /\ [Next]_vars =>
        [ret' = "fail" => UNCHANGED fs \/ \E op, np \in Path : TargetLost(op, np)]_vars
  BY Steps DEF Right, vars
<1> QED BY <1>1, Inductive, PTL DEF Spec, FailureKeepsFiles

\* The recursive removal below rmdir() and rename() takes one inode at most,
\* and none with entries.
THEOREM LosesOne == Spec => NothingElseLost
<1>1. IInv /\ [Next]_vars => [OneGoes]_fs
  BY Steps DEF Right
<1> QED BY <1>1, Inductive, PTL DEF Spec, NothingElseLost

=============================================================================
