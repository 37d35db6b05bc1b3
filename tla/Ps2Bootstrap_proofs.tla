------------------------- MODULE Ps2Bootstrap_proofs -------------------------
(***************************************************************************)
(* The classifier implements HostClass, what the supervisor decided agrees *)
(* with what the injector types and the status LED shows, and Stage 0      *)
(* starts from its image: for every confidence threshold, queue depth and  *)
(* image, and any sequence of frames, raw requests and resets.             *)
(*                                                                         *)
(* The first part is about what is typed of the image: for every image     *)
(* that fits a segment and every number of bytes on a line that fits the   *)
(* command, the scan codes typed for the script are read back as the       *)
(* script, its words as the image's addresses and bytes, and a host that   *)
(* obeys them all has the image in its memory.                             *)
(***************************************************************************)
EXTENDS Ps2Bootstrap, FoldTheorems, SequenceTheorems, TLAPS

-----------------------------------------------------------------------------
(* What FlattenSeq builds up, a sequence at a time.                        *)
Flattens(f, seqs) ==
    f = [i \in 1 .. Len(seqs) |-> IF i = 1 THEN seqs[i] ELSE f[i - 1] \o seqs[i]]

\* Its recursion has a solution, from the last sequence down.
LEMMA FlattenRecursion ==
    ASSUME NEW S, NEW seqs \in Seq(Seq(S))
    PROVE  \E f \in [1 .. Len(seqs) -> Seq(S)] : Flattens(f, seqs)
<1> DEFINE n == Len(seqs)
<1> DEFINE Solved(k) == \E f \in [1 .. k -> Seq(S)] : \A i \in 1 .. k :
               f[i] = IF i = 1 THEN seqs[i] ELSE f[i - 1] \o seqs[i]
<1> DEFINE T == {k \in Nat : k <= n => Solved(k)}
<1> HIDE DEF Solved
<1>t. \A k \in Nat : k \in T <=> (k <= n => Solved(k))
  OBVIOUS
<1> HIDE DEF T
<1>0. n \in Nat /\ \A i \in 1 .. n : seqs[i] \in Seq(S)
  OBVIOUS
<1>1. 0 \in T
  <2> DEFINE f == [i \in 1 .. 0 |-> <<>>]
  <2>1. f \in [1 .. 0 -> Seq(S)] /\ \A i \in 1 .. 0 : FALSE
    OBVIOUS
  <2>2. Solved(0)
    BY <2>1 DEF Solved
  <2> QED BY <2>2, <1>t
<1>2. ASSUME NEW k \in Nat, k \in T PROVE k + 1 \in T
  <2> SUFFICES ASSUME k + 1 <= n PROVE Solved(k + 1)
    BY <1>t
  <2>0. Solved(k)
    BY <1>2, <1>t
  <2>1. PICK f \in [1 .. k -> Seq(S)] : \A i \in 1 .. k :
            f[i] = IF i = 1 THEN seqs[i] ELSE f[i - 1] \o seqs[i]
    BY <2>0 DEF Solved
  <2> DEFINE v == IF k = 0 THEN seqs[1] ELSE f[k] \o seqs[k + 1]
  <2> DEFINE h == [i \in 1 .. k + 1 |-> IF i = k + 1 THEN v ELSE f[i]]
  <2>2. seqs[k + 1] \in Seq(S) /\ (k # 0 => f[k] \in Seq(S))
    BY <1>0
  <2>3. v \in Seq(S)
    BY <2>2, ConcatProperties
  <2> HIDE DEF v
  <2>4. h \in [1 .. k + 1 -> Seq(S)]
    BY <2>3
  <2>5. ASSUME NEW i \in 1 .. k + 1
        PROVE  h[i] = IF i = 1 THEN seqs[i] ELSE h[i - 1] \o seqs[i]
    <3>1. CASE i = k + 1
      <4>1. h[i] = v
        BY <3>1
      <4>2. k # 0 => h[i - 1] = f[k]
        BY <3>1
      <4> HIDE DEF h
      <4> QED BY <4>1, <4>2, <3>1 DEF v
    <3>2. CASE i # k + 1
      <4>1. h[i] = f[i] /\ i \in 1 .. k /\ (i # 1 => h[i - 1] = f[i - 1])
        BY <3>2
      <4> HIDE DEF h
      <4> QED BY <4>1, <2>1
    <3> QED BY <3>1, <3>2
  <2> QED BY <2>4, <2>5 DEF Solved
<1> HIDE DEF T
<1>3. n \in T
  BY <1>0, <1>1, <1>2, SetInduction
<1>4. Solved(n)
  BY <1>3, <1>0, <1>t
<1>5. PICK f \in [1 .. n -> Seq(S)] : \A i \in 1 .. n :
          f[i] = IF i = 1 THEN seqs[i] ELSE f[i - 1] \o seqs[i]
  BY <1>4 DEF Solved
<1>6. Flattens(f, seqs)
  BY <1>5 DEF Flattens
<1> QED BY <1>6

-----------------------------------------------------------------------------
(* The characters of a script, and what write! leaves of its pieces.       *)
TypedChars == {Digits[d] : d \in 1 .. 16} \cup {"SPACE", "CR", "g", "u"}

\* FoldLeft(Written, ...) is the last of a sequence of commands, one a piece.
LEMMA WrittenSteps ==
    ASSUME NEW pieces \in Seq(Seq(TypedChars))
    PROVE  \E r \in [0 .. Len(pieces) -> Seq(TypedChars)] :
               /\ r[0] = <<>>
               /\ \A k \in 1 .. Len(pieces) : r[k] = Written(r[k - 1], pieces[k])
               /\ r[Len(pieces)] = FoldLeft(Written, <<>>, pieces)
<1> DEFINE n == Len(pieces)
<1> DEFINE A == Seq(TypedChars)
<1> DEFINE Solves(f) ==
        f = [s \in SUBSET DOMAIN pieces |->
                IF s = {} THEN <<>> ELSE Written(f[s \ {Max(s)}], pieces[Max(s)])]
<1> DEFINE F == CHOOSE f : Solves(f)
<1>1. FoldLeft(Written, <<>>, pieces) = F[DOMAIN pieces]
  BY Zenon DEF FoldLeft, MapThenFoldSet
<1>2. n \in Nat /\ DOMAIN pieces = 1 .. n /\ \A k \in 1 .. n : pieces[k] \in A
  OBVIOUS
<1>3. \A c \in A, p \in A : Written(c, p) \in A
  BY ConcatProperties DEF Written
<1> DEFINE H == [p \in (1 .. n) \X A |-> Written(p[2], pieces[p[1]])]
<1>4. H \in [(1 .. n) \X A -> A]
  BY <1>2, <1>3
<1>5. <<>> \in A
  OBVIOUS
<1> HIDE DEF A, n
<1>7. \A s \in SUBSET (1 .. n) : s # {} => Max(s) \in 1 .. n /\ s \ {Max(s)} \in SUBSET (1 .. n)
  BY <1>2, MaxExists
<1>8. \E f : Solves(f)
  <2> HIDE DEF H
  <2>1. PICK g \in [SUBSET (1 .. n) -> A] : Folds(g, <<>>, n, H)
    <3>1. n \in Nat
      BY <1>2
    <3> QED BY <3>1, <1>4, <1>5, FoldRecursion, Zenon
  <2>2. ASSUME NEW s \in SUBSET (1 .. n), s # {}
        PROVE  H[<<Max(s), g[s \ {Max(s)}]>>] = Written(g[s \ {Max(s)}], pieces[Max(s)])
    <3>1. Max(s) \in 1 .. n /\ g[s \ {Max(s)}] \in A
      BY <2>2, <1>7
    <3> QED BY <3>1 DEF H
  <2>3. Solves(g)
    BY <2>1, <2>2, <1>2 DEF Folds
  <2> QED BY <2>3
<1>9. Solves(F)
  BY <1>8
<1> HIDE DEF F
<1> DEFINE r == [k \in 0 .. n |-> F[1 .. k]]
<1>10. r[0] = <<>>
  <2>1. 1 .. 0 = {} /\ {} \in SUBSET DOMAIN pieces
    OBVIOUS
  <2> QED BY <2>1, <1>9, <1>2
<1>11. ASSUME NEW k \in 1 .. n PROVE r[k] = Written(r[k - 1], pieces[k])
  <2>1. 1 .. k \in SUBSET DOMAIN pieces /\ 1 .. k # {}
    <3>1. 1 .. k \subseteq 1 .. n /\ k \in 1 .. k
      BY <1>2
    <3> QED BY <3>1, <1>2, Zenon
  <2>2. Max(1 .. k) = k
    <3>1. k \in 1 .. k /\ k \in Nat /\ 1 .. k \subseteq 0 .. k
      BY <1>2
    <3> QED BY <3>1, MaxIs
  <2>3. (1 .. k) \ {k} = 1 .. k - 1
    BY <1>2
  <2>4. F[1 .. k] = Written(F[1 .. k - 1], pieces[k])
    BY <2>1, <2>2, <2>3, <1>9
  <2> QED BY <2>4, <1>2
<1>12. r[n] = F[DOMAIN pieces]
  BY <1>2
<1>13. \A k \in 0 .. n : r[k] \in A
  <2>1. \A k \in 1 .. n : r[k - 1] \in A => r[k] \in A
    BY <1>11, <1>3, <1>2
  <2> HIDE DEF r
  <2> QED BY <2>1, <1>10, <1>5, <1>2, HoldsAlong
<1>14. r \in [0 .. n -> A]
  BY <1>13
<1> HIDE DEF r
<1> QED BY <1>1, <1>10, <1>11, <1>12, <1>14 DEF A, n

-----------------------------------------------------------------------------
(* The rows of the scan code tables the characters of a script use.        *)
\* No character and no code has two rows.
LEMMA RowsUnique2 ==
    ASSUME NEW row \in Set2Table, NEW other \in Set2Table,
           row[1] = other[1] \/ row[2] = other[2]
    PROVE  row = other
  BY SMTT(60) DEF Set2Table

LEMMA RowsUnique1 ==
    ASSUME NEW row \in Set1Table, NEW other \in Set1Table,
           row[1] = other[1] \/ row[2] = other[2]
    PROVE  row = other
  BY SMTT(60) DEF Set1Table

LEMMA TypedIs == TypedChars = {"0", "1", "2", "3", "4", "5", "6", "7", "8", "9", "a", "b", "c", "d",
                          "e", "f", "SPACE", "CR", "g", "u"}
  BY DEF TypedChars, Digits

\* A character of a script has a row in either table, and its code is a make.
LEMMA HasRow2 ==
    ASSUME NEW c \in TypedChars
    PROVE  \E row \in Set2Table : row[1] = c /\ row[2] \in 1 .. 127
  BY TypedIs, SMTT(60) DEF Set2Table

LEMMA HasRow1 ==
    ASSUME NEW c \in TypedChars
    PROVE  \E row \in Set1Table : row[1] = c /\ row[2] \in 1 .. 127
  BY TypedIs, SMTT(60) DEF Set1Table

\* r holds what the first k of n sequences append up to.
Appends(r, seqs, n) ==
    /\ r[0] = <<>>
    /\ \A k \in 1 .. n : r[k] = r[k - 1] \o seqs[k]
    /\ r[n] = FlattenSeq(seqs)

LEMMA FlattenSteps ==
    ASSUME NEW S, NEW seqs \in Seq(Seq(S)), NEW n, Len(seqs) = n
    PROVE  \E r \in [0 .. n -> Seq(S)] : Appends(r, seqs, n)
<1> DEFINE F == CHOOSE f : Flattens(f, seqs)
<1>0. n \in Nat /\ \A i \in 1 .. n : seqs[i] \in Seq(S)
  OBVIOUS
<1>1. CASE n = 0
  <2> DEFINE r == [k \in 0 .. 0 |-> <<>>]
  <2>1. FlattenSeq(seqs) = seqs /\ seqs = <<>>
    BY <1>1 DEF FlattenSeq
  <2>2. r \in [0 .. n -> Seq(S)] /\ r[0] = <<>> /\ r[n] = <<>>
    BY <1>1
  <2> HIDE DEF r
  <2>3. Appends(r, seqs, n)
    BY <2>1, <2>2, <1>1 DEF Appends
  <2> QED BY <2>2, <2>3
<1>2. CASE n # 0
  <2>1. FlattenSeq(seqs) = F[n]
    BY <1>2, Zenon DEF FlattenSeq, Flattens
  <2>2. Flattens(F, seqs)
    BY FlattenRecursion, Zenon
  <2> HIDE DEF F
  <2> DEFINE r == [k \in 0 .. n |-> IF k = 0 THEN <<>> ELSE F[k]]
  <2>3. r[0] = <<>> /\ r[n] = F[n]
    BY <1>0, <1>2
  <2>4. ASSUME NEW k \in 1 .. n PROVE r[k] = r[k - 1] \o seqs[k]
    <3>1. r[k] = F[k] /\ (k = 1 => r[k - 1] = <<>>) /\ (k # 1 => r[k - 1] = F[k - 1])
      BY <1>0
    <3>2. F[k] = IF k = 1 THEN seqs[k] ELSE F[k - 1] \o seqs[k]
      BY <2>2 DEF Flattens
    <3>3. <<>> \o seqs[k] = seqs[k]
      BY <1>0, ConcatEmptySeq
    <3> HIDE DEF r
    <3> QED BY <3>1, <3>2, <3>3
  <2>5. \A k \in 0 .. n : r[k] \in Seq(S)
    <3>1. ASSUME NEW k \in 1 .. n, r[k - 1] \in Seq(S) PROVE r[k] \in Seq(S)
      <4>1. r[k] = r[k - 1] \o seqs[k] /\ seqs[k] \in Seq(S)
        BY <2>4, <1>0
      <4> HIDE DEF r
      <4> QED BY <3>1, <4>1, ConcatProperties
    <3>2. r[0] \in Seq(S)
      BY <2>3
    <3> HIDE DEF r
    <3> QED BY <3>1, <3>2, <1>0, HoldsAlong
  <2>6. r \in [0 .. n -> Seq(S)]
    BY <2>5
  <2> HIDE DEF r
  <2>7. Appends(r, seqs, n)
    BY <2>1, <2>3, <2>4 DEF Appends
  <2> QED BY <2>6, <2>7
<1> QED BY <1>1, <1>2

\* The keys of a character, AT and XT.
LEMMA Keys2 ==
    ASSUME NEW c \in TypedChars, NEW class, class # "Xt"
    PROVE  \E code \in 1 .. 127 :
               TypeChar(class, c) = <<code, 240, code>> /\ Char(Set2Table, code) = c
<1>1. PICK row \in Set2Table : row[1] = c /\ row[2] \in 1 .. 127
  BY HasRow2
<1>2. AsciiToSet2(c) = row[2]
  <2>1. \A other \in Set2Table : other[1] = c => other = row
    BY <1>1, RowsUnique2
  <2>2. (CHOOSE other \in Set2Table : other[1] = c) = row
    BY <1>1, <2>1
  <2> QED BY <1>1, <2>2 DEF AsciiToSet2, Lookup
<1>3. Char(Set2Table, row[2]) = c
  <2>1. \A other \in Set2Table : other[2] = row[2] => other = row
    BY <1>1, RowsUnique2
  <2>2. (CHOOSE other \in Set2Table : other[2] = row[2]) = row
    BY <1>1, <2>1
  <2> QED BY <1>1, <2>2 DEF Char
<1>4. TypeChar(class, c) = <<row[2], 240, row[2]>>
  <2>1. row[2] # 0
    BY <1>1
  <2> QED BY <2>1, <1>2, Zenon DEF TypeChar, TypeScancodeAt
<1> QED BY <1>1, <1>3, <1>4

LEMMA Keys1 ==
    ASSUME NEW c \in TypedChars
    PROVE  \E code \in 1 .. 127 :
               TypeChar("Xt", c) = <<code, code + 128>> /\ Char(Set1Table, code) = c
<1>1. PICK row \in Set1Table : row[1] = c /\ row[2] \in 1 .. 127
  BY HasRow1
<1>2. AsciiToSet1(c) = row[2]
  <2>1. \A other \in Set1Table : other[1] = c => other = row
    BY <1>1, RowsUnique1
  <2>2. (CHOOSE other \in Set1Table : other[1] = c) = row
    BY <1>1, <2>1
  <2> QED BY <1>1, <2>2 DEF AsciiToSet1, Lookup
<1>3. Char(Set1Table, row[2]) = c
  <2>1. \A other \in Set1Table : other[2] = row[2] => other = row
    BY <1>1, RowsUnique1
  <2>2. (CHOOSE other \in Set1Table : other[2] = row[2]) = row
    BY <1>1, <2>1
  <2> QED BY <1>1, <2>2 DEF Char
<1>4. TypeChar("Xt", c) = <<row[2], row[2] + 128>>
  <2>1. row[2] # 0 /\ TypeScancodeXt(row[2]) = <<row[2], row[2] + 128>>
    BY <1>1 DEF TypeScancodeXt
  <2> QED BY <2>1, <1>2, Zenon DEF TypeChar
<1> QED BY <1>1, <1>3, <1>4

-----------------------------------------------------------------------------
(* The keys of a line, and the characters a host reads of them: the line.  *)
\* A sequence behind another: where its elements come to lie.
LEMMA Joined ==
    ASSUME NEW S, NEW s \in Seq(S), NEW t \in Seq(S), NEW u, u = s \o t
    PROVE  /\ u \in Seq(S) /\ Len(u) = Len(s) + Len(t)
           /\ \A i \in 1 .. Len(s) : u[i] = s[i]
           /\ \A i \in 1 .. Len(t) : u[Len(s) + i] = t[i]
<1>1. /\ u \in Seq(S) /\ Len(u) = Len(s) + Len(t)
      /\ \A i \in 1 .. Len(s) + Len(t) : u[i] = IF i <= Len(s) THEN s[i] ELSE t[i - Len(s)]
  BY ConcatProperties
<1>2. Len(s) \in Nat /\ Len(t) \in Nat
  OBVIOUS
<1>3. \A i \in 1 .. Len(s) : u[i] = s[i]
  BY <1>1, <1>2
<1>4. ASSUME NEW i \in 1 .. Len(t) PROVE u[Len(s) + i] = t[i]
  <2>1. Len(s) + i \in 1 .. Len(s) + Len(t) /\ ~(Len(s) + i <= Len(s)) /\ (Len(s) + i) - Len(s) = i
    BY <1>2
  <2> QED BY <2>1, <1>1
<1> QED BY <1>1, <1>3, <1>4

LEMMA ThreeKeys ==
    ASSUME NEW code \in Nat, NEW t, t = <<code, 240, code>>
    PROVE  t \in Seq(Nat) /\ Len(t) = 3 /\ t[1] = code /\ t[2] = 240 /\ t[3] = code
  OBVIOUS

\* Where the keys of the k-th character of a line lie: three each on AT, ...
LEMMA TypedAt ==
    ASSUME NEW class, class # "Xt", NEW line \in Seq(TypedChars)
    PROVE  LET keys == TypeAscii(class, line)
           IN /\ keys \in Seq(Nat) /\ Len(keys) = 3 * Len(line)
              /\ \A j \in 1 .. Len(line) :
                     /\ keys[3 * j - 2] \in 1 .. 127 /\ keys[3 * j - 1] = 240
                     /\ keys[3 * j] = keys[3 * j - 2]
                     /\ Char(Set2Table, keys[3 * j - 2]) = line[j]
<1> DEFINE n == Len(line)
<1> DEFINE seqs == [i \in DOMAIN line |-> TypeChar(class, line[i])]
<1>0. n \in Nat /\ DOMAIN line = 1 .. n /\ \A j \in 1 .. n : line[j] \in TypedChars
  OBVIOUS
<1>1. \A j \in 1 .. n : \E code \in 1 .. 127 :
          seqs[j] = <<code, 240, code>> /\ Char(Set2Table, code) = line[j]
  <2> SUFFICES ASSUME NEW j \in 1 .. n
               PROVE  \E code \in 1 .. 127 : seqs[j] = <<code, 240, code>> /\ Char(Set2Table, code) = line[j]
    OBVIOUS
  <2>0. line[j] \in TypedChars
    BY <1>0
  <2>1. seqs[j] = TypeChar(class, line[j])
    BY <1>0
  <2>2. \E code \in 1 .. 127 : TypeChar(class, line[j]) = <<code, 240, code>> /\ Char(Set2Table, code) = line[j]
    BY <2>0, Keys2, Zenon
  <2> HIDE DEF seqs
  <2> QED BY <2>1, <2>2
<1>2. seqs = [i \in 1 .. n |-> seqs[i]]
  BY <1>0
<1> HIDE DEF seqs
<1>3. \A j \in 1 .. n : seqs[j] \in Seq(Nat) /\ Len(seqs[j]) = 3
  <2> TAKE j \in 1 .. n
  <2>1. PICK code \in 1 .. 127 : seqs[j] = <<code, 240, code>>
    BY <1>1
  <2>2. code \in Nat
    OBVIOUS
  <2> QED BY <2>1, <2>2, ThreeKeys
<1>4. seqs \in Seq(Seq(Nat)) /\ Len(seqs) = n
  BY <1>0, <1>2, <1>3
<1>5a. PICK r \in [0 .. n -> Seq(Nat)] : Appends(r, seqs, n)
  BY <1>4, FlattenSteps, Zenon
<1>5. /\ r \in [0 .. n -> Seq(Nat)] /\ r[0] = <<>>
      /\ \A k \in 1 .. n : r[k] = r[k - 1] \o seqs[k]
      /\ r[n] = FlattenSeq(seqs)
  BY <1>5a, Zenon DEF Appends
<1> DEFINE P(k) == /\ Len(r[k]) = 3 * k
                   /\ \A j \in 1 .. k :
                          /\ r[k][3 * j - 2] \in 1 .. 127 /\ r[k][3 * j - 1] = 240
                          /\ r[k][3 * j] = r[k][3 * j - 2]
                          /\ Char(Set2Table, r[k][3 * j - 2]) = line[j]
<1> DEFINE T == {k \in Nat : k <= n => P(k)}
<1>6. 0 \in T
  BY <1>5
<1>7. ASSUME NEW k \in Nat, k \in T PROVE k + 1 \in T
  <2> SUFFICES ASSUME k + 1 <= n PROVE P(k + 1)
    OBVIOUS
  <2>1. P(k)
    BY <1>7
  <2> DEFINE old == r[k]
  <2> DEFINE new == r[k + 1]
  <2>2. k + 1 \in 1 .. n /\ k \in 0 .. n /\ (k + 1) - 1 = k
    BY <1>0
  <2>3. PICK code \in 1 .. 127 : seqs[k + 1] = <<code, 240, code>> /\ Char(Set2Table, code) = line[k + 1]
    BY <2>2, <1>1
  <2> DEFINE t == seqs[k + 1]
  <2>4. new = old \o t /\ old \in Seq(Nat)
    BY <2>2, <1>5
  <2>t. t \in Seq(Nat) /\ Len(t) = 3 /\ t[1] = code /\ t[2] = 240 /\ t[3] = code
    <3>1. t = <<code, 240, code>>
      BY <2>3, Zenon
    <3> HIDE DEF t, seqs, P, T
    <3>2. code \in Nat
      OBVIOUS
    <3> QED BY <3>1, <3>2, ThreeKeys, Zenon
  <2>5. Len(old) = 3 * k
    BY <2>1
  <2> HIDE DEF old, new, t
  <2>j1. t \in Seq(Nat)
    BY <2>t
  <2>j2. Len(new) = Len(old) + Len(t)
    BY <2>4, <2>j1, Joined
  <2>j3. \A i \in 1 .. Len(old) : new[i] = old[i]
    BY <2>4, <2>j1, Joined
  <2>j4. \A i \in 1 .. Len(t) : new[Len(old) + i] = t[i]
    BY <2>4, <2>j1, Joined
  <2>6. Len(new) = 3 * k + 3 /\ \A i \in 1 .. 3 * k : new[i] = old[i]
    BY <2>j2, <2>j3, <2>5, <2>t
  <2>7. new[3 * k + 1] = code /\ new[3 * k + 2] = 240 /\ new[3 * k + 3] = code
    BY <2>j4, <2>5, <2>t
  <2>8. ASSUME NEW j \in 1 .. k + 1
        PROVE  /\ new[3 * j - 2] \in 1 .. 127 /\ new[3 * j - 1] = 240
               /\ new[3 * j] = new[3 * j - 2]
               /\ Char(Set2Table, new[3 * j - 2]) = line[j]
    <3>1. CASE j = k + 1
      <4>1. 3 * j - 2 = 3 * k + 1 /\ 3 * j - 1 = 3 * k + 2 /\ 3 * j = 3 * k + 3
        BY <3>1
      <4>2. new[3 * j - 2] = code /\ new[3 * j - 1] = 240 /\ new[3 * j] = code
        BY <4>1, <2>7
      <4> QED BY <4>2, <2>3, <3>1
    <3>2. CASE j # k + 1
      <4>1. j \in 1 .. k /\ 3 * j - 2 \in 1 .. 3 * k /\ 3 * j - 1 \in 1 .. 3 * k /\ 3 * j \in 1 .. 3 * k
        BY <3>2
      <4>2. /\ old[3 * j - 2] \in 1 .. 127 /\ old[3 * j - 1] = 240
            /\ old[3 * j] = old[3 * j - 2]
            /\ Char(Set2Table, old[3 * j - 2]) = line[j]
        BY <4>1, <2>1 DEF old
      <4>3. /\ new[3 * j - 2] = old[3 * j - 2] /\ new[3 * j - 1] = old[3 * j - 1]
            /\ new[3 * j] = old[3 * j]
        BY <4>1, <2>6
      <4> QED BY <4>2, <4>3
    <3> QED BY <3>1, <3>2
  <2> QED BY <2>6, <2>8 DEF new
<1> HIDE DEF T
<1>8. P(n)
  <2>1. n \in T
    BY <1>0, <1>6, <1>7, SetInduction
  <2> QED BY <2>1 DEF T
<1>9. TypeAscii(class, line) = r[n] /\ r[n] \in Seq(Nat)
  BY <1>5, <1>0 DEF TypeAscii, seqs
<1> QED BY <1>8, <1>9

LEMMA TwoKeys ==
    ASSUME NEW code \in Nat, NEW t, t = <<code, code + 128>>
    PROVE  t \in Seq(Nat) /\ Len(t) = 2 /\ t[1] = code /\ t[2] = code + 128
  OBVIOUS

\* ... two on XT.
LEMMA TypedXt ==
    ASSUME NEW line \in Seq(TypedChars)
    PROVE  LET keys == TypeAscii("Xt", line)
           IN /\ keys \in Seq(Nat) /\ Len(keys) = 2 * Len(line)
              /\ \A j \in 1 .. Len(line) :
                     /\ keys[2 * j - 1] \in 1 .. 127 /\ keys[2 * j] = keys[2 * j - 1] + 128
                     /\ Char(Set1Table, keys[2 * j - 1]) = line[j]
<1> DEFINE n == Len(line)
<1> DEFINE seqs == [i \in DOMAIN line |-> TypeChar("Xt", line[i])]
<1>0. n \in Nat /\ DOMAIN line = 1 .. n /\ \A j \in 1 .. n : line[j] \in TypedChars
  OBVIOUS
<1>1. \A j \in 1 .. n : \E code \in 1 .. 127 :
          seqs[j] = <<code, code + 128>> /\ Char(Set1Table, code) = line[j]
  <2> SUFFICES ASSUME NEW j \in 1 .. n
               PROVE  \E code \in 1 .. 127 : seqs[j] = <<code, code + 128>> /\ Char(Set1Table, code) = line[j]
    OBVIOUS
  <2>0. line[j] \in TypedChars
    BY <1>0
  <2>1. seqs[j] = TypeChar("Xt", line[j])
    BY <1>0
  <2>2. \E code \in 1 .. 127 : TypeChar("Xt", line[j]) = <<code, code + 128>> /\ Char(Set1Table, code) = line[j]
    BY <2>0, Keys1, Zenon
  <2> HIDE DEF seqs
  <2> QED BY <2>1, <2>2
<1>2. seqs = [i \in 1 .. n |-> seqs[i]]
  BY <1>0
<1> HIDE DEF seqs
<1>3. \A j \in 1 .. n : seqs[j] \in Seq(Nat) /\ Len(seqs[j]) = 2
  <2> TAKE j \in 1 .. n
  <2>1. PICK code \in 1 .. 127 : seqs[j] = <<code, code + 128>>
    BY <1>1
  <2>2. code \in Nat
    OBVIOUS
  <2> QED BY <2>1, <2>2, TwoKeys
<1>4. seqs \in Seq(Seq(Nat)) /\ Len(seqs) = n
  BY <1>0, <1>2, <1>3
<1>5a. PICK r \in [0 .. n -> Seq(Nat)] : Appends(r, seqs, n)
  BY <1>4, FlattenSteps, Zenon
<1>5. /\ r \in [0 .. n -> Seq(Nat)] /\ r[0] = <<>>
      /\ \A k \in 1 .. n : r[k] = r[k - 1] \o seqs[k]
      /\ r[n] = FlattenSeq(seqs)
  BY <1>5a, Zenon DEF Appends
<1> DEFINE P(k) == /\ Len(r[k]) = 2 * k
                   /\ \A j \in 1 .. k :
                          /\ r[k][2 * j - 1] \in 1 .. 127 /\ r[k][2 * j] = r[k][2 * j - 1] + 128
                          /\ Char(Set1Table, r[k][2 * j - 1]) = line[j]
<1> DEFINE T == {k \in Nat : k <= n => P(k)}
<1>6. 0 \in T
  BY <1>5
<1>7. ASSUME NEW k \in Nat, k \in T PROVE k + 1 \in T
  <2> SUFFICES ASSUME k + 1 <= n PROVE P(k + 1)
    OBVIOUS
  <2>1. P(k)
    BY <1>7
  <2> DEFINE old == r[k]
  <2> DEFINE new == r[k + 1]
  <2>2. k + 1 \in 1 .. n /\ k \in 0 .. n /\ (k + 1) - 1 = k
    BY <1>0
  <2>3. PICK code \in 1 .. 127 : seqs[k + 1] = <<code, code + 128>> /\ Char(Set1Table, code) = line[k + 1]
    BY <2>2, <1>1
  <2> DEFINE t == seqs[k + 1]
  <2>4. new = old \o t /\ old \in Seq(Nat)
    BY <2>2, <1>5
  <2>t. t \in Seq(Nat) /\ Len(t) = 2 /\ t[1] = code /\ t[2] = code + 128
    <3>1. t = <<code, code + 128>>
      BY <2>3, Zenon
    <3> HIDE DEF t, seqs, P, T
    <3>2. code \in Nat
      OBVIOUS
    <3> QED BY <3>1, <3>2, TwoKeys, Zenon
  <2>5. Len(old) = 2 * k
    BY <2>1
  <2> HIDE DEF old, new, t
  <2>j1. t \in Seq(Nat)
    BY <2>t
  <2>j2. Len(new) = Len(old) + Len(t)
    BY <2>4, <2>j1, Joined
  <2>j3. \A i \in 1 .. Len(old) : new[i] = old[i]
    BY <2>4, <2>j1, Joined
  <2>j4. \A i \in 1 .. Len(t) : new[Len(old) + i] = t[i]
    BY <2>4, <2>j1, Joined
  <2>6. Len(new) = 2 * k + 2 /\ \A i \in 1 .. 2 * k : new[i] = old[i]
    BY <2>j2, <2>j3, <2>5, <2>t
  <2>7. new[2 * k + 1] = code /\ new[2 * k + 2] = code + 128
    BY <2>j4, <2>5, <2>t
  <2>8. ASSUME NEW j \in 1 .. k + 1
        PROVE  /\ new[2 * j - 1] \in 1 .. 127 /\ new[2 * j] = new[2 * j - 1] + 128
               /\ Char(Set1Table, new[2 * j - 1]) = line[j]
    <3>1. CASE j = k + 1
      <4>1. 2 * j - 1 = 2 * k + 1 /\ 2 * j = 2 * k + 2
        BY <3>1
      <4>2. new[2 * j - 1] = code /\ new[2 * j] = code + 128
        BY <4>1, <2>7
      <4> QED BY <4>2, <2>3, <3>1
    <3>2. CASE j # k + 1
      <4>1. j \in 1 .. k /\ 2 * j - 1 \in 1 .. 2 * k /\ 2 * j \in 1 .. 2 * k
        BY <3>2
      <4>2. /\ old[2 * j - 1] \in 1 .. 127 /\ old[2 * j] = old[2 * j - 1] + 128
            /\ Char(Set1Table, old[2 * j - 1]) = line[j]
        BY <4>1, <2>1 DEF old
      <4>3. new[2 * j - 1] = old[2 * j - 1] /\ new[2 * j] = old[2 * j]
        BY <4>1, <2>6
      <4> QED BY <4>2, <4>3
    <3> QED BY <3>1, <3>2
  <2> QED BY <2>6, <2>8 DEF new
<1> HIDE DEF T
<1>8. P(n)
  <2>1. n \in T
    BY <1>0, <1>6, <1>7, SetInduction
  <2> QED BY <2>1 DEF T
<1>9. TypeAscii("Xt", line) = r[n] /\ r[n] \in Seq(Nat)
  BY <1>5, <1>0 DEF TypeAscii, seqs
<1> QED BY <1>8, <1>9

\* One more element of a sequence that is extended.
LEMMA Extended ==
    ASSUME NEW S, NEW s \in Seq(S), NEW c \in S, NEW u, u = s \o <<c>>
    PROVE  /\ u \in Seq(S) /\ Len(u) = Len(s) + 1
           /\ \A i \in 1 .. Len(s) : u[i] = s[i]
           /\ u[Len(s) + 1] = c
<1> DEFINE t == <<c>>
<1>1. t \in Seq(S) /\ Len(t) = 1 /\ t[1] = c
  OBVIOUS
<1>2. u = s \o t
  OBVIOUS
<1> HIDE DEF t
<1>3. u \in Seq(S) /\ Len(u) = Len(s) + Len(t)
  BY <1>1, <1>2, Joined
<1>4. \A i \in 1 .. Len(s) : u[i] = s[i]
  BY <1>1, <1>2, Joined
<1>5. \A i \in 1 .. Len(t) : u[Len(s) + i] = t[i]
  BY <1>1, <1>2, Joined
<1> QED BY <1>1, <1>3, <1>4, <1>5

\* What a host of the class the line is typed for reads is the line.
LEMMA ReadAt ==
    ASSUME NEW class, class # "Xt", NEW line \in Seq(TypedChars)
    PROVE  Decoded(FALSE, TypeAscii(class, line)) = line
<1> DEFINE n == Len(line)
<1> DEFINE keys == TypeAscii(class, line)
<1> DEFINE IsMake(i) == keys[i] # 240 /\ ~(i > 1 /\ keys[i - 1] = 240)
<1> DEFINE seqs == [i \in DOMAIN keys |-> IF IsMake(i) THEN <<Char(Set2Table, keys[i])>> ELSE <<>>]
<1>1. Decoded(FALSE, keys) = FlattenSeq(seqs)
  BY Zenon DEF Decoded
<1>2. /\ keys \in Seq(Nat) /\ Len(keys) = 3 * n
      /\ \A j \in 1 .. n : /\ keys[3 * j - 2] \in 1 .. 127 /\ keys[3 * j - 1] = 240
                           /\ keys[3 * j] = keys[3 * j - 2]
                           /\ Char(Set2Table, keys[3 * j - 2]) = line[j]
  BY TypedAt
<1> HIDE DEF keys
<1>3. n \in Nat /\ \A j \in 1 .. n : line[j] \in TypedChars
  OBVIOUS
<1>4. DOMAIN keys = 1 .. 3 * n
  BY <1>2
<1>5. ASSUME NEW j \in 1 .. n
      PROVE  /\ seqs[3 * j - 2] = <<line[j]>> /\ seqs[3 * j - 1] = <<>> /\ seqs[3 * j] = <<>>
  <2>1. /\ keys[3 * j - 2] \in 1 .. 127 /\ keys[3 * j - 1] = 240
        /\ keys[3 * j] = keys[3 * j - 2] /\ Char(Set2Table, keys[3 * j - 2]) = line[j]
    BY <1>2
  <2>2. 3 * j - 2 \in DOMAIN keys /\ 3 * j - 1 \in DOMAIN keys /\ 3 * j \in DOMAIN keys
    BY <1>3, <1>4
  <2>3. IsMake(3 * j - 2)
    <3>m. \A x \in 1 .. 127 : x # 240
      OBVIOUS
    <3>0. keys[3 * j - 2] # 240
      BY <2>1, <3>m
    <3>1. CASE j = 1
      <4>1. ~(3 * j - 2 > 1)
        BY <3>1
      <4> QED BY <3>0, <4>1
    <3>2. CASE j # 1
      <4>1. j - 1 \in 1 .. n /\ 3 * (j - 1) = (3 * j - 2) - 1
        BY <3>2, <1>3
      <4>2. keys[3 * (j - 1)] \in 1 .. 127
        BY <4>1, <1>2
      <4>3. keys[(3 * j - 2) - 1] # 240
        BY <4>1, <4>2, <3>m
      <4> QED BY <3>0, <4>3
    <3> QED BY <3>1, <3>2
  <2>4. ~IsMake(3 * j - 1)
    BY <2>1
  <2>5. ~IsMake(3 * j)
    <3>1. 3 * j > 1 /\ keys[3 * j - 1] = 240
      BY <2>1, <1>3
    <3> QED BY <3>1
  <2> QED BY <2>1, <2>2, <2>3, <2>4, <2>5
<1>6. seqs = [i \in 1 .. 3 * n |-> seqs[i]]
  BY <1>4
<1> HIDE DEF seqs
<1>7. ASSUME NEW i \in 1 .. 3 * n PROVE seqs[i] \in Seq(TypedChars)
  <2>1. \E j \in 1 .. n : i = 3 * j - 2 \/ i = 3 * j - 1 \/ i = 3 * j
    <3>1. (i + 2) \div 3 \in 1 .. n
      BY <1>3
    <3>2. LET j == (i + 2) \div 3 IN i = 3 * j - 2 \/ i = 3 * j - 1 \/ i = 3 * j
      BY <1>3
    <3> QED BY <3>1, <3>2
  <2>2. PICK j \in 1 .. n : i = 3 * j - 2 \/ i = 3 * j - 1 \/ i = 3 * j
    BY <2>1
  <2>3. seqs[i] = <<line[j]>> \/ seqs[i] = <<>>
    BY <2>2, <1>5
  <2>4. line[j] \in TypedChars
    BY <1>3
  <2>5. <<line[j]>> \in Seq(TypedChars) /\ <<>> \in Seq(TypedChars)
    BY <2>4
  <2> QED BY <2>3, <2>5
<1>8. seqs \in Seq(Seq(TypedChars)) /\ Len(seqs) = 3 * n
  BY <1>3, <1>6, <1>7
<1>9a. PICK r \in [0 .. 3 * n -> Seq(TypedChars)] : Appends(r, seqs, 3 * n)
  BY <1>8, FlattenSteps, Zenon
<1>9. /\ r \in [0 .. 3 * n -> Seq(TypedChars)] /\ r[0] = <<>>
      /\ \A k \in 1 .. 3 * n : r[k] = r[k - 1] \o seqs[k]
      /\ r[3 * n] = FlattenSeq(seqs)
  BY <1>9a, Zenon DEF Appends
<1> DEFINE P(k) == Len(r[3 * k]) = k /\ \A j \in 1 .. k : r[3 * k][j] = line[j]
<1> DEFINE T == {k \in Nat : k <= n => P(k)}
<1>10. 0 \in T
  BY <1>9
<1>11. ASSUME NEW k \in Nat, k \in T PROVE k + 1 \in T
  <2> SUFFICES ASSUME k + 1 <= n PROVE P(k + 1)
    OBVIOUS
  <2>1. P(k)
    BY <1>11
  <2> DEFINE old == r[3 * k]
  <2> DEFINE new == r[3 * k + 1]
  <2>2. k + 1 \in 1 .. n /\ line[k + 1] \in TypedChars
    BY <1>3
  <2>3. 3 * (k + 1) - 2 = 3 * k + 1 /\ 3 * (k + 1) - 1 = 3 * k + 2 /\ 3 * (k + 1) = 3 * k + 3
    OBVIOUS
  <2>4. seqs[3 * k + 1] = <<line[k + 1]>> /\ seqs[3 * k + 2] = <<>> /\ seqs[3 * k + 3] = <<>>
    BY <2>2, <2>3, <1>5
  <2>5. /\ 3 * k \in 0 .. 3 * n /\ 3 * k + 1 \in 1 .. 3 * n
        /\ 3 * k + 2 \in 1 .. 3 * n /\ 3 * k + 3 \in 1 .. 3 * n
        /\ (3 * k + 1) - 1 = 3 * k /\ (3 * k + 2) - 1 = 3 * k + 1 /\ (3 * k + 3) - 1 = 3 * k + 2
    BY <1>3
  <2>6. old \in Seq(TypedChars) /\ new \in Seq(TypedChars)
    BY <2>5
  <2>6a. new = old \o <<line[k + 1]>>
    BY <1>9, <2>4, <2>5
  <2>6b. r[3 * k + 2] = new \o <<>>
    BY <1>9, <2>4, <2>5
  <2>6c. r[3 * k + 3] = r[3 * k + 2] \o <<>>
    BY <1>9, <2>4, <2>5
  <2>7. r[3 * k + 3] = new
    BY <2>6, <2>6b, <2>6c, ConcatEmptySeq
  <2> HIDE DEF old, new
  <2>8. Len(new) = Len(old) + 1
    BY <2>6, <2>6a, <2>2, Extended
  <2>9. \A i \in 1 .. Len(old) : new[i] = old[i]
    BY <2>6, <2>6a, <2>2, Extended
  <2>10. new[Len(old) + 1] = line[k + 1]
    BY <2>6, <2>6a, <2>2, Extended
  <2>11. Len(old) = k /\ \A j \in 1 .. k : old[j] = line[j]
    BY <2>1 DEF old
  <2>12. Len(new) = k + 1 /\ \A j \in 1 .. k + 1 : new[j] = line[j]
    BY <2>8, <2>9, <2>10, <2>11
  <2> QED BY <2>3, <2>7, <2>12
<1> HIDE DEF T
<1>12. P(n)
  <2>1. n \in T
    BY <1>3, <1>10, <1>11, SetInduction
  <2> QED BY <2>1, <1>3 DEF T
<1> DEFINE read == r[3 * n]
<1>13. read \in Seq(TypedChars) /\ Len(read) = n /\ \A j \in 1 .. n : read[j] = line[j]
  <2>1. 3 * n \in 0 .. 3 * n
    BY <1>3
  <2>2. r[3 * n] \in Seq(TypedChars)
    BY <2>1
  <2> QED BY <2>2, <1>12
<1>14. read = FlattenSeq(seqs)
  BY <1>9
<1> HIDE DEF read
<1>15. read = line
  BY <1>13, <1>3, SeqEqual
<1> QED BY <1>1, <1>14, <1>15 DEF keys, seqs

\* The same of an XT host, whose breaks have the high bit.
LEMMA ReadXt ==
    ASSUME NEW line \in Seq(TypedChars)
    PROVE  Decoded(TRUE, TypeAscii("Xt", line)) = line
<1> DEFINE n == Len(line)
<1> DEFINE keys == TypeAscii("Xt", line)
<1> DEFINE IsMake(i) == keys[i] < 128
<1> DEFINE seqs == [i \in DOMAIN keys |-> IF IsMake(i) THEN <<Char(Set1Table, keys[i])>> ELSE <<>>]
<1>1. Decoded(TRUE, keys) = FlattenSeq(seqs)
  BY Zenon DEF Decoded
<1>2. /\ keys \in Seq(Nat) /\ Len(keys) = 2 * n
      /\ \A j \in 1 .. n : /\ keys[2 * j - 1] \in 1 .. 127 /\ keys[2 * j] = keys[2 * j - 1] + 128
                           /\ Char(Set1Table, keys[2 * j - 1]) = line[j]
  BY TypedXt
<1> HIDE DEF keys
<1>3. n \in Nat /\ \A j \in 1 .. n : line[j] \in TypedChars
  OBVIOUS
<1>4. DOMAIN keys = 1 .. 2 * n
  BY <1>2
<1>5. ASSUME NEW j \in 1 .. n
      PROVE  seqs[2 * j - 1] = <<line[j]>> /\ seqs[2 * j] = <<>>
  <2>1. /\ keys[2 * j - 1] \in 1 .. 127 /\ keys[2 * j] = keys[2 * j - 1] + 128
        /\ Char(Set1Table, keys[2 * j - 1]) = line[j]
    BY <1>2
  <2>2. 2 * j - 1 \in DOMAIN keys /\ 2 * j \in DOMAIN keys
    BY <1>3, <1>4
  <2>m. \A x \in 1 .. 127 : x < 128 /\ ~(x + 128 < 128)
    OBVIOUS
  <2>3. IsMake(2 * j - 1) /\ ~IsMake(2 * j)
    <3> DEFINE x == keys[2 * j - 1]
    <3>1. x \in 1 .. 127 /\ keys[2 * j] = x + 128
      BY <2>1
    <3> HIDE DEF x
    <3>2. x < 128 /\ ~(keys[2 * j] < 128)
      BY <3>1, <2>m
    <3> QED BY <3>2 DEF x
  <2> QED BY <2>1, <2>2, <2>3
<1>6. seqs = [i \in 1 .. 2 * n |-> seqs[i]]
  BY <1>4
<1> HIDE DEF seqs
<1>7. ASSUME NEW i \in 1 .. 2 * n PROVE seqs[i] \in Seq(TypedChars)
  <2>1. \E j \in 1 .. n : i = 2 * j - 1 \/ i = 2 * j
    <3>1. (i + 1) \div 2 \in 1 .. n
      BY <1>3
    <3>2. LET j == (i + 1) \div 2 IN i = 2 * j - 1 \/ i = 2 * j
      BY <1>3
    <3> QED BY <3>1, <3>2
  <2>2. PICK j \in 1 .. n : i = 2 * j - 1 \/ i = 2 * j
    BY <2>1
  <2>3. seqs[i] = <<line[j]>> \/ seqs[i] = <<>>
    BY <2>2, <1>5
  <2>4. line[j] \in TypedChars
    BY <1>3
  <2>5. <<line[j]>> \in Seq(TypedChars) /\ <<>> \in Seq(TypedChars)
    BY <2>4
  <2> QED BY <2>3, <2>5
<1>8. seqs \in Seq(Seq(TypedChars)) /\ Len(seqs) = 2 * n
  BY <1>3, <1>6, <1>7
<1>9a. PICK r \in [0 .. 2 * n -> Seq(TypedChars)] : Appends(r, seqs, 2 * n)
  BY <1>8, FlattenSteps, Zenon
<1>9. /\ r \in [0 .. 2 * n -> Seq(TypedChars)] /\ r[0] = <<>>
      /\ \A k \in 1 .. 2 * n : r[k] = r[k - 1] \o seqs[k]
      /\ r[2 * n] = FlattenSeq(seqs)
  BY <1>9a, Zenon DEF Appends
<1> DEFINE P(k) == Len(r[2 * k]) = k /\ \A j \in 1 .. k : r[2 * k][j] = line[j]
<1> DEFINE T == {k \in Nat : k <= n => P(k)}
<1>10. 0 \in T
  BY <1>9
<1>11. ASSUME NEW k \in Nat, k \in T PROVE k + 1 \in T
  <2> SUFFICES ASSUME k + 1 <= n PROVE P(k + 1)
    OBVIOUS
  <2>1. P(k)
    BY <1>11
  <2> DEFINE old == r[2 * k]
  <2> DEFINE new == r[2 * k + 1]
  <2>2. k + 1 \in 1 .. n /\ line[k + 1] \in TypedChars
    BY <1>3
  <2>3. 2 * (k + 1) - 1 = 2 * k + 1 /\ 2 * (k + 1) = 2 * k + 2
    OBVIOUS
  <2>4. seqs[2 * k + 1] = <<line[k + 1]>> /\ seqs[2 * k + 2] = <<>>
    BY <2>2, <2>3, <1>5
  <2>5. /\ 2 * k \in 0 .. 2 * n /\ 2 * k + 1 \in 1 .. 2 * n
        /\ 2 * k + 2 \in 1 .. 2 * n
        /\ (2 * k + 1) - 1 = 2 * k /\ (2 * k + 2) - 1 = 2 * k + 1
    BY <1>3
  <2>6. old \in Seq(TypedChars) /\ new \in Seq(TypedChars)
    BY <2>5
  <2>6a. new = old \o <<line[k + 1]>>
    BY <1>9, <2>4, <2>5
  <2>6b. r[2 * k + 2] = new \o <<>>
    BY <1>9, <2>4, <2>5
  <2>7. r[2 * k + 2] = new
    BY <2>6, <2>6b, ConcatEmptySeq
  <2> HIDE DEF old, new
  <2>8. Len(new) = Len(old) + 1
    BY <2>6, <2>6a, <2>2, Extended
  <2>9. \A i \in 1 .. Len(old) : new[i] = old[i]
    BY <2>6, <2>6a, <2>2, Extended
  <2>10. new[Len(old) + 1] = line[k + 1]
    BY <2>6, <2>6a, <2>2, Extended
  <2>11. Len(old) = k /\ \A j \in 1 .. k : old[j] = line[j]
    BY <2>1 DEF old
  <2>12. Len(new) = k + 1 /\ \A j \in 1 .. k + 1 : new[j] = line[j]
    BY <2>8, <2>9, <2>10, <2>11
  <2> QED BY <2>3, <2>7, <2>12
<1> HIDE DEF T
<1>12. P(n)
  <2>1. n \in T
    BY <1>3, <1>10, <1>11, SetInduction
  <2> QED BY <2>1, <1>3 DEF T
<1> DEFINE read == r[2 * n]
<1>13. read \in Seq(TypedChars) /\ Len(read) = n /\ \A j \in 1 .. n : read[j] = line[j]
  <2>1. 2 * n \in 0 .. 2 * n
    BY <1>3
  <2>2. r[2 * n] \in Seq(TypedChars)
    BY <2>1
  <2> QED BY <2>2, <1>12
<1>14. read = FlattenSeq(seqs)
  BY <1>9
<1> HIDE DEF read
<1>15. read = line
  BY <1>13, <1>3, SeqEqual
<1> QED BY <1>1, <1>14, <1>15 DEF keys, seqs

-----------------------------------------------------------------------------
(* The words of a line, and the number a word stands for.                  *)
PutChar(ws, c) == IF c \in {"SPACE", "CR"} THEN Append(ws, <<>>)
                  ELSE [ws EXCEPT ![Len(ws)] = Append(@, c)]
DigitOf(c) == (CHOOSE d \in 1 .. 16 : Digits[d] = c) - 1
Shifted(n, c) == 16 * n + DigitOf(c)

\* A digit stands for its place among the digits.
LEMMA DigitIs ==
    ASSUME NEW d \in 1 .. 16
    PROVE  DigitOf(Digits[d]) = d - 1
<1>1. \A e \in 1 .. 16 : Digits[e] = Digits[d] => e = d
  BY SMTT(60) DEF Digits
<1>2. (CHOOSE e \in 1 .. 16 : Digits[e] = Digits[d]) = d
  BY <1>1
<1> QED BY <1>2 DEF DigitOf

\* Words and Value take one character at a time.
LEMMA WordsSteps ==
    ASSUME NEW chars \in Seq(TypedChars)
    PROVE  \E r \in [0 .. Len(chars) -> Seq(Seq(TypedChars)) \ {<<>>}] :
               /\ r[0] = << <<>> >>
               /\ \A k \in 1 .. Len(chars) : r[k] = PutChar(r[k - 1], chars[k])
               /\ r[Len(chars)] = Words(chars)
<1> DEFINE n == Len(chars)
<1> DEFINE A == Seq(Seq(TypedChars)) \ {<<>>}
<1> DEFINE Solves(f) ==
        f = [s \in SUBSET DOMAIN chars |->
                IF s = {} THEN << <<>> >> ELSE PutChar(f[s \ {Max(s)}], chars[Max(s)])]
<1> DEFINE F == CHOOSE f : Solves(f)
<1>1. Words(chars) = F[DOMAIN chars]
  BY Zenon DEF Words, FoldLeft, MapThenFoldSet, PutChar
<1>2. n \in Nat /\ DOMAIN chars = 1 .. n /\ \A k \in 1 .. n : chars[k] \in TypedChars
  OBVIOUS
<1>3. \A ws \in A, c \in TypedChars : PutChar(ws, c) \in A
  <2> TAKE ws \in A, c \in TypedChars
  <2>1. ws \in Seq(Seq(TypedChars)) /\ Len(ws) \in 1 .. Len(ws) /\ ws[Len(ws)] \in Seq(TypedChars)
    OBVIOUS
  <2>2. Append(ws, <<>>) \in A
    <3>1. <<>> \in Seq(TypedChars)
      OBVIOUS
    <3>2. Append(ws, <<>>) \in Seq(Seq(TypedChars)) /\ Len(Append(ws, <<>>)) = Len(ws) + 1
      BY <2>1, <3>1, AppendProperties
    <3>3. Append(ws, <<>>) # <<>>
      <4>1. Len(Append(ws, <<>>)) # 0
        BY <2>1, <3>2
      <4>2. Len(<<>>) = 0
        OBVIOUS
      <4> QED BY <4>1, <4>2, Zenon
    <3> QED BY <3>2, <3>3
  <2>3. Append(ws[Len(ws)], c) \in Seq(TypedChars)
    BY <2>1, AppendProperties
  <2>4. [ws EXCEPT ![Len(ws)] = Append(@, c)] \in A
    BY <2>1, <2>3
  <2> QED BY <2>2, <2>4 DEF PutChar
<1> DEFINE H == [p \in (1 .. n) \X A |-> PutChar(p[2], chars[p[1]])]
<1>4. H \in [(1 .. n) \X A -> A]
  BY <1>2, <1>3
<1>5. << <<>> >> \in A
  OBVIOUS
<1> HIDE DEF A, n
<1>7. \A s \in SUBSET (1 .. n) : s # {} => Max(s) \in 1 .. n /\ s \ {Max(s)} \in SUBSET (1 .. n)
  BY <1>2, MaxExists
<1>8. \E f : Solves(f)
  <2> HIDE DEF H
  <2>1. PICK g \in [SUBSET (1 .. n) -> A] : Folds(g, << <<>> >>, n, H)
    <3>1. n \in Nat
      BY <1>2
    <3> QED BY <3>1, <1>4, <1>5, FoldRecursion, Zenon
  <2>2. ASSUME NEW s \in SUBSET (1 .. n), s # {}
        PROVE  H[<<Max(s), g[s \ {Max(s)}]>>] = PutChar(g[s \ {Max(s)}], chars[Max(s)])
    <3>1. Max(s) \in 1 .. n /\ g[s \ {Max(s)}] \in A
      BY <2>2, <1>7
    <3> QED BY <3>1 DEF H
  <2>3. Solves(g)
    BY <2>1, <2>2, <1>2 DEF Folds
  <2> QED BY <2>3
<1>9. Solves(F)
  BY <1>8
<1> HIDE DEF F
<1> DEFINE r == [k \in 0 .. n |-> F[1 .. k]]
<1>10. r[0] = << <<>> >>
  <2>1. 1 .. 0 = {} /\ {} \in SUBSET DOMAIN chars
    OBVIOUS
  <2> QED BY <2>1, <1>9, <1>2
<1>11. ASSUME NEW k \in 1 .. n PROVE r[k] = PutChar(r[k - 1], chars[k])
  <2>1. 1 .. k \in SUBSET DOMAIN chars /\ 1 .. k # {}
    <3>1. 1 .. k \subseteq 1 .. n /\ k \in 1 .. k
      BY <1>2
    <3> QED BY <3>1, <1>2, Zenon
  <2>2. Max(1 .. k) = k
    <3>1. k \in 1 .. k /\ k \in Nat /\ 1 .. k \subseteq 0 .. k
      BY <1>2
    <3> QED BY <3>1, MaxIs
  <2>3. (1 .. k) \ {k} = 1 .. k - 1
    BY <1>2
  <2>4. F[1 .. k] = PutChar(F[1 .. k - 1], chars[k])
    BY <2>1, <2>2, <2>3, <1>9
  <2> QED BY <2>4, <1>2
<1>12. r[n] = F[DOMAIN chars]
  BY <1>2
<1>13. \A k \in 0 .. n : r[k] \in A
  <2>1. \A k \in 1 .. n : r[k - 1] \in A => r[k] \in A
    BY <1>11, <1>3, <1>2
  <2> HIDE DEF r
  <2> QED BY <2>1, <1>10, <1>5, <1>2, HoldsAlong
<1>14. r \in [0 .. n -> A]
  BY <1>13
<1> HIDE DEF r
<1> QED BY <1>1, <1>10, <1>11, <1>12, <1>14 DEF A, n
LEMMA ValueSteps ==
    ASSUME NEW word \in Seq({Digits[d] : d \in 1 .. 16})
    PROVE  \E r \in [0 .. Len(word) -> Int] :
               /\ r[0] = 0
               /\ \A k \in 1 .. Len(word) : r[k] = Shifted(r[k - 1], word[k])
               /\ r[Len(word)] = Value(word)
<1> DEFINE n == Len(word)
<1> DEFINE A == Int
<1> DEFINE Solves(f) ==
        f = [s \in SUBSET DOMAIN word |->
                IF s = {} THEN 0 ELSE Shifted(f[s \ {Max(s)}], word[Max(s)])]
<1> DEFINE F == CHOOSE f : Solves(f)
<1>1. Value(word) = F[DOMAIN word]
  BY Zenon DEF Value, FoldLeft, MapThenFoldSet, Shifted, DigitOf
<1>2. n \in Nat /\ DOMAIN word = 1 .. n /\ \A k \in 1 .. n : word[k] \in {Digits[d] : d \in 1 .. 16}
  OBVIOUS
<1>3. \A v \in A, c \in {Digits[d] : d \in 1 .. 16} : Shifted(v, c) \in A
  BY DigitIs DEF Shifted
<1> DEFINE H == [p \in (1 .. n) \X A |-> Shifted(p[2], word[p[1]])]
<1>4. H \in [(1 .. n) \X A -> A]
  BY <1>2, <1>3
<1>5. 0 \in A
  OBVIOUS
<1> HIDE DEF A, n
<1>7. \A s \in SUBSET (1 .. n) : s # {} => Max(s) \in 1 .. n /\ s \ {Max(s)} \in SUBSET (1 .. n)
  BY <1>2, MaxExists
<1>8. \E f : Solves(f)
  <2> HIDE DEF H
  <2>1. PICK g \in [SUBSET (1 .. n) -> A] : Folds(g, 0, n, H)
    <3>1. n \in Nat
      BY <1>2
    <3> QED BY <3>1, <1>4, <1>5, FoldRecursion, Zenon
  <2>2. ASSUME NEW s \in SUBSET (1 .. n), s # {}
        PROVE  H[<<Max(s), g[s \ {Max(s)}]>>] = Shifted(g[s \ {Max(s)}], word[Max(s)])
    <3>1. Max(s) \in 1 .. n /\ g[s \ {Max(s)}] \in A
      BY <2>2, <1>7
    <3> QED BY <3>1 DEF H
  <2>3. Solves(g)
    BY <2>1, <2>2, <1>2 DEF Folds
  <2> QED BY <2>3
<1>9. Solves(F)
  BY <1>8
<1> HIDE DEF F
<1> DEFINE r == [k \in 0 .. n |-> F[1 .. k]]
<1>10. r[0] = 0
  <2>1. 1 .. 0 = {} /\ {} \in SUBSET DOMAIN word
    OBVIOUS
  <2> QED BY <2>1, <1>9, <1>2
<1>11. ASSUME NEW k \in 1 .. n PROVE r[k] = Shifted(r[k - 1], word[k])
  <2>1. 1 .. k \in SUBSET DOMAIN word /\ 1 .. k # {}
    <3>1. 1 .. k \subseteq 1 .. n /\ k \in 1 .. k
      BY <1>2
    <3> QED BY <3>1, <1>2, Zenon
  <2>2. Max(1 .. k) = k
    <3>1. k \in 1 .. k /\ k \in Nat /\ 1 .. k \subseteq 0 .. k
      BY <1>2
    <3> QED BY <3>1, MaxIs
  <2>3. (1 .. k) \ {k} = 1 .. k - 1
    BY <1>2
  <2>4. F[1 .. k] = Shifted(F[1 .. k - 1], word[k])
    BY <2>1, <2>2, <2>3, <1>9
  <2> QED BY <2>4, <1>2
<1>12. r[n] = F[DOMAIN word]
  BY <1>2
<1>13. \A k \in 0 .. n : r[k] \in A
  <2>1. \A k \in 1 .. n : r[k - 1] \in A => r[k] \in A
    BY <1>11, <1>3, <1>2
  <2> HIDE DEF r
  <2> QED BY <2>1, <1>10, <1>5, <1>2, HoldsAlong
<1>14. r \in [0 .. n -> A]
  BY <1>13
<1> HIDE DEF r
<1> QED BY <1>1, <1>10, <1>11, <1>12, <1>14 DEF A, n

DigitChars == {Digits[d] : d \in 1 .. 16}

LEMMA DigitCharsTyped ==
    /\ DigitChars \subseteq TypedChars
    /\ \A c \in DigitChars : c # "SPACE" /\ c # "CR"
  BY TypedIs DEF DigitChars, TypedChars, Digits

LEMMA Div16 ==
    ASSUME NEW n \in Nat
    PROVE  n \div 16 \in Nat /\ n % 16 \in 0 .. 15 /\ n = 16 * (n \div 16) + (n % 16)
  OBVIOUS

LEMMA Div256 ==
    ASSUME NEW n \in Nat
    PROVE  n \div 256 \in Nat /\ n % 256 \in Nat /\ n % 256 < 256 /\ n = 256 * (n \div 256) + (n % 256)
  OBVIOUS

\* Two digits, which stand for the byte ...
LEMMA Hex02Is ==
    ASSUME NEW b \in Nat, b < 256, NEW w, w = Hex02(b)
    PROVE  /\ w \in Seq(DigitChars) /\ Len(w) = 2
           /\ w[1] = Digits[b \div 16 + 1] /\ w[2] = Digits[(b % 16) + 1]
<1> DEFINE x == Digits[b \div 16 + 1]
<1> DEFINE y == Digits[(b % 16) + 1]
<1>0. b \div 16 \in Nat /\ b % 16 \in 0 .. 15 /\ b = 16 * (b \div 16) + (b % 16)
  BY Div16
<1>1. b \div 16 + 1 \in 1 .. 16 /\ (b % 16) + 1 \in 1 .. 16
  BY <1>0
<1>2. x \in DigitChars /\ y \in DigitChars
  BY <1>1 DEF DigitChars
<1>3. w = <<x, y>>
  BY DEF Hex02
<1> HIDE DEF x, y
<1>4. w \in Seq(DigitChars) /\ Len(w) = 2 /\ w[1] = x /\ w[2] = y
  BY <1>2, <1>3
<1> QED BY <1>4 DEF x, y

\* ... when they are read back.
LEMMA ByteRead ==
    ASSUME NEW b \in Nat, b < 256, NEW w \in Seq(DigitChars), Len(w) = 2,
           w[1] = Digits[b \div 16 + 1], w[2] = Digits[(b % 16) + 1]
    PROVE  Value(w) = b
<1>1. PICK r \in [0 .. Len(w) -> Int] :
          /\ r[0] = 0 /\ \A k \in 1 .. Len(w) : r[k] = Shifted(r[k - 1], w[k])
          /\ r[Len(w)] = Value(w)
  BY ValueSteps DEF DigitChars
<1>0. b \div 16 \in Nat /\ b % 16 \in 0 .. 15 /\ b = 16 * (b \div 16) + (b % 16)
  BY Div16
<1>2. b \div 16 + 1 \in 1 .. 16 /\ (b % 16) + 1 \in 1 .. 16
  BY <1>0
<1>3. DigitOf(w[1]) = b \div 16
  <2> DEFINE d == (b \div 16) + 1
  <2>1. d \in 1 .. 16 /\ w[1] = Digits[d] /\ d - 1 = b \div 16
    BY <1>2
  <2> HIDE DEF d
  <2> QED BY <2>1, DigitIs
<1>4. DigitOf(w[2]) = b % 16
  <2> DEFINE d == (b % 16) + 1
  <2>1. d \in 1 .. 16 /\ w[2] = Digits[d] /\ d - 1 = b % 16
    BY <1>2
  <2> HIDE DEF d
  <2> QED BY <2>1, DigitIs
<1>5. r[1] = b \div 16
  BY <1>1, <1>3 DEF Shifted
<1>6. r[2] = 16 * (b \div 16) + (b % 16)
  <2>1. r[2] = Shifted(r[1], w[2])
    BY <1>1
  <2> QED BY <2>1, <1>4, <1>5, Zenon DEF Shifted
<1> QED BY <1>0, <1>1, <1>6

-----------------------------------------------------------------------------
(* The address of a chunk, as Hex writes it and Value reads it.            *)
\* Where a .COM file's bytes lie in its segment.
Address == {n \in Nat : 256 <= n /\ n < 65536}

Numeral(n, p3, p2, p1, p0) == n = 4096 * p3 + 256 * p2 + 16 * p1 + p0

\* d holds the hexadecimal digits of the address n, by the power they count.
Nibbles(n, d) ==
    /\ d \in [0 .. 3 -> 0 .. 15]
    /\ Numeral(n, d[3], d[2], d[1], d[0])
    /\ d[3] = 0 => d[2] # 0

LEMMA NibblesNat ==
    ASSUME NEW n, NEW d, Nibbles(n, d)
    PROVE  /\ d[0] \in 0 .. 15 /\ d[1] \in 0 .. 15 /\ d[2] \in 0 .. 15 /\ d[3] \in 0 .. 15
           /\ d[0] \in Nat /\ d[1] \in Nat /\ d[2] \in Nat /\ d[3] \in Nat
<1>1. d \in [0 .. 3 -> 0 .. 15]
  BY DEF Nibbles
<1> HIDE DEF Nibbles
<1>2. d[0] \in 0 .. 15 /\ d[1] \in 0 .. 15 /\ d[2] \in 0 .. 15 /\ d[3] \in 0 .. 15
  BY <1>1
<1> QED BY <1>2

\* ... and w is what Hex writes of them.
Spells(w, d) ==
    /\ w \in Seq(DigitChars) /\ Len(w) \in 3 .. 4 /\ (Len(w) = 3 => d[3] = 0)
    /\ \A i \in 1 .. Len(w) : w[i] = Digits[d[Len(w) - i] + 1]

SplitByte(b, hi, lo) == hi = b \div 16 /\ lo = b % 16

LEMMA ByteSplit ==
    ASSUME NEW b \in Nat, b < 256
    PROVE  \E hi \in 0 .. 15, lo \in 0 .. 15 : b = 16 * hi + lo /\ SplitByte(b, hi, lo)
<1>1. b \div 16 \in Nat /\ b % 16 \in 0 .. 15 /\ b = 16 * (b \div 16) + (b % 16)
  BY Div16
<1>2. b \div 16 \in 0 .. 15
  BY <1>1
<1>3. SplitByte(b, b \div 16, b % 16)
  BY Zenon DEF SplitByte
<1> QED BY <1>1, <1>2, <1>3

SplitWord(n, a, b) == a = n \div 256 /\ b = n % 256

LEMMA WordSplit ==
    ASSUME NEW n \in Nat
    PROVE  \E a \in Nat, b \in Nat : n = 256 * a + b /\ b < 256 /\ SplitWord(n, a, b)
<1>1. n \div 256 \in Nat /\ n % 256 \in Nat /\ n % 256 < 256 /\ n = 256 * (n \div 256) + (n % 256)
  BY Div256
<1>2. SplitWord(n, n \div 256, n % 256)
  BY Zenon DEF SplitWord
<1> QED BY <1>1, <1>2

SplitAddress(n, d) ==
    \E a \in Nat, b \in Nat : /\ a < 256 /\ b < 256 /\ SplitWord(n, a, b)
                              /\ SplitByte(a, d[3], d[2]) /\ SplitByte(b, d[1], d[0])

\* Every address has four digits, the first two of which are not both 0.
LEMMA NibblesExist ==
    ASSUME NEW n \in Address
    PROVE  \E d : Nibbles(n, d) /\ SplitAddress(n, d)
<1>0. n \in Nat
  BY DEF Address
<1>1. PICK a \in Nat, b \in Nat : n = 256 * a + b /\ b < 256 /\ SplitWord(n, a, b)
  BY <1>0, WordSplit
<1>2. a < 256 /\ 1 <= a
  <2>1. 256 <= n /\ n < 65536
    BY DEF Address
  <2> QED BY <2>1, <1>1
<1>3. PICK p3 \in 0 .. 15, p2 \in 0 .. 15 : a = 16 * p3 + p2 /\ SplitByte(a, p3, p2)
  BY <1>2, ByteSplit
<1>4. PICK p1 \in 0 .. 15, p0 \in 0 .. 15 : b = 16 * p1 + p0 /\ SplitByte(b, p1, p0)
  BY <1>1, ByteSplit
<1>6. Numeral(n, p3, p2, p1, p0)
  BY <1>1, <1>3, <1>4 DEF Numeral
<1>7. p3 = 0 => p2 # 0
  BY <1>2, <1>3
<1> DEFINE d == [p \in 0 .. 3 |-> IF p = 3 THEN p3 ELSE IF p = 2 THEN p2
                                  ELSE IF p = 1 THEN p1 ELSE p0]
<1>8. d \in [0 .. 3 -> 0 .. 15] /\ d[3] = p3 /\ d[2] = p2 /\ d[1] = p1 /\ d[0] = p0
  OBVIOUS
<1> HIDE DEF d
<1>9. Nibbles(n, d)
  <2>1. Numeral(n, d[3], d[2], d[1], d[0])
    BY <1>6, <1>8
  <2>2. d[3] = 0 => d[2] # 0
    BY <1>7, <1>8
  <2> QED BY <2>1, <2>2, <1>8 DEF Nibbles
<1>10. SplitAddress(n, d)
  <2>1. SplitByte(a, d[3], d[2]) /\ SplitByte(b, d[1], d[0])
    BY <1>3, <1>4, <1>8
  <2> QED BY <2>1, <1>1, <1>2 DEF SplitAddress
<1> QED BY <1>9, <1>10, Zenon

\* Two halves of two digits each.
Halves(d, u, v) ==
    /\ u[1] = Digits[d[3] + 1] /\ u[2] = Digits[d[2] + 1]
    /\ v[1] = Digits[d[1] + 1] /\ v[2] = Digits[d[0] + 1]

FirstOf(all) == Min({i \in 1 .. 4 : all[i] # "0"} \cup {4})

\* Hex leaves out a leading 0.
LEMMA FirstIs ==
    ASSUME NEW all, NEW p \in BOOLEAN, (all[1] # "0") <=> ~p, p => all[2] # "0"
    PROVE  FirstOf(all) = IF p THEN 2 ELSE 1
<1> DEFINE S == {i \in 1 .. 4 : all[i] # "0"} \cup {4}
<1>1. CASE p
  <2>1. 2 \in S /\ \A y \in S : y \in 2 .. 4
    BY <1>1
  <2> HIDE DEF S
  <2>2. \A x \in S : (\A y \in S : x <= y) <=> x = 2
    BY <2>1
  <2>3. Min(S) = 2
    BY <2>1, <2>2 DEF Min
  <2> QED BY <1>1, <2>3 DEF S, FirstOf
<1>2. CASE ~p
  <2>1. 1 \in S /\ \A y \in S : y \in 1 .. 4
    BY <1>2
  <2> HIDE DEF S
  <2>2. \A x \in S : (\A y \in S : x <= y) <=> x = 1
    BY <2>1
  <2>3. Min(S) = 1
    BY <2>1, <2>2 DEF Min
  <2> QED BY <1>2, <2>3 DEF S, FirstOf
<1> QED BY <1>1, <1>2

PairOf(S, s) == s \in Seq(S) /\ Len(s) = 2
FourOf(S, s, u, v) ==
    /\ s \in Seq(S) /\ Len(s) = 4
    /\ s[1] = u[1] /\ s[2] = u[2] /\ s[3] = v[1] /\ s[4] = v[2]

LEMMA TwoByTwo ==
    ASSUME NEW S, NEW u, NEW v, PairOf(S, u), PairOf(S, v)
    PROVE  FourOf(S, u \o v, u, v)
<1>0. u \in Seq(S) /\ Len(u) = 2 /\ v \in Seq(S) /\ Len(v) = 2
  BY DEF PairOf
<1>1. /\ u \o v \in Seq(S) /\ Len(u \o v) = Len(u) + Len(v)
      /\ \A i \in 1 .. Len(u) + Len(v) : (u \o v)[i] = IF i <= Len(u) THEN u[i] ELSE v[i - Len(u)]
  BY <1>0, ConcatProperties
<1> QED BY <1>0, <1>1 DEF FourOf

\* What is left of four digits behind the first.
LEMMA Tail4 ==
    ASSUME NEW S, NEW all \in Seq(S), Len(all) = 4, NEW first \in 1 .. 2
    PROVE  /\ SubSeq(all, first, 4) \in Seq(S) /\ Len(SubSeq(all, first, 4)) = 5 - first
           /\ \A i \in 1 .. 5 - first : SubSeq(all, first, 4)[i] = all[first + i - 1]
<1>0. \A i \in first .. 4 : i \in 1 .. Len(all)
  OBVIOUS
<1>1. first \in Int /\ 4 \in Int /\ \A i \in first .. 4 : all[i] \in S
  <2>1. \A i \in 1 .. Len(all) : all[i] \in S
    BY ElementOfSeq
  <2> QED BY <1>0, <2>1
<1>2. /\ SubSeq(all, first, 4) \in Seq(S)
      /\ Len(SubSeq(all, first, 4)) = IF first <= 4 THEN 4 - first + 1 ELSE 0
      /\ \A i \in 1 .. 4 - first + 1 : SubSeq(all, first, 4)[i] = all[first + i - 1]
  BY <1>1, SubSeqProperties
<1> QED BY <1>2

Digested(r2, r1, p) == r2 = 16 * r1 + p

Computed(n, p3, p2, p1, p0, r2, r3, r4) ==
    /\ p3 \in Nat /\ p2 \in Nat /\ p1 \in Nat /\ p0 \in Nat /\ Numeral(n, p3, p2, p1, p0)
    /\ Digested(r2, p3, p2) /\ Digested(r3, r2, p1) /\ Digested(r4, r3, p0)

\* Digits read from the left make up the number they were split from.
LEMMA Horner ==
    ASSUME NEW n, NEW p3, NEW p2, NEW p1, NEW p0, NEW r2, NEW r3, NEW r4,
           Computed(n, p3, p2, p1, p0, r2, r3, r4)
    PROVE  n = r4
<1>1. /\ p3 \in Nat /\ p2 \in Nat /\ p1 \in Nat /\ p0 \in Nat /\ Numeral(n, p3, p2, p1, p0)
      /\ Digested(r2, p3, p2) /\ Digested(r3, r2, p1) /\ Digested(r4, r3, p0)
  BY Zenon DEF Computed
<1>2. r2 = 16 * p3 + p2
  BY <1>1 DEF Digested
<1>3. r3 = 256 * p3 + 16 * p2 + p1
  BY <1>1, <1>2 DEF Digested
<1>4. r4 = 4096 * p3 + 256 * p2 + 16 * p1 + p0
  BY <1>1, <1>3 DEF Digested
<1> QED BY <1>1, <1>4 DEF Numeral

\* Hex spells the digits of an address, ...
LEMMA HexWord ==
    ASSUME NEW d, NEW n, Nibbles(n, d), NEW u, NEW v,
           PairOf(DigitChars, u), PairOf(DigitChars, v), Halves(d, u, v)
    PROVE  Spells(SubSeq(u \o v, FirstOf(u \o v), 4), d)
<1> DEFINE all == u \o v
<1>a. all = u \o v
  OBVIOUS
<1> HIDE DEF all
<1>8. /\ all \in Seq(DigitChars) /\ Len(all) = 4
      /\ all[1] = u[1] /\ all[2] = u[2] /\ all[3] = v[1] /\ all[4] = v[2]
  <2>1. FourOf(DigitChars, u \o v, u, v)
    BY TwoByTwo, Zenon
  <2> QED BY <1>a, <2>1, Zenon DEF FourOf
<1>d. d \in [0 .. 3 -> 0 .. 15] /\ (d[3] = 0 => d[2] # 0)
  BY DEF Nibbles
<1>9. /\ all[1] = Digits[d[3] + 1] /\ all[2] = Digits[d[2] + 1]
      /\ all[3] = Digits[d[1] + 1] /\ all[4] = Digits[d[0] + 1]
  BY <1>8, Zenon DEF Halves
<1>10. \A x \in 0 .. 15 : (Digits[x + 1] = "0") <=> (x = 0)
  BY DEF Digits
<1>11. (all[1] # "0") <=> ~(d[3] = 0)
  <2>1. d[3] \in 0 .. 15
    BY <1>d
  <2> QED BY <2>1, <1>9, <1>10
<1>11b. d[3] = 0 => all[2] # "0"
  <2>1. d[2] \in 0 .. 15
    BY <1>d
  <2> QED BY <2>1, <1>9, <1>10, <1>d
<1> DEFINE first == FirstOf(all)
<1>12. first = IF d[3] = 0 THEN 2 ELSE 1
  BY <1>11, <1>11b, FirstIs
<1> HIDE DEF first
<1> DEFINE w == SubSeq(all, first, 4)
<1>13. /\ w \in Seq(DigitChars) /\ Len(w) = 5 - first
       /\ \A i \in 1 .. 5 - first : w[i] = all[first + i - 1]
  <2>1. first \in 1 .. 2
    BY <1>12
  <2>2. w = SubSeq(all, first, 4)
    OBVIOUS
  <2> HIDE DEF w
  <2> QED BY <1>8, <2>1, <2>2, Tail4, Zenon
<1> HIDE DEF w
<1>14. ASSUME d[3] = 0 PROVE Spells(w, d)
  <2>1. first = 2 /\ Len(w) = 3 /\ w[1] = all[2] /\ w[2] = all[3] /\ w[3] = all[4]
    BY <1>12, <1>13, <1>14
  <2>2. \A i \in 1 .. 3 : i = 1 \/ i = 2 \/ i = 3
    OBVIOUS
  <2>3. \A i \in 1 .. 3 : w[i] = Digits[d[3 - i] + 1]
    BY <2>1, <2>2, <1>9
  <2> QED BY <2>1, <2>3, <1>13, <1>14 DEF Spells
<1>15. ASSUME d[3] # 0 PROVE Spells(w, d)
  <2>1. first = 1 /\ Len(w) = 4 /\ w[1] = all[1] /\ w[2] = all[2] /\ w[3] = all[3] /\ w[4] = all[4]
    BY <1>12, <1>13, <1>15
  <2>2. \A i \in 1 .. 4 : i = 1 \/ i = 2 \/ i = 3 \/ i = 4
    OBVIOUS
  <2>3. \A i \in 1 .. 4 : w[i] = Digits[d[4 - i] + 1]
    BY <2>1, <2>2, <1>9
  <2> QED BY <2>1, <2>3, <1>13, <1>15 DEF Spells
<1>16. Spells(w, d)
  BY <1>14, <1>15
<1> QED BY <1>16, Zenon DEF w, first, all

LEMMA HexIs ==
    ASSUME NEW n \in Address
    PROVE  \E d : Nibbles(n, d) /\ Spells(Hex(n), d)
<1>1. PICK d : Nibbles(n, d) /\ SplitAddress(n, d)
  BY NibblesExist
<1>2. PICK a \in Nat, b \in Nat :
          /\ a < 256 /\ b < 256 /\ SplitWord(n, a, b)
          /\ SplitByte(a, d[3], d[2]) /\ SplitByte(b, d[1], d[0])
  BY <1>1, Zenon DEF SplitAddress
<1> DEFINE u == Hex02(a)
<1> DEFINE v == Hex02(b)
<1>3. Hex(n) = SubSeq(u \o v, FirstOf(u \o v), 4)
  <2>1. a = n \div 256 /\ b = n % 256
    BY <1>2, Zenon DEF SplitWord
  <2> DEFINE all == Hex02(n \div 256) \o Hex02(n % 256)
  <2>2. Hex(n) = SubSeq(all, FirstOf(all), 4)
    BY Zenon DEF Hex, FirstOf
  <2> QED BY <2>1, <2>2, Zenon
<1>4. u \in Seq(DigitChars) /\ Len(u) = 2 /\ u[1] = Digits[a \div 16 + 1] /\ u[2] = Digits[(a % 16) + 1]
  BY <1>2, Hex02Is, Zenon
<1>5. v \in Seq(DigitChars) /\ Len(v) = 2 /\ v[1] = Digits[b \div 16 + 1] /\ v[2] = Digits[(b % 16) + 1]
  BY <1>2, Hex02Is, Zenon
<1>6. Halves(d, u, v)
  BY <1>2, <1>4, <1>5, Zenon DEF Halves, SplitByte
<1> HIDE DEF u, v
<1>7. PairOf(DigitChars, u) /\ PairOf(DigitChars, v)
  BY <1>4, <1>5, Zenon DEF PairOf
<1>9. Spells(SubSeq(u \o v, FirstOf(u \o v), 4), d)
  BY <1>1, <1>6, <1>7, HexWord, Zenon
<1> QED BY <1>1, <1>3, <1>9, Zenon

\* ... and reading them gives the address.
LEMMA AddressRead ==
    ASSUME NEW n \in Nat, NEW d, Nibbles(n, d), NEW w, Spells(w, d)
    PROVE  Value(w) = n
<1>w. w \in Seq(DigitChars)
  BY Zenon DEF Spells
<1>1. PICK r \in [0 .. Len(w) -> Int] :
          /\ r[0] = 0 /\ \A k \in 1 .. Len(w) : r[k] = Shifted(r[k - 1], w[k])
          /\ r[Len(w)] = Value(w)
  BY <1>w, ValueSteps DEF DigitChars
<1>0. d \in [0 .. 3 -> 0 .. 15] /\ Numeral(n, d[3], d[2], d[1], d[0])
  BY DEF Nibbles
<1> DEFINE l == Len(w)
<1>8. l \in 3 .. 4 /\ (l = 3 => d[3] = 0)
  BY Zenon DEF Spells
<1>9. r[l] = Value(w) /\ r[0] = 0
  BY <1>1
<1>7. ASSUME NEW k \in 1 .. l PROVE Digested(r[k], r[k - 1], d[l - k])
  <2>0. w[k] = Digits[d[l - k] + 1]
    BY Zenon DEF Spells
  <2>1. r[k] = Shifted(r[k - 1], w[k])
    BY <1>1
  <2> HIDE DEF l
  <2>2. l - k \in 0 .. 3
    BY <1>8
  <2>3. d[l - k] \in 0 .. 15
    BY <2>2, <1>0
  <2>4. d[l - k] + 1 \in 1 .. 16 /\ (d[l - k] + 1) - 1 = d[l - k]
    <3> DEFINE x == d[l - k]
    <3>1. x \in 0 .. 15
      BY <2>3
    <3> HIDE DEF x
    <3>2. x + 1 \in 1 .. 16 /\ (x + 1) - 1 = x
      BY <3>1
    <3> QED BY <3>2 DEF x
  <2>5. DigitOf(w[k]) = d[l - k]
    BY <2>0, <2>4, DigitIs
  <2> QED BY <2>1, <2>5 DEF Shifted, Digested
<1>4b. r[0] = 0
  BY <1>9
<1>4c. d[0] \in Nat /\ d[1] \in Nat /\ d[2] \in Nat /\ d[3] \in Nat
  BY NibblesNat, Zenon
<1> HIDE DEF l
<1>5. CASE l = 3
  <2>0. l - 1 = 2 /\ l - 2 = 1 /\ l - 3 = 0 /\ 1 \in 1 .. l /\ 2 \in 1 .. l /\ 3 \in 1 .. l
        /\ 1 - 1 = 0 /\ 2 - 1 = 1 /\ 3 - 1 = 2
    BY <1>5
  <2>1. Digested(r[1], r[0], d[2]) /\ Digested(r[2], r[1], d[1]) /\ Digested(r[3], r[2], d[0])
    BY <1>7, <2>0
  <2>2. r[0] = d[3]
    BY <1>4b, <1>5, <1>8
  <2>3. Digested(r[1], d[3], d[2])
    BY <2>1, <2>2, Zenon
  <2>4. Computed(n, d[3], d[2], d[1], d[0], r[1], r[2], r[3])
    BY <2>1, <2>3, <1>0, <1>4c, Zenon DEF Computed
  <2>6. n = r[3]
    BY <2>4, Horner, Zenon
  <2> QED BY <2>6, <1>5, <1>9
<1>6. CASE l = 4
  <2>0. l - 1 = 3 /\ l - 2 = 2 /\ l - 3 = 1 /\ l - 4 = 0
        /\ 1 \in 1 .. l /\ 2 \in 1 .. l /\ 3 \in 1 .. l /\ 4 \in 1 .. l
        /\ 1 - 1 = 0 /\ 2 - 1 = 1 /\ 3 - 1 = 2 /\ 4 - 1 = 3
    BY <1>6
  <2>1. Digested(r[1], r[0], d[3]) /\ Digested(r[2], r[1], d[2]) /\ Digested(r[3], r[2], d[1])
        /\ Digested(r[4], r[3], d[0])
    BY <1>7, <2>0
  <2>2. r[1] = d[3]
    BY <2>1, <1>4b, <1>4c DEF Digested
  <2>3. Digested(r[2], d[3], d[2])
    BY <2>1, <2>2, Zenon
  <2>4. Computed(n, d[3], d[2], d[1], d[0], r[2], r[3], r[4])
    BY <2>1, <2>3, <1>0, <1>4c, Zenon DEF Computed
  <2>6. n = r[4]
    BY <2>4, Horner, Zenon
  <2> QED BY <2>6, <1>6, <1>9
<1> QED BY <1>5, <1>6, <1>8

-----------------------------------------------------------------------------
(* A host takes up a line where it stopped: a blank starts a word, a letter *)
(* continues one.                                                          *)
Sentences == Seq(Seq(TypedChars)) \ {<<>>}

\* The words of a line that continues another: r takes them up where they were.
Continues(r, cmd, h, line) ==
    /\ r \in [0 .. Len(h) -> Sentences]
    /\ r[0] = Words(cmd)
    /\ \A k \in 1 .. Len(h) : r[k] = PutChar(r[k - 1], h[k])
    /\ r[Len(h)] = Words(line)

LEMMA WordsContinue ==
    ASSUME NEW cmd \in Seq(TypedChars), NEW h \in Seq(TypedChars), NEW line, line = cmd \o h
    PROVE  \E r : Continues(r, cmd, h, line)
<1> DEFINE n == Len(cmd)
<1> DEFINE m == Len(h)
<1>n. n \in Nat /\ m \in Nat
  OBVIOUS
<1>a. line \in Seq(TypedChars)
  BY Joined
<1>b. Len(line) = n + m
  BY Joined
<1>c. \A i \in 1 .. n : line[i] = cmd[i]
  BY Joined
<1>d. \A i \in 1 .. m : line[n + i] = h[i]
  BY Joined
<1>1. PICK q \in [0 .. Len(line) -> Sentences] :
          /\ q[0] = << <<>> >>
          /\ \A k \in 1 .. Len(line) : q[k] = PutChar(q[k - 1], line[k])
          /\ q[Len(line)] = Words(line)
  BY <1>a, WordsSteps DEF Sentences
<1>2. PICK p \in [0 .. Len(cmd) -> Sentences] :
          /\ p[0] = << <<>> >>
          /\ \A k \in 1 .. Len(cmd) : p[k] = PutChar(p[k - 1], cmd[k])
          /\ p[Len(cmd)] = Words(cmd)
  BY WordsSteps DEF Sentences
<1>q. /\ q \in [0 .. n + m -> Sentences] /\ q[0] = << <<>> >> /\ q[n + m] = Words(line)
      /\ \A k \in 1 .. n + m : q[k] = PutChar(q[k - 1], line[k])
  BY <1>1, <1>b
<1>p. p[0] = << <<>> >> /\ p[n] = Words(cmd) /\ \A k \in 1 .. n : p[k] = PutChar(p[k - 1], cmd[k])
  BY <1>2
<1> HIDE DEF n, m
<1> DEFINE T == {k \in Nat : k <= n => q[k] = p[k]}
<1>3. Nat \subseteq T
  <2>1. 0 \in T
    BY <1>q, <1>p
  <2>2. ASSUME NEW k \in Nat, k \in T PROVE k + 1 \in T
    <3> SUFFICES ASSUME k + 1 <= n PROVE q[k + 1] = p[k + 1]
      OBVIOUS
    <3>1. q[k] = p[k]
      BY <2>2, <1>n
    <3>2. k + 1 \in 1 .. n /\ k + 1 \in 1 .. n + m /\ (k + 1) - 1 = k
      BY <1>n
    <3>3. q[k + 1] = PutChar(q[k], line[k + 1])
      BY <3>2, <1>q
    <3>4. p[k + 1] = PutChar(p[k], cmd[k + 1])
      BY <3>2, <1>p
    <3> QED BY <3>1, <3>2, <3>3, <3>4, <1>c
  <2> HIDE DEF T
  <2> QED BY <2>1, <2>2, SetInduction
<1>4. q[n] = Words(cmd)
  BY <1>3, <1>n, <1>p
<1> DEFINE r == [k \in 0 .. m |-> q[n + k]]
<1>5. \A k \in 0 .. m : n + k \in 0 .. n + m
  BY <1>n
<1>6. r \in [0 .. m -> Sentences]
  BY <1>5, <1>q
<1>7. r[0] = Words(cmd) /\ r[m] = Words(line)
  BY <1>4, <1>q, <1>n
<1>8. ASSUME NEW k \in 1 .. m PROVE r[k] = PutChar(r[k - 1], h[k])
  <2>1. n + k \in 1 .. n + m /\ (n + k) - 1 = n + (k - 1) /\ k - 1 \in 0 .. m /\ k \in 0 .. m
    BY <1>n
  <2>2. q[n + k] = PutChar(q[n + (k - 1)], line[n + k])
    BY <2>1, <1>q
  <2> QED BY <2>1, <2>2, <1>d
<1> HIDE DEF r
<1>9. Continues(r, cmd, h, line)
  BY <1>6, <1>7, <1>8 DEF Continues, m
<1> QED BY <1>9

Blanked(W, U) ==
    /\ Len(U) = Len(W) + 1 /\ U[Len(W) + 1] = <<>>
    /\ \A i \in 1 .. Len(W) : U[i] = W[i]

\* What a blank and a letter make of the words read so far.
LEMMA PutBlank ==
    ASSUME NEW W \in Sentences, NEW c \in {"SPACE", "CR"}
    PROVE  Blanked(W, PutChar(W, c))
<1>1. W \in Seq(Seq(TypedChars)) /\ <<>> \in Seq(TypedChars)
  BY DEF Sentences
<1>2. PutChar(W, c) = Append(W, <<>>)
  BY DEF PutChar
<1>3. /\ Len(Append(W, <<>>)) = Len(W) + 1 /\ Append(W, <<>>)[Len(W) + 1] = <<>>
      /\ \A i \in 1 .. Len(W) : Append(W, <<>>)[i] = W[i]
  BY <1>1, AppendProperties
<1> QED BY <1>2, <1>3, Zenon DEF Blanked

Lettered(W, U, c) ==
    /\ Len(U) = Len(W) /\ U[Len(W)] = Append(W[Len(W)], c)
    /\ \A i \in 1 .. Len(W) - 1 : U[i] = W[i]

LEMMA PutLetter ==
    ASSUME NEW W \in Sentences, NEW c \in TypedChars, c # "SPACE", c # "CR"
    PROVE  Lettered(W, PutChar(W, c), c)
<1>1. W \in Seq(Seq(TypedChars)) /\ Len(W) \in 1 .. Len(W)
  BY DEF Sentences
<1> DEFINE U == [W EXCEPT ![Len(W)] = Append(@, c)]
<1>2. PutChar(W, c) = U
  BY DEF PutChar
<1>3. Append(W[Len(W)], c) \in Seq(TypedChars)
  BY <1>1
<1>4. U \in Seq(Seq(TypedChars)) /\ Len(U) = Len(W)
  BY <1>1, <1>3
<1>5. U[Len(W)] = Append(W[Len(W)], c)
  BY <1>1
<1>6. \A i \in 1 .. Len(W) - 1 : U[i] = W[i]
  BY <1>1
<1> QED BY <1>2, <1>4, <1>5, <1>6, Zenon DEF Lettered

LEMMA ReadsBlank ==
    ASSUME NEW cmd \in Seq(TypedChars), NEW c \in {"SPACE", "CR"}
    PROVE  Blanked(Words(cmd), Words(cmd \o <<c>>))
<1>1. c \in TypedChars
  BY TypedIs
<1>2. <<c>> \in Seq(TypedChars) /\ Len(<<c>>) = 1 /\ <<c>>[1] = c
  BY <1>1
<1>3. PICK r : Continues(r, cmd, <<c>>, cmd \o <<c>>)
  BY <1>2, WordsContinue
<1>4. /\ r[0] \in Sentences /\ r[0] = Words(cmd) /\ r[1] = Words(cmd \o <<c>>)
      /\ r[1] = PutChar(r[0], c)
  BY <1>2, <1>3 DEF Continues
<1> QED BY <1>4, PutBlank

LEMMA WordsTyped ==
    ASSUME NEW cmd \in Seq(TypedChars)
    PROVE  Words(cmd) \in Sentences
  BY WordsSteps DEF Sentences

Spelled(W, U, h) ==
    /\ Len(U) = Len(W) /\ U[Len(W)] = h
    /\ \A i \in 1 .. Len(W) - 1 : U[i] = W[i]

\* A word without blanks is added to the last one.
LEMMA ReadsWord ==
    ASSUME NEW cmd \in Seq(TypedChars), NEW h \in Seq(TypedChars),
           \A i \in 1 .. Len(h) : h[i] # "SPACE" /\ h[i] # "CR",
           Words(cmd)[Len(Words(cmd))] = <<>>
    PROVE  Spelled(Words(cmd), Words(cmd \o h), h)
<1>1. PICK r : Continues(r, cmd, h, cmd \o h)
  BY WordsContinue
<1> DEFINE W == Words(cmd)
<1> DEFINE m == Len(h)
<1> DEFINE l == Len(W)
<1>0. W \in Sentences /\ m \in Nat /\ W[l] = <<>> /\ \A i \in 1 .. m : h[i] \in TypedChars
  BY WordsTyped
<1>l. l \in Nat \ {0}
  BY <1>0 DEF Sentences
<1>2. /\ r \in [0 .. m -> Sentences] /\ r[0] = W /\ r[m] = Words(cmd \o h)
      /\ \A k \in 1 .. m : r[k] = PutChar(r[k - 1], h[k])
  BY <1>1, Zenon DEF Continues
<1>3. \A i \in 1 .. m : h[i] # "SPACE" /\ h[i] # "CR"
  OBVIOUS
<1> HIDE DEF W, m, l
<1> DEFINE Partly(k) ==
        /\ Len(r[k]) = l /\ Len(r[k][l]) = k
        /\ \A i \in 1 .. k : r[k][l][i] = h[i]
        /\ \A i \in 1 .. l - 1 : r[k][i] = W[i]
<1> DEFINE T == {k \in Nat : k <= m => Partly(k)}
<1> HIDE DEF Partly
<1>t. \A k \in Nat : (k \in T) <=> (k <= m => Partly(k))
  OBVIOUS
<1> HIDE DEF T
<1>4. 0 \in T
  <2>1. Partly(0)
    BY <1>0, <1>2 DEF Partly, l
  <2> QED BY <2>1, <1>t
<1>5. ASSUME NEW k \in Nat, k \in T PROVE k + 1 \in T
  <2> SUFFICES ASSUME k + 1 <= m PROVE Partly(k + 1)
    BY <1>t
  <2>0. Partly(k)
    BY <1>5, <1>t, <1>0
  <2>1. k + 1 \in 1 .. m /\ (k + 1) - 1 = k /\ k \in 0 .. m /\ k + 1 \in 0 .. m
    BY <1>0
  <2> DEFINE V == r[k]
  <2> DEFINE U == r[k + 1]
  <2>2. U = PutChar(V, h[k + 1]) /\ V \in Sentences
    BY <1>2, <2>1
  <2>3. h[k + 1] \in TypedChars /\ h[k + 1] # "SPACE" /\ h[k + 1] # "CR"
    BY <1>0, <1>3, <2>1
  <2>4. Lettered(V, U, h[k + 1])
    BY <2>2, <2>3, PutLetter
  <2>5. Len(V) = l /\ Len(V[l]) = k /\ (\A i \in 1 .. k : V[l][i] = h[i])
        /\ \A i \in 1 .. l - 1 : V[i] = W[i]
    BY <2>0 DEF Partly
  <2> HIDE DEF U, V
  <2>6. /\ Len(U) = l /\ U[l] = Append(V[l], h[k + 1])
        /\ \A i \in 1 .. l - 1 : U[i] = W[i]
    BY <2>4, <2>5, Zenon DEF Lettered
  <2>7. V[l] \in Seq(TypedChars)
    <3>1. V \in Seq(Seq(TypedChars)) /\ l \in 1 .. Len(V)
      BY <2>2, <2>5, <1>l DEF Sentences
    <3> QED BY <3>1
  <2> DEFINE x == V[l]
  <2> DEFINE y == Append(x, h[k + 1])
  <2>8. x \in Seq(TypedChars) /\ Len(x) = k /\ (\A i \in 1 .. k : x[i] = h[i]) /\ U[l] = y
    BY <2>5, <2>6, <2>7
  <2> HIDE DEF x
  <2>9. Len(y) = k + 1 /\ y[k + 1] = h[k + 1] /\ \A i \in 1 .. k : y[i] = x[i]
    BY <2>8, <2>3, AppendProperties
  <2> HIDE DEF y
  <2>10. \A i \in 1 .. k + 1 : i \in 1 .. k \/ i = k + 1
    OBVIOUS
  <2>11. \A i \in 1 .. k + 1 : y[i] = h[i]
    BY <2>8, <2>9, <2>10
  <2> QED BY <2>6, <2>8, <2>9, <2>11 DEF Partly, U
<1>6. Partly(m)
  <2>1. Nat \subseteq T
    BY <1>4, <1>5, SetInduction
  <2> QED BY <2>1, <1>t, <1>0
<1>7. r[m] \in Sentences /\ Len(r[m]) = l
  BY <1>2, <1>0, <1>6 DEF Partly
<1>8. r[m][l] \in Seq(TypedChars)
  <2>1. r[m] \in Seq(Seq(TypedChars)) /\ l \in 1 .. Len(r[m])
    BY <1>7, <1>l DEF Sentences
  <2> QED BY <2>1
<1>9. r[m][l] = h
  <2>1. Len(r[m][l]) = m /\ \A i \in 1 .. m : r[m][l][i] = h[i]
    BY <1>6 DEF Partly
  <2>2. Len(r[m][l]) = Len(h) /\ \A i \in 1 .. Len(r[m][l]) : r[m][l][i] = h[i]
    BY <2>1 DEF m
  <2> QED BY <1>8, <2>2, SeqEqual
<1>10. \A i \in 1 .. l - 1 : r[m][i] = W[i]
  BY <1>6 DEF Partly
<1>11. Spelled(W, r[m], h)
  BY <1>7, <1>9, <1>10, Zenon DEF Spelled, l
<1> QED BY <1>11, <1>2 DEF W

\* U is W with one more word.
Followed(W, U, h) ==
    /\ Len(U) = Len(W) + 1 /\ U[Len(W) + 1] = h
    /\ \A i \in 1 .. Len(W) : U[i] = W[i]

NoBlank(h) == h \in Seq(TypedChars) /\ \A i \in 1 .. Len(h) : h[i] # "SPACE" /\ h[i] # "CR"

\* A blank and a word: one more word.
LEMMA ReadsNext ==
    ASSUME NEW cmd \in Seq(TypedChars), NEW h, NoBlank(h)
    PROVE  Followed(Words(cmd), Words(cmd \o (<<"SPACE">> \o h)), h)
<1>0. h \in Seq(TypedChars) /\ \A i \in 1 .. Len(h) : h[i] # "SPACE" /\ h[i] # "CR"
  BY Zenon DEF NoBlank
<1>1. <<"SPACE">> \in Seq(TypedChars)
  BY TypedIs
<1> DEFINE mid == cmd \o <<"SPACE">>
<1>2. mid \in Seq(TypedChars)
  BY <1>1, ConcatProperties
<1>3. cmd \o (<<"SPACE">> \o h) = mid \o h
  BY <1>0, <1>1, ConcatAssociative
<1> DEFINE W == Words(cmd)
<1> DEFINE V == Words(mid)
<1> DEFINE U == Words(mid \o h)
<1>4. Blanked(W, V)
  BY ReadsBlank
<1>w. W \in Sentences /\ V \in Sentences
  BY <1>2, WordsTyped
<1> HIDE DEF mid
<1>5. V[Len(V)] = <<>>
  BY <1>4, <1>w DEF Blanked, Sentences
<1>6. Spelled(V, U, h)
  BY <1>0, <1>2, <1>5, ReadsWord
<1> HIDE DEF U, V, W
<1>7. Len(W) \in Nat
  BY <1>w DEF Sentences
<1>8. /\ Len(V) = Len(W) + 1 /\ \A i \in 1 .. Len(W) : V[i] = W[i]
  BY <1>4, Zenon DEF Blanked
<1>9. /\ Len(U) = Len(V) /\ U[Len(V)] = h /\ \A i \in 1 .. Len(V) - 1 : U[i] = V[i]
  BY <1>6, Zenon DEF Spelled
<1>10. Len(U) = Len(W) + 1 /\ U[Len(W) + 1] = h
  BY <1>8, <1>9, Zenon
<1>11. \A i \in 1 .. Len(W) : U[i] = W[i]
  BY <1>7, <1>8, <1>9
<1>12. Followed(W, U, h)
  BY <1>10, <1>11, Zenon DEF Followed
<1> QED BY <1>3, <1>12 DEF U, W

LEMMA EmptyWords == Words(<<>>) = << <<>> >>
<1>1. <<>> \in Seq(TypedChars) /\ Len(<<>>) = 0
  OBVIOUS
<1> QED BY <1>1, WordsSteps

\* What a host reads when the line starts with a word.
LEMMA ReadsFirst ==
    ASSUME NEW h, NoBlank(h)
    PROVE  Len(Words(h)) = 1 /\ Words(h)[1] = h
<1>0. h \in Seq(TypedChars) /\ (\A i \in 1 .. Len(h) : h[i] # "SPACE" /\ h[i] # "CR")
      /\ <<>> \in Seq(TypedChars)
  BY DEF NoBlank
<1>1. <<>> \o h = h
  BY <1>0, ConcatEmptySeq
<1>2. Len(<< <<>> >>) = 1 /\ << <<>> >>[1] = <<>>
  OBVIOUS
<1>3. Words(<<>>)[Len(Words(<<>>))] = <<>>
  BY <1>2, EmptyWords
<1>4. Spelled(Words(<<>>), Words(<<>> \o h), h)
  BY <1>0, <1>3, ReadsWord
<1> QED BY <1>1, <1>2, <1>4, EmptyWords DEF Spelled

LEMMA DebugWords ==
    LET line == <<"d", "e", "b", "u", "g", "CR">>
    IN  line \in Seq(TypedChars) /\ Words(line)[1] = <<"d", "e", "b", "u", "g">>
<1> DEFINE h == <<"d", "e", "b", "u", "g">>
<1>1. h \in Seq(TypedChars)
  BY TypedIs
<1>2. \A i \in 1 .. Len(h) : h[i] # "SPACE" /\ h[i] # "CR"
  OBVIOUS
<1>3. NoBlank(h)
  BY <1>1, <1>2 DEF NoBlank
<1>4. <<"d", "e", "b", "u", "g", "CR">> = h \o <<"CR">>
  OBVIOUS
<1>5. h \o <<"CR">> \in Seq(TypedChars)
  BY TypedIs
<1> HIDE DEF h
<1>6. Len(Words(h)) = 1 /\ Words(h)[1] = h
  BY <1>3, ReadsFirst
<1>7. Blanked(Words(h), Words(h \o <<"CR">>))
  BY <1>1, ReadsBlank
<1>8. 1 \in 1 .. 1
  OBVIOUS
<1>9. Words(h \o <<"CR">>)[1] = h
  BY <1>6, <1>7, <1>8, Zenon DEF Blanked
<1> QED BY <1>4, <1>5, <1>9 DEF h

-----------------------------------------------------------------------------
(* What a host reads of the lines of a script: `debug', `g', and every `e' *)
(* line as far as its j-th byte.                                           *)
\* What a host reads of a command and the address behind it.
Headed(c, hex, line) ==
    /\ line \in Seq(TypedChars) /\ Len(line) = 2 + Len(hex)
    /\ Len(Words(line)) = 2 /\ Words(line)[1] = <<c>> /\ Words(line)[2] = hex

LEMMA HeadWords ==
    ASSUME NEW c \in {"e", "g"}, NEW hex, NoBlank(hex)
    PROVE  Headed(c, hex, <<c, "SPACE">> \o hex)
<1>0. hex \in Seq(TypedChars)
  BY DEF NoBlank
<1>1. c \in TypedChars /\ "SPACE" \in TypedChars /\ c # "SPACE" /\ c # "CR"
  BY TypedIs
<1> DEFINE h == <<c>>
<1>2. h \in Seq(TypedChars) /\ Len(h) = 1 /\ h[1] = c /\ <<"SPACE">> \in Seq(TypedChars)
  BY <1>1
<1>3. NoBlank(h)
  BY <1>1, <1>2 DEF NoBlank
<1>4. <<c, "SPACE">> = h \o <<"SPACE">>
  OBVIOUS
<1> HIDE DEF h
<1>5. (h \o <<"SPACE">>) \o hex = h \o (<<"SPACE">> \o hex)
  BY <1>0, <1>2, ConcatAssociative
<1> DEFINE line == h \o (<<"SPACE">> \o hex)
<1>6. Len(Words(h)) = 1 /\ Words(h)[1] = h
  BY <1>3, ReadsFirst
<1>7. Followed(Words(h), Words(line), hex)
  BY <1>2, ReadsNext
<1>8. line \in Seq(TypedChars) /\ Len(line) = 2 + Len(hex)
  <2> DEFINE tail == <<"SPACE">> \o hex
  <2>t. tail \in Seq(TypedChars) /\ Len(tail) = 1 + Len(hex)
    BY <1>0, <1>2, ConcatProperties
  <2> HIDE DEF tail
  <2>1. h \o tail \in Seq(TypedChars) /\ Len(h \o tail) = Len(h) + Len(tail)
    BY <1>2, <2>t, ConcatProperties
  <2>2. Len(hex) \in Nat
    BY <1>0
  <2>3. Len(h \o tail) = 2 + Len(hex)
    BY <1>2, <2>t, <2>1, <2>2
  <2> QED BY <2>1, <2>3 DEF tail
<1> HIDE DEF line
<1>9. 1 \in 1 .. 1 /\ 1 + 1 = 2
  OBVIOUS
<1>10. Len(Words(line)) = 2 /\ Words(line)[2] = hex /\ Words(line)[1] = h
  BY <1>6, <1>7, <1>9 DEF Followed
<1>11. Headed(c, hex, line)
  BY <1>8, <1>10, Zenon DEF Headed, h
<1>12. <<c, "SPACE">> \o hex = line
  BY <1>4, <1>5, Zenon DEF line
<1> QED BY <1>11, <1>12, Zenon

LEMMA HexNoBlank ==
    ASSUME NEW w \in Seq(DigitChars)
    PROVE  NoBlank(w)
<1>1. DigitChars \subseteq TypedChars /\ \A c \in DigitChars : c # "SPACE" /\ c # "CR"
  BY DigitCharsTyped
<1>2. w \in Seq(TypedChars)
  BY <1>1
<1>3. \A i \in 1 .. Len(w) : w[i] \in DigitChars
  BY ElementOfSeq
<1> QED BY <1>1, <1>2, <1>3 DEF NoBlank

\* `g 100': the command, and where to go.
LEMMA GoWords ==
    LET line == <<"g", "SPACE">> \o Hex(Stage0Origin) \o <<"CR">>
    IN  line \in Seq(TypedChars) /\ Words(line)[1] = <<"g">>
<1> DEFINE hex == Hex(Stage0Origin)
<1>1. Stage0Origin \in Address
  BY DEF Stage0Origin, Address
<1>2. PICK d : Spells(hex, d)
  BY <1>1, HexIs
<1>3. NoBlank(hex)
  BY <1>2, HexNoBlank DEF Spells
<1> HIDE DEF hex
<1> DEFINE head == <<"g", "SPACE">> \o hex
<1>4. "g" \in {"e", "g"}
  OBVIOUS
<1>5. Headed("g", hex, head)
  BY <1>3, <1>4, HeadWords, Zenon
<1> HIDE DEF head
<1>6. head \in Seq(TypedChars) /\ Len(Words(head)) = 2 /\ Words(head)[1] = <<"g">>
  BY <1>5, Zenon DEF Headed
<1>7. Blanked(Words(head), Words(head \o <<"CR">>))
  BY <1>6, ReadsBlank
<1>8. 1 \in 1 .. 2
  OBVIOUS
<1>9. Words(head \o <<"CR">>)[1] = <<"g">>
  BY <1>6, <1>7, <1>8, Zenon DEF Blanked
<1>10. <<"CR">> \in Seq(TypedChars)
  BY TypedIs
<1>11. head \o <<"CR">> \in Seq(TypedChars)
  BY <1>6, <1>10, ConcatProperties
<1> QED BY <1>9, <1>11 DEF head, hex

ByteWord(w, b) == w \in Seq(DigitChars) /\ Len(w) = 2 /\ Value(w) = b

LEMMA ByteWordIs ==
    ASSUME NEW b \in Nat, b < 256
    PROVE  ByteWord(Hex02(b), b)
<1> DEFINE w == Hex02(b)
<1>1. w \in Seq(DigitChars) /\ Len(w) = 2 /\ w[1] = Digits[b \div 16 + 1] /\ w[2] = Digits[(b % 16) + 1]
  BY Hex02Is
<1> HIDE DEF w
<1>2. Value(w) = b
  BY <1>1, ByteRead
<1>3. ByteWord(w, b)
  BY <1>1, <1>2 DEF ByteWord
<1> QED BY <1>3 DEF w

\* What a host reads of an `e' line as far as its j-th byte.
Entered(W, j, hex, bytes) ==
    /\ Len(W) = 2 + j /\ W[1] = <<"e">> /\ W[2] = hex
    /\ \A i \in 1 .. j : W[2 + i] = Hex02(bytes[i])

LEMMA EnteredNext ==
    ASSUME NEW W, NEW U, NEW j \in Nat, NEW hex, NEW bytes,
           Entered(W, j, hex, bytes), Followed(W, U, Hex02(bytes[j + 1]))
    PROVE  Entered(U, j + 1, hex, bytes)
<1>1. /\ Len(W) = 2 + j /\ W[1] = <<"e">> /\ W[2] = hex
      /\ \A i \in 1 .. j : W[2 + i] = Hex02(bytes[i])
  BY Zenon DEF Entered
<1>2. /\ Len(U) = Len(W) + 1 /\ U[Len(W) + 1] = Hex02(bytes[j + 1])
      /\ \A i \in 1 .. Len(W) : U[i] = W[i]
  BY Zenon DEF Followed
<1>3. 1 \in 1 .. 2 + j /\ 2 \in 1 .. 2 + j /\ (2 + j) + 1 = 2 + (j + 1)
  OBVIOUS
<1>4. Len(U) = 2 + (j + 1) /\ U[2 + (j + 1)] = Hex02(bytes[j + 1])
  BY <1>1, <1>2, <1>3
<1>5. U[1] = <<"e">> /\ U[2] = hex
  BY <1>1, <1>2, <1>3
<1>6. ASSUME NEW i \in 1 .. j + 1 PROVE U[2 + i] = Hex02(bytes[i])
  <2>1. CASE i = j + 1
    BY <2>1, <1>4
  <2>2. CASE i \in 1 .. j
    <3>1. 2 + i \in 1 .. 2 + j
      BY <2>2
    <3> QED BY <2>2, <3>1, <1>1, <1>2
  <2>3. i = j + 1 \/ i \in 1 .. j
    OBVIOUS
  <2> QED BY <2>1, <2>2, <2>3
<1> QED BY <1>4, <1>5, <1>6, Zenon DEF Entered

BytePiece(b) == <<"SPACE">> \o Hex02(b)
Pieces(hex, bytes) ==
    << <<"e", "SPACE">> \o hex >> \o [i \in DOMAIN bytes |-> BytePiece(bytes[i])] \o << <<"CR">> >>

\* The pieces of an `e' line: the command and its address, a piece a byte, CR.
PiecesOf(p, hex, bytes) ==
    /\ p \in Seq(Seq(TypedChars)) /\ Len(p) = Len(bytes) + 2
    /\ p[1] = <<"e", "SPACE">> \o hex /\ p[Len(bytes) + 2] = <<"CR">>
    /\ \A i \in 1 .. Len(bytes) : p[1 + i] = BytePiece(bytes[i])

LEMMA BytePieceIs ==
    ASSUME NEW b \in 0 .. 255
    PROVE  /\ NoBlank(Hex02(b)) /\ BytePiece(b) \in Seq(TypedChars) /\ Len(BytePiece(b)) = 3
<1>1. b \in Nat /\ b < 256
  OBVIOUS
<1>2. ByteWord(Hex02(b), b)
  BY <1>1, ByteWordIs
<1> DEFINE w == Hex02(b)
<1>3. w \in Seq(DigitChars) /\ Len(w) = 2
  BY <1>2, Zenon DEF ByteWord
<1> HIDE DEF w
<1>4. NoBlank(w)
  BY <1>3, HexNoBlank
<1>5. w \in Seq(TypedChars) /\ <<"SPACE">> \in Seq(TypedChars) /\ Len(<<"SPACE">>) = 1
  BY <1>4, TypedIs DEF NoBlank
<1> DEFINE q == <<"SPACE">>
<1> HIDE DEF q
<1>6. q \o w \in Seq(TypedChars) /\ Len(q \o w) = Len(q) + Len(w)
  <2>1. q \in Seq(TypedChars)
    BY <1>5 DEF q
  <2> QED BY <2>1, <1>5, ConcatProperties
<1>7. Len(q \o w) = 3
  <2>1. Len(q) = 1
    BY <1>5 DEF q
  <2> QED BY <2>1, <1>3, <1>6
<1> QED BY <1>4, <1>6, <1>7 DEF w, BytePiece, q

\* A sequence with one element before it and one behind.
Framed(p, S, a, y, c) ==
    /\ p \in Seq(S) /\ Len(p) = Len(y) + 2 /\ p[1] = a /\ p[Len(y) + 2] = c
    /\ \A i \in 1 .. Len(y) : p[1 + i] = y[i]

LEMMA FramedIs ==
    ASSUME NEW S, NEW a \in S, NEW c \in S, NEW y \in Seq(S)
    PROVE  Framed(<<a>> \o y \o <<c>>, S, a, y, c)
<1> DEFINE m == Len(y)
<1> DEFINE x == <<a>>
<1> DEFINE z == <<c>>
<1>0. m \in Nat
  BY LenProperties
<1>4. x \in Seq(S) /\ Len(x) = 1 /\ x[1] = a
  OBVIOUS
<1>5. z \in Seq(S) /\ Len(z) = 1 /\ z[1] = c
  OBVIOUS
<1>6. y \in Seq(S) /\ Len(y) = m
  OBVIOUS
<1> HIDE DEF x, z, m
<1> DEFINE u == x \o y
<1>7. u \in Seq(S) /\ Len(u) = 1 + m
  <2>1. u \in Seq(S) /\ Len(u) = Len(x) + Len(y)
    BY <1>4, <1>6, ConcatProperties
  <2> QED BY <2>1, <1>4, <1>6
<1>8. \A i \in 1 .. Len(x) + Len(y) : u[i] = IF i <= Len(x) THEN x[i] ELSE y[i - Len(x)]
  BY <1>4, <1>6, ConcatProperties
<1> HIDE DEF u
<1>9. u[1] = a /\ \A i \in 1 .. m : u[1 + i] = y[i]
  <2>1. 1 \in 1 .. Len(x) + Len(y) /\ 1 <= Len(x)
    BY <1>4, <1>6, <1>0
  <2>2. ASSUME NEW i \in 1 .. m PROVE u[1 + i] = y[i]
    <3>1. 1 + i \in 1 .. Len(x) + Len(y) /\ ~(1 + i <= Len(x)) /\ (1 + i) - Len(x) = i
      BY <1>4, <1>6, <1>0
    <3> QED BY <3>1, <1>8
  <2> QED BY <2>1, <2>2, <1>8, <1>4
<1> DEFINE p == u \o z
<1>10. p \in Seq(S) /\ Len(p) = m + 2
  <2>1. p \in Seq(S) /\ Len(p) = Len(u) + Len(z)
    BY <1>5, <1>7, ConcatProperties
  <2> HIDE DEF p
  <2> QED BY <2>1, <1>0, <1>5, <1>7
<1>11. \A i \in 1 .. Len(u) + Len(z) : p[i] = IF i <= Len(u) THEN u[i] ELSE z[i - Len(u)]
  BY <1>5, <1>7, ConcatProperties
<1> HIDE DEF p
<1>12. p[1] = a
  BY <1>0, <1>5, <1>7, <1>9, <1>11
<1>13. p[m + 2] = c
  <2>1. m + 2 \in 1 .. Len(u) + Len(z) /\ ~(m + 2 <= Len(u)) /\ (m + 2) - Len(u) = 1
    BY <1>0, <1>5, <1>7
  <2> QED BY <2>1, <1>11, <1>5
<1>14. ASSUME NEW i \in 1 .. m PROVE p[1 + i] = y[i]
  <2>1. 1 + i \in 1 .. Len(u) + Len(z) /\ 1 + i <= Len(u)
    BY <1>0, <1>5, <1>7
  <2> QED BY <2>1, <1>11, <1>9
<1>15. Framed(p, S, a, y, c)
  BY <1>10, <1>12, <1>13, <1>14, Zenon DEF Framed, m
<1> QED BY <1>15, Zenon DEF p, u, x, z

\* The pieces of an `e' line, one by one.
LEMMA PiecesAre ==
    ASSUME NEW hex, NoBlank(hex), NEW bytes \in Seq(0 .. 255)
    PROVE  PiecesOf(Pieces(hex, bytes), hex, bytes)
<1> DEFINE m == Len(bytes)
<1> DEFINE S == Seq(TypedChars)
<1> DEFINE head == <<"e", "SPACE">> \o hex
<1> DEFINE y == [i \in DOMAIN bytes |-> BytePiece(bytes[i])]
<1>0. m \in Nat /\ DOMAIN bytes = 1 .. m /\ \A i \in 1 .. m : bytes[i] \in 0 .. 255
  <2>1. m \in Nat /\ DOMAIN bytes = 1 .. m
    BY LenProperties
  <2>2. \A i \in 1 .. m : bytes[i] \in 0 .. 255
    BY ElementOfSeq
  <2> QED BY <2>1, <2>2
<1>1. head \in S
  <2>1. Headed("e", hex, head)
    <3>1. "e" \in {"e", "g"}
      OBVIOUS
    <3> QED BY <3>1, HeadWords, Zenon
  <2> QED BY <2>1, Zenon DEF Headed
<1>2. <<"CR">> \in S
  BY TypedIs
<1> HIDE DEF head
<1>3. \A i \in 1 .. m : BytePiece(bytes[i]) \in S
  BY <1>0, BytePieceIs
<1> HIDE DEF S
<1>4. y \in Seq(S) /\ Len(y) = m /\ \A i \in 1 .. m : y[i] = BytePiece(bytes[i])
  BY <1>0, <1>3
<1> HIDE DEF y, m
<1> DEFINE p == <<head>> \o y \o << <<"CR">> >>
<1>5. Framed(p, S, head, y, <<"CR">>)
  BY <1>1, <1>2, <1>4, FramedIs, Zenon
<1> HIDE DEF p
<1>6. /\ p \in Seq(S) /\ Len(p) = m + 2 /\ p[1] = head /\ p[m + 2] = <<"CR">>
      /\ \A i \in 1 .. m : p[1 + i] = BytePiece(bytes[i])
  BY <1>4, <1>5, Zenon DEF Framed
<1>7. PiecesOf(p, hex, bytes)
  BY <1>6, Zenon DEF PiecesOf, S, head, m
<1>8. Pieces(hex, bytes) = p
  BY Zenon DEF Pieces, p, y, head
<1> QED BY <1>7, <1>8, Zenon

\* What has been written of an `e' line with its j-th byte.
SoFar(c, j, hex, bytes) ==
    /\ c \in Seq(TypedChars) /\ Len(c) = 2 + Len(hex) + 3 * j
    /\ Entered(Words(c), j, hex, bytes)

\* The next byte written is the next byte read.
LEMMA SoFarNext ==
    ASSUME NEW hex \in Seq(TypedChars), NEW bytes \in Seq(0 .. 255), NEW j \in Nat, j < Len(bytes),
           NEW c, SoFar(c, j, hex, bytes)
    PROVE  SoFar(c \o BytePiece(bytes[j + 1]), j + 1, hex, bytes)
<1> DEFINE b == bytes[j + 1]
<1>1. b \in 0 .. 255
  <2>1. j + 1 \in 1 .. Len(bytes)
    OBVIOUS
  <2> QED BY <2>1, ElementOfSeq
<1>2. NoBlank(Hex02(b)) /\ BytePiece(b) \in Seq(TypedChars) /\ Len(BytePiece(b)) = 3
  BY <1>1, BytePieceIs
<1>3. c \in Seq(TypedChars) /\ Len(c) = 2 + Len(hex) + 3 * j /\ Entered(Words(c), j, hex, bytes)
  BY Zenon DEF SoFar
<1>4. Followed(Words(c), Words(c \o BytePiece(b)), Hex02(b))
  BY <1>2, <1>3, ReadsNext, Zenon DEF BytePiece
<1>5. Entered(Words(c \o BytePiece(b)), j + 1, hex, bytes)
  BY <1>3, <1>4, EnteredNext, Zenon
<1> DEFINE p == BytePiece(b)
<1> HIDE DEF p, b
<1>6. c \o p \in Seq(TypedChars) /\ Len(c \o p) = Len(c) + Len(p)
  <2>1. p \in Seq(TypedChars)
    BY <1>2 DEF p
  <2> QED BY <1>3, <2>1, ConcatProperties
<1>7. Len(c \o p) = 2 + Len(hex) + 3 * (j + 1)
  <2>1. Len(hex) \in Nat /\ Len(p) = 3
    BY <1>2 DEF p
  <2> QED BY <2>1, <1>3, <1>6
<1>8. Entered(Words(c \o p), j + 1, hex, bytes)
  BY <1>5, Zenon DEF p
<1>9. SoFar(c \o p, j + 1, hex, bytes)
  BY <1>6, <1>7, <1>8, Zenon DEF SoFar
<1> QED BY <1>9, Zenon DEF p, b

\* What a host reads of a whole `e' line.
LineRead(W, hex, bytes) ==
    /\ W \in Sentences /\ Len(W) = Len(bytes) + 3
    /\ W[1] = <<"e">> /\ W[2] = hex /\ W[Len(bytes) + 3] = <<>>
    /\ \A i \in 1 .. Len(bytes) : W[2 + i] = Hex02(bytes[i])

Fits(hex, bytes) == 3 + Len(hex) + 3 * Len(bytes) <= CmdCapacity

\* No piece of an `e' line is dropped when the line fits the command, and
\* what is read of it are the address and the bytes.
LEMMA LineWords ==
    ASSUME NEW hex, NoBlank(hex), NEW bytes \in Seq(0 .. 255), Fits(hex, bytes)
    PROVE  LET c == FoldLeft(Written, <<>>, Pieces(hex, bytes))
           IN  c \in Seq(TypedChars) /\ LineRead(Words(c), hex, bytes)
<1> DEFINE m == Len(bytes)
<1> DEFINE h == Len(hex)
<1> DEFINE p == Pieces(hex, bytes)
<1>0. m \in Nat /\ h \in Nat /\ hex \in Seq(TypedChars) /\ 3 + h + 3 * m <= CmdCapacity
  BY DEF NoBlank, Fits
<1>1. PiecesOf(p, hex, bytes)
  BY PiecesAre, Zenon
<1>2. /\ p \in Seq(Seq(TypedChars)) /\ Len(p) = m + 2
      /\ p[1] = <<"e", "SPACE">> \o hex /\ p[m + 2] = <<"CR">>
      /\ \A i \in 1 .. m : p[1 + i] = BytePiece(bytes[i])
  BY <1>1, Zenon DEF PiecesOf
<1> HIDE DEF p
<1>3. PICK r \in [0 .. Len(p) -> Seq(TypedChars)] :
          /\ r[0] = <<>>
          /\ \A k \in 1 .. Len(p) : r[k] = Written(r[k - 1], p[k])
          /\ r[Len(p)] = FoldLeft(Written, <<>>, p)
  BY <1>2, WrittenSteps
<1>4. /\ r \in [0 .. m + 2 -> Seq(TypedChars)] /\ r[0] = <<>> /\ r[m + 2] = FoldLeft(Written, <<>>, p)
      /\ \A k \in 1 .. m + 2 : r[k] = Written(r[k - 1], p[k])
  BY <1>2, <1>3
<1> HIDE DEF m, h
<1>5. \A s \in Seq(TypedChars), t \in Seq(TypedChars) :
          Len(s) + Len(t) <= CmdCapacity => Written(s, t) = s \o t
  BY DEF Written, CmdCapacity
<1>6. SoFar(r[1], 0, hex, bytes)
  <2> DEFINE head == <<"e", "SPACE">> \o hex
  <2>1. Headed("e", hex, head)
    <3>1. "e" \in {"e", "g"}
      OBVIOUS
    <3> QED BY <3>1, HeadWords, Zenon
  <2> HIDE DEF head
  <2>2. head \in Seq(TypedChars) /\ Len(head) = 2 + h /\ Len(Words(head)) = 2
        /\ Words(head)[1] = <<"e">> /\ Words(head)[2] = hex
    BY <2>1, Zenon DEF Headed, h
  <2>3. r[1] = Written(<<>>, head)
    <3>1. 1 \in 1 .. m + 2 /\ 1 - 1 = 0
      BY <1>0
    <3>2. p[1] = head
      BY <1>2 DEF head
    <3> QED BY <3>1, <3>2, <1>4
  <2>4. Written(<<>>, head) = <<>> \o head
    <3>1. <<>> \in Seq(TypedChars) /\ Len(<<>>) = 0
      OBVIOUS
    <3>2. Len(<<>>) + Len(head) <= CmdCapacity
      BY <3>1, <2>2, <1>0 DEF CmdCapacity
    <3> QED BY <3>1, <3>2, <2>2, <1>5
  <2>5. r[1] = head
    BY <2>2, <2>3, <2>4, ConcatEmptySeq
  <2>6. Entered(Words(head), 0, hex, bytes)
    <3>1. 2 + 0 = 2 /\ \A i \in 1 .. 0 : FALSE
      OBVIOUS
    <3> QED BY <3>1, <2>2 DEF Entered
  <2>7. Len(head) = 2 + Len(hex) + 3 * 0
    BY <2>2, <1>0 DEF h
  <2> QED BY <2>2, <2>5, <2>6, <2>7 DEF SoFar
<1> DEFINE T == {j \in Nat : j <= m => SoFar(r[j + 1], j, hex, bytes)}
<1>7. 0 \in T
  BY <1>6
<1>8. ASSUME NEW j \in Nat, j \in T PROVE j + 1 \in T
  <2> SUFFICES ASSUME j + 1 <= m PROVE SoFar(r[j + 2], j + 1, hex, bytes)
    OBVIOUS
  <2>1. SoFar(r[j + 1], j, hex, bytes)
    BY <1>8, <1>0
  <2>2. j < m /\ j + 2 \in 1 .. m + 2 /\ (j + 2) - 1 = j + 1 /\ j + 1 \in 1 .. m /\ 1 + (j + 1) = j + 2
    BY <1>0
  <2> DEFINE c == r[j + 1]
  <2> DEFINE q == BytePiece(bytes[j + 1])
  <2>3. c \in Seq(TypedChars) /\ Len(c) = 2 + h + 3 * j
    BY <2>1, Zenon DEF SoFar, h
  <2>4. p[j + 2] = q
    BY <1>2, <2>2
  <2>5. bytes[j + 1] \in 0 .. 255
    BY <2>2, ElementOfSeq DEF m
  <2>6. q \in Seq(TypedChars) /\ Len(q) = 3
    BY <2>5, BytePieceIs
  <2>7. r[j + 2] = Written(c, q)
    BY <2>2, <2>4, <1>4
  <2> HIDE DEF c, q
  <2>8. Len(c) + Len(q) <= CmdCapacity
    BY <2>3, <2>6, <2>2, <1>0 DEF CmdCapacity
  <2>9. r[j + 2] = c \o q
    BY <2>3, <2>6, <2>7, <2>8, <1>5
  <2>10. SoFar(c \o q, j + 1, hex, bytes)
    <3>1. j < Len(bytes)
      BY <2>2 DEF m
    <3>2. SoFar(c, j, hex, bytes)
      BY <2>1 DEF c
    <3> QED BY <3>1, <3>2, <1>0, SoFarNext, Zenon DEF q
  <2> QED BY <2>9, <2>10
<1> HIDE DEF T
<1>9. m \in T
  BY <1>7, <1>8, <1>0, SetInduction
<1>10. SoFar(r[m + 1], m, hex, bytes)
  BY <1>9, <1>0 DEF T
<1> DEFINE c == r[m + 1]
<1> DEFINE q == <<"CR">>
<1>11. c \in Seq(TypedChars) /\ Len(c) = 2 + h + 3 * m /\ Entered(Words(c), m, hex, bytes)
  BY <1>10, Zenon DEF SoFar, h
<1>12. r[m + 2] = Written(c, q)
  <2>1. m + 2 \in 1 .. m + 2 /\ (m + 2) - 1 = m + 1
    BY <1>0
  <2> QED BY <2>1, <1>2, <1>4
<1>13. q \in Seq(TypedChars) /\ Len(q) = 1
  BY TypedIs
<1>14. Blanked(Words(c), Words(c \o q))
  BY <1>11, ReadsBlank
<1> HIDE DEF c, q
<1>15. Len(c) + Len(q) <= CmdCapacity
  BY <1>11, <1>13, <1>0 DEF CmdCapacity
<1>16. r[m + 2] = c \o q
  BY <1>5, <1>11, <1>12, <1>13, <1>15
<1>17. c \o q \in Seq(TypedChars)
  BY <1>11, <1>13, ConcatProperties
<1> DEFINE W == Words(c)
<1> DEFINE U == Words(c \o q)
<1>18. U \in Sentences
  BY <1>17, WordsTyped
<1> HIDE DEF W, U
<1>19. /\ Len(W) = 2 + m /\ W[1] = <<"e">> /\ W[2] = hex
       /\ \A i \in 1 .. m : W[2 + i] = Hex02(bytes[i])
  BY <1>11, Zenon DEF Entered, W
<1>20. /\ Len(U) = Len(W) + 1 /\ U[Len(W) + 1] = <<>>
       /\ \A i \in 1 .. Len(W) : U[i] = W[i]
  BY <1>14, Zenon DEF Blanked, U, W
<1>21. (2 + m) + 1 = m + 3 /\ 1 \in 1 .. 2 + m /\ 2 \in 1 .. 2 + m
  BY <1>0
<1>22. Len(U) = m + 3 /\ U[m + 3] = <<>> /\ U[1] = <<"e">> /\ U[2] = hex
  BY <1>19, <1>20, <1>21
<1>23. ASSUME NEW i \in 1 .. m PROVE U[2 + i] = Hex02(bytes[i])
  <2>1. 2 + i \in 1 .. 2 + m
    BY <1>0
  <2> QED BY <2>1, <1>19, <1>20
<1>24. LineRead(U, hex, bytes)
  BY <1>18, <1>22, <1>23, Zenon DEF LineRead, m
<1> QED BY <1>4, <1>16, <1>17, <1>24, Zenon DEF U, p

-----------------------------------------------------------------------------
(* The chunks of an image, and the memory their lines are entered in.      *)
\* Lines and bytes: products of naturals, and rounding up.
LEMMA Times ==
    ASSUME NEW a \in Nat, NEW b \in Nat, a <= b, NEW e \in Nat
    PROVE  a * e <= b * e /\ a * e \in Nat /\ b * e \in Nat
  OBVIOUS

LEMMA TimesNext ==
    ASSUME NEW a \in Nat, NEW e \in Nat
    PROVE  (a + 1) * e = a * e + e /\ a * e \in Nat
  OBVIOUS

LEMMA Quotient ==
    ASSUME NEW n \in Nat, NEW e \in Nat \ {0}
    PROVE  /\ n \div e \in Nat /\ (n \div e) * e <= n /\ n < (n \div e) * e + e
  OBVIOUS

\* The chunks cover the image, and none is empty.
LEMMA ChunksIs ==
    ASSUME NEW l \in Nat, NEW e \in Nat \ {0}, NEW n, n = (l + e - 1) \div e
    PROVE  n \in Nat /\ l <= n * e /\ \A k \in 1 .. n : (k - 1) * e < l
<1>1. l + e - 1 \in Nat
  OBVIOUS
<1>2. n \in Nat /\ n * e <= l + e - 1 /\ l + e - 1 < n * e + e
  BY <1>1, Quotient
<1>3. ASSUME NEW k \in 1 .. n PROVE (k - 1) * e < l
  <2>1. k - 1 \in Nat /\ (k - 1) + 1 = k
    OBVIOUS
  <2>2. k * e = (k - 1) * e + e /\ (k - 1) * e \in Nat
    BY <2>1, TimesNext
  <2>3. k * e <= n * e /\ k * e \in Nat /\ n * e \in Nat
    BY <1>2, Times
  <2> QED BY <1>2, <2>2, <2>3
<1>4. n * e \in Nat
  BY <1>2, Times
<1> QED BY <1>2, <1>3, <1>4

LEMMA MinIs ==
    ASSUME NEW a \in Int, NEW b \in Int
    PROVE  Min({a, b}) = IF a <= b THEN a ELSE b
<1> DEFINE S == {a, b}
<1> DEFINE m == IF a <= b THEN a ELSE b
<1>1. m \in S /\ \A y \in S : y \in Int /\ m <= y
  OBVIOUS
<1>2. \A x \in S : (\A y \in S : x <= y) => x = m
  BY <1>1
<1> HIDE DEF S, m
<1>3. Min(S) = m
  BY <1>1, <1>2 DEF Min
<1> QED BY <1>3 DEF S, m

CutOf(t, S, s, m, n) ==
    t \in Seq(S) /\ Len(t) = n - m + 1 /\ \A i \in 1 .. n - m + 1 : t[i] = s[m + i - 1]

\* A cut of a sequence.
LEMMA CutIs ==
    ASSUME NEW S, NEW s \in Seq(S), NEW m \in Nat, NEW n \in Nat, 1 <= m, m <= n, n <= Len(s)
    PROVE  CutOf(SubSeq(s, m, n), S, s, m, n)
<1>1. \A i \in m .. n : s[i] \in S
  <2>1. \A i \in m .. n : i \in 1 .. Len(s)
    OBVIOUS
  <2> QED BY <2>1, ElementOfSeq
<1>2. m \in Int /\ n \in Int
  OBVIOUS
<1>3. /\ SubSeq(s, m, n) \in Seq(S)
      /\ Len(SubSeq(s, m, n)) = IF m <= n THEN n - m + 1 ELSE 0
      /\ \A i \in 1 .. n - m + 1 : SubSeq(s, m, n)[i] = s[m + i - 1]
  BY <1>1, <1>2, SubSeqProperties
<1> QED BY <1>3 DEF CutOf

\* The k-th chunk: where it lies in the image and what it holds.
ChunkOf(bytes, bin, lo, hi) ==
    /\ bytes \in Seq(0 .. 255) /\ Len(bytes) = hi - lo
    /\ \A i \in 1 .. hi - lo : bytes[i] = bin[lo + i]

Bounds(lo, hi, k, l) ==
    /\ lo = (k - 1) * EChunk /\ lo \in Nat /\ hi \in Nat /\ lo < hi /\ hi <= l /\ hi - lo <= EChunk
    /\ \A i \in 1 .. l : i <= k * EChunk => i <= hi

\* The k-th chunk starts where the one before it ended.
LEMMA ChunkIs ==
    ASSUME NEW bin \in Seq(0 .. 255), NEW k \in 1 .. Chunks(bin)
    PROVE  \E lo, hi : Bounds(lo, hi, k, Len(bin)) /\ ChunkOf(Chunk(bin, k), bin, lo, hi)
<1> DEFINE l == Len(bin)
<1> DEFINE lo == (k - 1) * EChunk
<1> DEFINE top == k * EChunk
<1> DEFINE hi == Min({top, l})
<1>0. l \in Nat /\ EChunk \in Nat \ {0}
  BY ScriptAssumption
<1>1. Chunks(bin) \in Nat /\ \A j \in 1 .. Chunks(bin) : (j - 1) * EChunk < l
  <2>1. Chunks(bin) = (l + EChunk - 1) \div EChunk
    BY DEF Chunks
  <2> HIDE DEF l
  <2> QED BY <2>1, <1>0, ChunksIs
<1>2. lo < l /\ k - 1 \in Nat /\ (k - 1) + 1 = k
  BY <1>1
<1>3. top = lo + EChunk /\ lo \in Nat
  <2>1. ((k - 1) + 1) * EChunk = (k - 1) * EChunk + EChunk /\ (k - 1) * EChunk \in Nat
    BY <1>0, <1>2, TimesNext
  <2> QED BY <2>1, <1>2
<1>4. Chunk(bin, k) = SubSeq(bin, lo + 1, hi)
  BY Zenon DEF Chunk
<1>lo. lo = (k - 1) * EChunk
  OBVIOUS
<1>top. top = k * EChunk
  OBVIOUS
<1> HIDE DEF lo, top
<1>5. hi = IF top <= l THEN top ELSE l
  <2>1. top \in Int /\ l \in Int
    BY <1>0, <1>3
  <2> HIDE DEF l
  <2> QED BY <2>1, MinIs
<1> HIDE DEF hi
<1>6. hi \in Nat /\ lo < hi /\ hi <= l /\ hi - lo <= EChunk
  BY <1>0, <1>2, <1>3, <1>5
<1>7. \A i \in 1 .. l : i <= top => i <= hi
  BY <1>0, <1>3, <1>5
<1>8. Bounds(lo, hi, k, l)
  BY <1>3, <1>6, <1>7, <1>lo, <1>top DEF Bounds
<1> DEFINE bytes == SubSeq(bin, lo + 1, hi)
<1>9. lo + 1 \in Nat /\ 1 <= lo + 1 /\ lo + 1 <= hi /\ hi <= Len(bin)
  BY <1>3, <1>6
<1>10. CutOf(bytes, 0 .. 255, bin, lo + 1, hi)
  BY <1>6, <1>9, CutIs
<1> HIDE DEF bytes
<1>11. hi - (lo + 1) + 1 = hi - lo /\ \A i \in 1 .. hi - lo : lo + 1 + i - 1 = lo + i
  BY <1>3, <1>6
<1>12. bytes \in Seq(0 .. 255) /\ Len(bytes) = hi - lo /\ \A i \in 1 .. hi - lo : bytes[i] = bin[lo + i]
  BY <1>10, <1>11 DEF CutOf
<1>13. ChunkOf(bytes, bin, lo, hi)
  BY <1>12 DEF ChunkOf
<1> QED BY <1>4, <1>8, <1>13 DEF bytes, l

\* A line enters the bytes it shows where it says, and nothing else.
EnteredAt(M, mem, n, bytes) ==
    /\ \A i \in 1 .. Len(bytes) : n + i - 1 \in DOMAIN M /\ M[n + i - 1] = bytes[i]
    /\ \A a \in Int : a < n /\ a \in DOMAIN mem => a \in DOMAIN M /\ M[a] = mem[a]

\* DEBUG enters the bytes of a line one behind the other.
LEMMA EnterIs ==
    ASSUME NEW mem, NEW n \in Nat, NEW bytes \in Seq(0 .. 255), NEW W, NEW hex,
           LineRead(W, hex, bytes)
    PROVE  EnteredAt(Enter(mem, n, SubSeq(W, 3, Len(W))), mem, n, bytes)
<1> DEFINE m == Len(bytes)
<1> DEFINE ws == SubSeq(W, 3, Len(W))
<1>0. m \in Nat /\ \A i \in 1 .. m : bytes[i] \in Nat /\ bytes[i] < 256
  <2>1. m \in Nat
    BY LenProperties
  <2>2. \A i \in 1 .. m : bytes[i] \in 0 .. 255
    BY ElementOfSeq
  <2>3. \A b \in 0 .. 255 : b \in Nat /\ b < 256
    OBVIOUS
  <2> QED BY <2>1, <2>2, <2>3
<1>1. /\ W \in Seq(Seq(TypedChars)) /\ Len(W) = m + 3 /\ W[m + 3] = <<>>
      /\ \A i \in 1 .. m : W[2 + i] = Hex02(bytes[i])
  BY DEF LineRead, Sentences
<1> HIDE DEF m
<1>2. /\ ws \in Seq(Seq(TypedChars)) /\ Len(ws) = m + 1 /\ \A i \in 1 .. m + 1 : ws[i] = W[2 + i]
  <2>1. Len(W) \in Nat /\ 3 <= Len(W) /\ Len(W) - 3 + 1 = m + 1 /\ 3 \in Nat
        /\ \A i \in 1 .. m + 1 : 3 + i - 1 = 2 + i
    BY <1>0, <1>1
  <2>2. CutOf(ws, Seq(TypedChars), W, 3, Len(W))
    BY <1>1, <2>1, CutIs
  <2> HIDE DEF ws
  <2> QED BY <2>1, <2>2 DEF CutOf
<1> DEFINE B == {i \in DOMAIN ws : ws[i] # <<>>}
<1> DEFINE M == [a \in DOMAIN mem \cup {n + i - 1 : i \in B} |->
                     IF a - n + 1 \in B THEN Value(ws[a - n + 1]) ELSE mem[a]]
<1>3. Enter(mem, n, ws) = M
  BY Zenon DEF Enter
<1>4. DOMAIN ws = 1 .. m + 1
  BY <1>2, LenProperties
<1> HIDE DEF ws
<1>5. ASSUME NEW i \in 1 .. m PROVE ws[i] # <<>> /\ Value(ws[i]) = bytes[i]
  <2>1. i \in 1 .. m + 1
    BY <1>0
  <2>2. ws[i] = Hex02(bytes[i])
    BY <2>1, <1>1, <1>2
  <2>3. bytes[i] \in Nat /\ bytes[i] < 256
    BY <1>0, Zenon
  <2>4. ByteWord(ws[i], bytes[i])
    BY <2>2, <2>3, ByteWordIs
  <2>5. Len(ws[i]) = 2 /\ Value(ws[i]) = bytes[i]
    BY <2>4, Zenon DEF ByteWord
  <2>6. Len(<<>>) # 2
    OBVIOUS
  <2>7. ws[i] # <<>>
    BY <2>5, <2>6, Zenon
  <2> QED BY <2>5, <2>7, Zenon
<1>6. ws[m + 1] = <<>>
  <2>1. m + 1 \in 1 .. m + 1 /\ 2 + (m + 1) = m + 3
    BY <1>0
  <2> QED BY <2>1, <1>1, <1>2
<1>7. B = 1 .. m
  <2>1. \A i \in 1 .. m + 1 : i \in 1 .. m \/ i = m + 1
    BY <1>0
  <2>2. \A i \in 1 .. m : i \in 1 .. m + 1
    BY <1>0
  <2> QED BY <2>1, <2>2, <1>4, <1>5, <1>6
<1> HIDE DEF B
<1>8. ASSUME NEW i \in 1 .. m PROVE n + i - 1 \in DOMAIN M /\ M[n + i - 1] = bytes[i]
  <2>1. i \in B /\ (n + i - 1) - n + 1 = i
    BY <1>7, <1>0
  <2>2. n + i - 1 \in DOMAIN mem \cup {n + j - 1 : j \in B}
    BY <2>1
  <2>3. M[n + i - 1] = Value(ws[i])
    BY <2>1, <2>2
  <2> QED BY <2>2, <2>3, <1>5
<1>9. ASSUME NEW a \in Int, a < n, a \in DOMAIN mem PROVE a \in DOMAIN M /\ M[a] = mem[a]
  <2>1. a - n + 1 \notin B
    BY <1>7, <1>9, <1>0
  <2> QED BY <2>1, <1>9
<1> HIDE DEF M
<1>10. EnteredAt(M, mem, n, bytes)
  BY <1>8, <1>9 DEF EnteredAt, m
<1> QED BY <1>3, <1>10 DEF ws

-----------------------------------------------------------------------------
(* What a host of its class reads of the script for an image, and where the *)
(* lines leave it.                                                         *)
BootClasses == {"Xt", "At", "Ps2"}

\* The k-th `e' line of an image is read as the k-th chunk and its address.
ChunkRead(W, bin, k) ==
    \E lo, hi, hex, bytes :
        /\ Bounds(lo, hi, k, Len(bin)) /\ ChunkOf(bytes, bin, lo, hi)
        /\ LineRead(W, hex, bytes) /\ Value(hex) = Stage0Origin + lo

\* An image fits the segment DEBUG enters it in.
ComFile(bin) == bin \in Seq(0 .. 255) /\ Len(bin) <= 65536 - Stage0Origin

\* The k-th `e' line, as it is typed and read back.
LEMMA ELineRead ==
    ASSUME NEW bin, ComFile(bin), NEW k \in 1 .. Chunks(bin)
    PROVE  ELine(bin, k) \in Seq(TypedChars) /\ ChunkRead(Words(ELine(bin, k)), bin, k)
<1>0. bin \in Seq(0 .. 255) /\ 256 + Len(bin) <= 65536 /\ Len(bin) \in Nat
  <2>1. bin \in Seq(0 .. 255) /\ Len(bin) <= 65536 - Stage0Origin
    BY DEF ComFile
  <2>2. Len(bin) \in Nat
    BY <2>1, LenProperties
  <2> QED BY <2>1, <2>2 DEF Stage0Origin
<1>1. PICK lo, hi : Bounds(lo, hi, k, Len(bin)) /\ ChunkOf(Chunk(bin, k), bin, lo, hi)
  BY <1>0, ChunkIs
<1>2. /\ lo = (k - 1) * EChunk /\ lo \in Nat /\ hi \in Nat /\ lo < hi
      /\ hi <= Len(bin) /\ hi - lo <= EChunk
  BY <1>1, Zenon DEF Bounds
<1> DEFINE bytes == Chunk(bin, k)
<1> DEFINE n == Stage0Origin + lo
<1> DEFINE hex == Hex(n)
<1>3. bytes \in Seq(0 .. 255) /\ Len(bytes) = hi - lo
  BY <1>1, Zenon DEF ChunkOf
<1>4. n \in Address
  BY <1>0, <1>2 DEF Address, Stage0Origin
<1>n. n \in Nat
  BY <1>4 DEF Address
<1>5. ELine(bin, k) = FoldLeft(Written, <<>>, Pieces(hex, bytes))
  BY <1>2, Zenon DEF ELine, Pieces, BytePiece
<1> HIDE DEF bytes, n
<1>6. PICK d : Nibbles(n, d) /\ Spells(hex, d)
  BY <1>4, HexIs
<1>7. Value(hex) = n
  BY <1>6, <1>n, AddressRead, Zenon
<1> HIDE DEF hex
<1>8. hex \in Seq(DigitChars) /\ Len(hex) \in 3 .. 4
  BY <1>6, Zenon DEF Spells
<1>9. NoBlank(hex)
  BY <1>8, HexNoBlank
<1>10. Fits(hex, bytes)
  <2>1. EChunk \in Nat /\ 7 + 3 * EChunk <= CmdCapacity
    BY ScriptAssumption
  <2> DEFINE x == Len(hex)
  <2> DEFINE y == Len(bytes)
  <2>2. x \in 3 .. 4 /\ y = hi - lo
    BY <1>3, <1>8, Zenon
  <2> HIDE DEF x, y
  <2>3. x \in Nat /\ x <= 4 /\ CmdCapacity \in Nat
    BY <2>2 DEF CmdCapacity
  <2>4. 3 + x + 3 * y <= CmdCapacity
    BY <2>1, <2>2, <2>3, <1>2
  <2> QED BY <2>4 DEF Fits, x, y
<1> DEFINE line == FoldLeft(Written, <<>>, Pieces(hex, bytes))
<1>11. line \in Seq(TypedChars) /\ LineRead(Words(line), hex, bytes)
  BY <1>3, <1>9, <1>10, LineWords, Zenon
<1> HIDE DEF line
<1>12. ChunkOf(bytes, bin, lo, hi) /\ Value(hex) = Stage0Origin + lo
  BY <1>1, <1>7, Zenon DEF bytes, n
<1>13. ChunkRead(Words(line), bin, k)
  BY <1>1, <1>11, <1>12, Zenon DEF ChunkRead
<1> QED BY <1>5, <1>11, <1>13, Zenon DEF line

\* type_script takes the XT image for an XT host, the other for the rest.
LEMMA ImageIs ==
    ASSUME NEW class \in BootClasses
    PROVE  /\ ComFile(Image[class])
           /\ Image[class] = Image[IF class = "Xt" THEN "Xt" ELSE "At"]
<1>1. Image \in [BootClasses -> Seq(0 .. 255)] /\ Image["Ps2"] = Image["At"]
      /\ \A c \in DOMAIN Image : Len(Image[c]) <= 65536 - Stage0Origin
  BY ScriptAssumption DEF BootClasses
<1>2. DOMAIN Image = BootClasses
  BY <1>1
<1>3. class = "Xt" \/ class = "At" \/ class = "Ps2"
  BY DEF BootClasses
<1>4. Image[class] \in Seq(0 .. 255)
  BY <1>1
<1>5. Len(Image[class]) <= 65536 - Stage0Origin
  BY <1>1, <1>2
<1>6. Image[class] = Image[IF class = "Xt" THEN "Xt" ELSE "At"]
  BY <1>1, <1>3
<1> QED BY <1>4, <1>5, <1>6 DEF ComFile

DebugWord == <<"d", "e", "b", "u", "g">>

\* What a host of the class a script is typed for reads of it.
ScriptRead(words, bin) ==
    /\ DOMAIN words = 1 .. Chunks(bin) + 2 /\ Chunks(bin) \in Nat
    /\ words[1][1] = DebugWord /\ words[Chunks(bin) + 2][1] = <<"g">>
    /\ \A k \in 1 .. Chunks(bin) : ChunkRead(words[1 + k], bin, k)

(* injector.rs, type_debug_stage0: whatever the image and the bytes on a    *)
(* line, a host of the class typed for reads the command that launches     *)
(* DEBUG, a line for every chunk of the image with its address and its     *)
(* bytes, and the command that starts it: no character without a code, no  *)
(* piece dropped for want of room, no digit misread.                       *)
THEOREM WordsReadAre ==
    ASSUME NEW class \in BootClasses
    PROVE  ScriptRead(WordsRead[class], Image[class])
<1> DEFINE bin == Image[class]
<1> DEFINE n == Chunks(bin)
<1> DEFINE S == Seq(TypedChars)
<1> DEFINE first == <<"d", "e", "b", "u", "g", "CR">>
<1> DEFINE last == <<"g", "SPACE">> \o Hex(Stage0Origin) \o <<"CR">>
<1> DEFINE y == [k \in 1 .. n |-> ELine(bin, k)]
<1> DEFINE script == Script(class)
<1>1. ComFile(bin)
  BY ImageIs
<1>2. n \in Nat
  <2>1. n = (Len(bin) + EChunk - 1) \div EChunk
    BY DEF Chunks
  <2>2. Len(bin) \in Nat /\ EChunk \in Nat \ {0}
    BY <1>1, LenProperties, ScriptAssumption DEF ComFile
  <2> HIDE DEF bin, n
  <2> QED BY <2>1, <2>2, ChunksIs
<1>3. script = <<first>> \o y \o <<last>>
  BY Zenon DEF Script
<1>4. first \in S /\ Words(first)[1] = DebugWord
  BY DebugWords DEF DebugWord
<1>5. last \in S /\ Words(last)[1] = <<"g">>
  BY GoWords
<1> HIDE DEF first, last, script
<1>6. \A k \in 1 .. n : ELine(bin, k) \in S /\ ChunkRead(Words(ELine(bin, k)), bin, k)
  BY <1>1, ELineRead
<1> HIDE DEF S, n
<1>7. y \in Seq(S) /\ Len(y) = n /\ \A k \in 1 .. n : y[k] = ELine(bin, k)
  BY <1>2, <1>6
<1> HIDE DEF y, bin
<1>8. Framed(script, S, first, y, last)
  <2>1. Framed(<<first>> \o y \o <<last>>, S, first, y, last)
    BY <1>4, <1>5, <1>7, FramedIs
  <2> QED BY <2>1, <1>3
<1>9. /\ script \in Seq(S) /\ Len(script) = n + 2 /\ script[1] = first /\ script[n + 2] = last
      /\ \A k \in 1 .. n : script[1 + k] = ELine(bin, k)
  BY <1>7, <1>8, Zenon DEF Framed
<1>10. DOMAIN script = 1 .. n + 2 /\ \A i \in 1 .. n + 2 : script[i] \in S
  <2>1. DOMAIN script = 1 .. Len(script)
    BY <1>9, LenProperties
  <2>2. \A i \in 1 .. Len(script) : script[i] \in S
    BY <1>9, ElementOfSeq
  <2> QED BY <2>1, <2>2, <1>9
<1> DEFINE W == WordsRead[class]
<1>11. W = [i \in DOMAIN script |-> Words(Decoded(class = "Xt", TypeAscii(class, script[i])))]
  BY Zenon DEF WordsRead, BootClasses, script
<1> HIDE DEF W
<1>12. ASSUME NEW i \in 1 .. n + 2 PROVE W[i] = Words(script[i])
  <2>1. script[i] \in Seq(TypedChars)
    BY <1>10 DEF S
  <2>2. CASE class = "Xt"
    <3>1. Decoded(TRUE, TypeAscii("Xt", script[i])) = script[i]
      BY <2>1, ReadXt
    <3>2. (class = "Xt") = TRUE
      BY <2>2
    <3>3. Decoded(class = "Xt", TypeAscii(class, script[i])) = script[i]
      BY <2>2, <3>1, <3>2
    <3> QED BY <3>3, <1>10, <1>11
  <2>3. CASE class # "Xt"
    <3>1. Decoded(FALSE, TypeAscii(class, script[i])) = script[i]
      BY <2>1, <2>3, ReadAt
    <3>2. (class = "Xt") = FALSE
      BY <2>3
    <3>3. Decoded(class = "Xt", TypeAscii(class, script[i])) = script[i]
      BY <3>1, <3>2
    <3> QED BY <3>3, <1>10, <1>11
  <2> QED BY <2>2, <2>3
<1>13. DOMAIN W = 1 .. n + 2
  BY <1>10, <1>11
<1>14. 1 \in 1 .. n + 2 /\ n + 2 \in 1 .. n + 2 /\ \A k \in 1 .. n : 1 + k \in 1 .. n + 2
  BY <1>2
<1>15. W[1][1] = DebugWord /\ W[n + 2][1] = <<"g">>
  BY <1>4, <1>5, <1>9, <1>12, <1>14
<1>16. \A k \in 1 .. n : ChunkRead(W[1 + k], bin, k)
  BY <1>6, <1>9, <1>12, <1>14
<1>17. ScriptRead(W, bin)
  BY <1>2, <1>13, <1>15, <1>16 DEF ScriptRead, n
<1> QED BY <1>17 DEF W, bin

\* The memory holds the first bytes of an image, as far as k lines enter them.
Prefix(mem, bin, k) ==
    \A i \in 1 .. Len(bin) : i <= k * EChunk =>
        Stage0Origin + i - 1 \in DOMAIN mem /\ mem[Stage0Origin + i - 1] = bin[i]

\* A line adds its chunk to what has been entered, ...
LEMMA PrefixNext ==
    ASSUME NEW bin, ComFile(bin), NEW k \in Nat \ {0}, NEW lo, NEW hi, NEW bytes, NEW mem, NEW M,
           Bounds(lo, hi, k, Len(bin)), ChunkOf(bytes, bin, lo, hi),
           EnteredAt(M, mem, Stage0Origin + lo, bytes), Prefix(mem, bin, k - 1)
    PROVE  Prefix(M, bin, k)
<1> DEFINE n == Stage0Origin + lo
<1>1. /\ lo = (k - 1) * EChunk /\ lo \in Nat /\ hi \in Nat /\ lo < hi /\ hi <= Len(bin)
      /\ \A i \in 1 .. Len(bin) : i <= k * EChunk => i <= hi
  BY DEF Bounds
<1>2. Len(bytes) = hi - lo /\ \A i \in 1 .. hi - lo : bytes[i] = bin[lo + i]
  BY DEF ChunkOf
<1>3. /\ \A i \in 1 .. Len(bytes) : n + i - 1 \in DOMAIN M /\ M[n + i - 1] = bytes[i]
      /\ \A a \in Int : a < n /\ a \in DOMAIN mem => a \in DOMAIN M /\ M[a] = mem[a]
  BY DEF EnteredAt
<1>4. \A i \in 1 .. Len(bin) : i <= lo =>
          Stage0Origin + i - 1 \in DOMAIN mem /\ mem[Stage0Origin + i - 1] = bin[i]
  BY <1>1 DEF Prefix
<1>5. n = Stage0Origin + lo /\ Stage0Origin \in Nat
  BY DEF Stage0Origin
<1>l. Len(bin) \in Nat
  <2>1. bin \in Seq(0 .. 255)
    BY DEF ComFile
  <2> QED BY <2>1, LenProperties
<1> DEFINE o == Stage0Origin
<1> DEFINE l == Len(bin)
<1> HIDE DEF n, o, l
<1>6. o \in Nat /\ n = o + lo /\ l \in Nat
  BY <1>5, <1>l DEF o, l
<1>7. ASSUME NEW i \in 1 .. l, i <= hi PROVE o + i - 1 \in DOMAIN M /\ M[o + i - 1] = bin[i]
  <2>1. CASE i <= lo
    <3>1. o + i - 1 \in DOMAIN mem /\ mem[o + i - 1] = bin[i]
      BY <2>1, <1>4 DEF o, l
    <3>2. o + i - 1 \in Int /\ o + i - 1 < n
      BY <2>1, <1>1, <1>6
    <3> QED BY <3>1, <3>2, <1>3
  <2>2. CASE ~(i <= lo)
    <3>0. lo \in Nat /\ hi \in Nat /\ i \in Nat /\ 1 <= i
      BY <1>1
    <3>1. i - lo \in 1 .. hi - lo /\ lo + (i - lo) = i /\ n + (i - lo) - 1 = o + i - 1
      BY <2>2, <3>0, <1>6, <1>7
    <3>2. n + (i - lo) - 1 \in DOMAIN M /\ M[n + (i - lo) - 1] = bytes[i - lo]
      BY <3>1, <1>2, <1>3
    <3> QED BY <3>1, <3>2, <1>2
  <2> QED BY <2>1, <2>2
<1> QED BY <1>1, <1>7 DEF Prefix, o, l

\* ... and the last one completes the image.
LEMMA PrefixWhole ==
    ASSUME NEW bin, ComFile(bin), NEW mem, Prefix(mem, bin, Chunks(bin))
    PROVE  \A i \in DOMAIN bin : /\ Stage0Origin + i - 1 \in DOMAIN mem
                                 /\ mem[Stage0Origin + i - 1] = bin[i]
<1>1. bin \in Seq(0 .. 255)
  BY DEF ComFile
<1> DEFINE l == Len(bin)
<1> DEFINE n == Chunks(bin)
<1>2. l \in Nat /\ DOMAIN bin = 1 .. l
  BY <1>1, LenProperties
<1>3. EChunk \in Nat \ {0}
  BY ScriptAssumption
<1>4. n = (l + EChunk - 1) \div EChunk
  BY DEF Chunks
<1>5. \A i \in 1 .. l : i <= n * EChunk =>
          Stage0Origin + i - 1 \in DOMAIN mem /\ mem[Stage0Origin + i - 1] = bin[i]
  BY DEF Prefix
<1> HIDE DEF l, n
<1>6. n \in Nat /\ l <= n * EChunk
  BY <1>2, <1>3, <1>4, ChunksIs
<1>7. n * EChunk \in Nat
  BY <1>3, <1>6, Times
<1>8. \A i \in 1 .. l : i <= n * EChunk
  BY <1>2, <1>6, <1>7
<1> QED BY <1>2, <1>5, <1>8

Shaped(h) == h = [xt |-> h.xt, runs |-> h.runs, mem |-> h.mem, dirty |-> h.dirty]

\* A host in DEBUG has read the lines before the i-th of the script for bin.
AtLine(h, bin, i) ==
    h.runs = "debug" => /\ ~h.dirty /\ i \in 2 .. Chunks(bin) + 2
                        /\ Prefix(h.mem, bin, i - 2)

Loaded(mem, bin) ==
    \A i \in DOMAIN bin : /\ Stage0Origin + i - 1 \in DOMAIN mem
                          /\ mem[Stage0Origin + i - 1] = bin[i]

\* What a line leaves: the host one line on, or in Stage 0.
LineObeyed(g, h, bin, i) ==
    /\ Shaped(g) /\ g.xt = h.xt /\ AtLine(g, bin, i + 1)
    /\ g.runs = "stage0" => (h.runs = "stage0" /\ g.mem = h.mem) \/ Loaded(g.mem, bin)

LEMMA WordsDiffer == DebugWord # <<"e">> /\ DebugWord # <<"g">> /\ <<"e">> # <<"g">>
  BY DEF DebugWord

\* Whatever a host does with a line of the script for its class -- reset, with
\* an unfinished command or in Stage 0 it may ignore it -- it is then one line
\* on or in a Stage 0 that has its image.
LEMMA ReadsLine ==
    ASSUME NEW class \in BootClasses, NEW h, Shaped(h), NEW i \in DOMAIN WordsRead[class],
           AtLine(h, Image[class], i)
    PROVE  LineObeyed(HostReads(h, WordsRead[class][i]), h, Image[class], i)
<1> DEFINE bin == Image[class]
<1> DEFINE n == Chunks(bin)
<1> DEFINE W == WordsRead[class]
<1> DEFINE g == HostReads(h, W[i])
<1>1. ComFile(bin)
  BY ImageIs
<1>2. ScriptRead(W, bin)
  BY WordsReadAre
<1>3. /\ DOMAIN W = 1 .. n + 2 /\ n \in Nat
      /\ W[1][1] = DebugWord /\ W[n + 2][1] = <<"g">>
      /\ \A k \in 1 .. n : ChunkRead(W[1 + k], bin, k)
  BY <1>2, Zenon DEF ScriptRead
<1>4. \A k \in 1 .. n : W[1 + k][1] = <<"e">>
  <2> TAKE k \in 1 .. n
  <2>1. ChunkRead(W[1 + k], bin, k)
    BY <1>3
  <2> QED BY <2>1, Zenon DEF ChunkRead, LineRead
<1>5. AtLine(h, bin, i) /\ i \in DOMAIN W
  OBVIOUS
<1> HIDE DEF W, bin, n
<1>6. i = 1 \/ i = n + 2 \/ \E k \in 1 .. n : i = 1 + k
  <2>1. i \in 1 .. n + 2
    BY <1>3, <1>5
  <2>2. CASE i # 1 /\ i # n + 2
    <3>1. i - 1 \in 1 .. n /\ i = 1 + (i - 1)
      BY <2>1, <2>2, <1>3
    <3> QED BY <3>1
  <2> QED BY <2>2
<1>7. CASE h.dirty
  <2>1. g = [h EXCEPT !.dirty = FALSE]
    BY <1>7 DEF HostReads
  <2>2. h.runs # "debug"
    BY <1>5, <1>7 DEF AtLine
  <2> HIDE DEF g
  <2>3. Shaped(g) /\ g.xt = h.xt /\ g.runs = h.runs /\ g.mem = h.mem
    BY <2>1 DEF Shaped
  <2>4. LineObeyed(g, h, bin, i)
    BY <2>2, <2>3, Zenon DEF LineObeyed, AtLine
  <2> QED BY <2>4 DEF g, W, bin
<1>8. CASE ~h.dirty /\ h.runs = "dos" /\ W[i][1] = DebugWord
  <2>1. g = [h EXCEPT !.runs = "debug"]
    BY <1>8 DEF HostReads, DebugWord
  <2>2. i = 1
    BY <1>8, <1>3, <1>4, <1>6, WordsDiffer
  <2> HIDE DEF g
  <2>3. Shaped(g) /\ g.xt = h.xt /\ g.runs = "debug" /\ g.dirty = h.dirty
    BY <2>1 DEF Shaped
  <2>4. Prefix(g.mem, bin, (i + 1) - 2)
    <3>1. (i + 1) - 2 = 0 /\ 0 * EChunk = 0
      BY <2>2, ScriptAssumption
    <3>2. \A j \in 1 .. Len(bin) : ~(j <= 0)
      OBVIOUS
    <3> QED BY <3>1, <3>2 DEF Prefix
  <2>5. i + 1 \in 2 .. n + 2
    BY <2>2, <1>3
  <2>6. AtLine(g, bin, i + 1)
    <3>1. ~g.dirty
      BY <2>3, <1>8
    <3>2. i + 1 \in 2 .. Chunks(bin) + 2
      BY <2>5 DEF n
    <3> QED BY <3>1, <3>2, <2>4, Zenon DEF AtLine
  <2>7. LineObeyed(g, h, bin, i)
    <3>1. g.runs # "stage0"
      BY <2>3
    <3> QED BY <2>3, <2>6, <3>1, Zenon DEF LineObeyed
  <2> QED BY <2>7 DEF g, W, bin
<1>9. CASE ~h.dirty /\ h.runs = "debug"
  <2>0. i \in 2 .. n + 2 /\ Prefix(h.mem, bin, i - 2)
    BY <1>5, <1>9, Zenon DEF AtLine, n
  <2>1. CASE \E k \in 1 .. n : i = 1 + k
    <3>1. PICK k \in 1 .. n : i = 1 + k
      BY <2>1
    <3>2. W[i][1] = <<"e">> /\ ChunkRead(W[i], bin, k)
      BY <3>1, <1>3, <1>4
    <3> DEFINE M == Enter(h.mem, Value(W[i][2]), SubSeq(W[i], 3, Len(W[i])))
    <3>3. g = [h EXCEPT !.mem = M]
      BY <1>9, <3>2, WordsDiffer DEF HostReads, DebugWord
    <3>4. PICK lo, hi, hex, bytes :
              /\ Bounds(lo, hi, k, Len(bin)) /\ ChunkOf(bytes, bin, lo, hi)
              /\ LineRead(W[i], hex, bytes) /\ Value(hex) = Stage0Origin + lo
      BY <3>2, Zenon DEF ChunkRead
    <3>5. W[i][2] = hex
      BY <3>4, Zenon DEF LineRead
    <3>6. bytes \in Seq(0 .. 255)
      BY <3>4, Zenon DEF ChunkOf
    <3>7. Stage0Origin + lo \in Nat
      <4>1. lo \in Nat
        BY <3>4, Zenon DEF Bounds
      <4> QED BY <4>1 DEF Stage0Origin
    <3>8. M = Enter(h.mem, Stage0Origin + lo, SubSeq(W[i], 3, Len(W[i])))
      BY <3>4, <3>5, Zenon
    <3> HIDE DEF M, g
    <3>9. EnteredAt(M, h.mem, Stage0Origin + lo, bytes)
      BY <3>4, <3>6, <3>7, <3>8, EnterIs, Zenon
    <3>10. k \in Nat \ {0} /\ i - 2 = k - 1 /\ (i + 1) - 2 = k /\ i + 1 \in 2 .. n + 2
      BY <3>1, <1>3
    <3>11. Prefix(h.mem, bin, k - 1)
      BY <2>0, <3>10
    <3>12. Prefix(M, bin, k)
      BY <3>4, <3>9, <3>10, <3>11, <1>1, PrefixNext
    <3>13. Shaped(g) /\ g.xt = h.xt /\ g.runs = "debug" /\ g.mem = M /\ g.dirty = h.dirty
      BY <3>3, <1>9 DEF Shaped
    <3>14. AtLine(g, bin, i + 1)
      <4>1. Prefix(g.mem, bin, (i + 1) - 2)
        BY <3>10, <3>12, <3>13
      <4> QED BY <4>1, <3>10, <3>13, <1>9, Zenon DEF AtLine, n
    <3>15. g.runs # "stage0"
      BY <3>13
    <3>16. LineObeyed(g, h, bin, i)
      BY <3>13, <3>14, <3>15, Zenon DEF LineObeyed
    <3> QED BY <3>16 DEF g, W, bin
  <2>2. CASE i = n + 2
    <3>1. W[i][1] = <<"g">>
      BY <2>2, <1>3
    <3>2. g = [h EXCEPT !.runs = "stage0"]
      BY <1>9, <3>1, WordsDiffer DEF HostReads, DebugWord
    <3> HIDE DEF g
    <3>3. Shaped(g) /\ g.xt = h.xt /\ g.runs = "stage0" /\ g.mem = h.mem
      BY <3>2 DEF Shaped
    <3>4. i - 2 = n
      BY <2>2, <1>3
    <3>5. Prefix(h.mem, bin, n)
      BY <2>0, <3>4
    <3>6. Loaded(h.mem, bin)
      BY <3>5, <1>1, PrefixWhole DEF n, Loaded
    <3>7. g.runs # "debug"
      BY <3>3
    <3>8. LineObeyed(g, h, bin, i)
      BY <3>3, <3>6, <3>7, Zenon DEF LineObeyed, AtLine
    <3> QED BY <3>8 DEF g, W, bin
  <2>3. i # 1
    BY <2>0, <1>3
  <2> QED BY <2>1, <2>2, <2>3, <1>6
<1>10. CASE ~h.dirty /\ h.runs # "debug" /\ ~(h.runs = "dos" /\ W[i][1] = DebugWord)
  <2>1. g = h
    BY <1>10 DEF HostReads, DebugWord
  <2> HIDE DEF g
  <2>2. LineObeyed(g, h, bin, i)
    BY <1>10, <2>1, Zenon DEF LineObeyed, AtLine
  <2> QED BY <2>2 DEF g, W, bin
<1> QED BY <1>7, <1>8, <1>9, <1>10

-----------------------------------------------------------------------------
(* The classifier and the tasks around it.                                 *)

(* The class typed for is kept by EXCEPT only in a record with both fields. *)
InjShape == inj \in [class : Classes \cup {"none"}, line : Nat]

TypeInv == TypeOK /\ InjShape

(* A class is confirmed, promoted or dropped as the next two lemmas say.   *)
LEMMA StatesFacts ==
  ASSUME st \in States PROVE
  \/ st = Unknown
  \/ /\ st.state = "Candidate" /\ st.class \in {"At", "Xt"} /\ st.streak \in 1 .. Confidence - 1
     /\ st = Candidate(st.class, st.streak)
  \/ /\ st.state = "Confirmed" /\ st.class \in Classes /\ st.streak = Confidence
     /\ st = Confirmed(st.class)
  BY DepthAssumption DEF States, Unknown, Candidate, Confirmed

LEMMA StatesContain ==
  /\ \A k \in {"At", "Xt"}, n \in 1 .. Confidence - 1 : Candidate(k, n) \in States
  /\ \A c \in Classes : Confirmed(c) \in States
  BY DEF States

LEMMA ObserveFacts ==
  ASSUME st \in States, NEW k \in {"At", "Xt"} PROVE
  /\ Observe(k) \in States
  /\ Kind(Observe(k).class) = k
  /\ \/ Observe(k) = st /\ st.state = "Confirmed"
     \/ Observe(k) = Candidate(k, 1) /\ Kind(st.class) # k
     \/ /\ Observe(k) = Candidate(k, st.streak + 1)
        /\ st.state = "Candidate" /\ st.class = k /\ st.streak + 1 < Confidence
     \/ /\ Observe(k) = Confirmed(k)
        /\ st.state = "Candidate" /\ st.class = k /\ st.streak + 1 = Confidence
<1>1. CASE st = Unknown
  BY <1>1, DepthAssumption DEF Observe, Unknown, Candidate, Kind, States
<1>2. CASE /\ st.state = "Candidate" /\ st.class \in {"At", "Xt"}
           /\ st.streak \in 1 .. Confidence - 1
  <2>1. CASE st.class # k
    BY <1>2, <2>1, DepthAssumption DEF Observe, Candidate, Kind, States
  <2>2. CASE st.class = k /\ st.streak + 1 >= Confidence
    <3>1. Observe(k) = Confirmed(k) /\ st.streak + 1 = Confidence
      BY <1>2, <2>2, DepthAssumption DEF Observe, Kind
    <3> QED
      BY <1>2, <2>2, <3>1 DEF Confirmed, Kind, States, Classes
  <2>3. CASE st.class = k /\ ~(st.streak + 1 >= Confidence)
    <3>1. Observe(k) = Candidate(k, st.streak + 1) /\ st.streak + 1 \in 1 .. Confidence - 1
      BY <1>2, <2>3, DepthAssumption DEF Observe, Kind
    <3>2. Observe(k) \in States
      BY <3>1, StatesContain
    <3>3. Kind(Observe(k).class) = k
      BY <3>1 DEF Candidate, Kind
    <3>4. st.streak + 1 < Confidence
      BY <1>2, <2>3, DepthAssumption
    <3> QED
      BY <1>2, <2>3, <3>1, <3>2, <3>3, <3>4
  <2> QED
    BY <2>1, <2>2, <2>3
<1>3. CASE st.state = "Confirmed" /\ st.class \in Classes
  <2>1. CASE Kind(st.class) # k
    <3>1. Observe(k) = Candidate(k, 1) /\ 1 \in 1 .. Confidence - 1
      BY <1>3, <2>1, DepthAssumption DEF Observe
    <3>2. Observe(k) \in States
      BY <3>1, StatesContain
    <3>3. Kind(Observe(k).class) = k
      BY <3>1 DEF Candidate, Kind
    <3> QED
      BY <1>3, <2>1, <3>1, <3>2, <3>3
  <2>2. CASE Kind(st.class) = k
    BY <1>3, <2>2 DEF Observe
  <2> QED
    BY <2>1, <2>2
<1> QED
  BY <1>1, <1>2, <1>3, StatesFacts

-----------------------------------------------------------------------------
(* Type correctness.                                                       *)
LEMMA HandleEventTypes ==
  ASSUME TypeInv, NEW new \in States, HandleEvent(new) PROVE
  /\ trigger' \in Classes \cup {"none"}
  /\ life' \in SupervisorStates
  /\ lost' \subseteq {"trigger", "script"}
<1>1. new.state = "Confirmed" => new.class \in Classes
  BY DEF States, Unknown, Candidate, Confirmed
<1> QED
  BY <1>1 DEF HandleEvent, TypeInv, TypeOK, SupervisorStates

LEMMA TypeStep ==
  ASSUME TypeInv, Next PROVE TypeInv'
<1> USE DEF TypeInv, TypeOK, InjShape
<1>1. CASE SupervisorFrame
  <2> DEFINE new == IF Head(kbdFrames) = "Bad" THEN st ELSE Observe(Head(kbdFrames))
  <2>1. Head(kbdFrames) \in {"At", "Xt", "Bad"} /\ kbdFrames' \in Seq({"At", "Xt", "Bad"})
        /\ Len(kbdFrames') <= KbdDepth
    BY <1>1, DepthAssumption DEF SupervisorFrame
  <2>2. new \in States
    BY <2>1, ObserveFacts
  <2>3. st' = new /\ HandleEvent(new) /\ UNCHANGED <<auxActivity, injVars, booted>>
    BY <1>1 DEF SupervisorFrame
  <2> HIDE DEF new
  <2> QED
    BY <2>1, <2>2, <2>3, HandleEventTypes DEF injVars
<1>2. CASE SupervisorAux
  <2> DEFINE new == IF st = Confirmed("At") THEN Confirmed("Ps2") ELSE st
  <2>1. new \in States
    BY StatesContain DEF Classes
  <2>2. /\ st' = new /\ HandleEvent(new) /\ auxActivity' = FALSE
        /\ UNCHANGED <<kbdFrames, injVars, booted>>
    BY <1>2 DEF SupervisorAux
  <2> HIDE DEF new
  <2> QED
    BY <2>1, <2>2, HandleEventTypes DEF injVars
<1>3. CASE InjectorTrigger
  BY <1>3 DEF InjectorTrigger, SupervisorStates
<1>4. CASE TypeLine
  BY <1>4 DEF TypeLine
<1>5. CASE ScriptDone
  BY <1>5 DEF ScriptDone, SupervisorStates, Idle
<1>6. CASE InjectorRaw
  BY <1>6 DEF InjectorRaw
<1>7. CASE \E f \in {"At", "Xt", "Bad"} : KbdFrame(f)
  <2>1. PICK f \in {"At", "Xt", "Bad"} : KbdFrame(f)
    BY <1>7
  <2>2. /\ Len(kbdFrames) < KbdDepth /\ kbdFrames' = Append(kbdFrames, f)
        /\ UNCHANGED <<st, auxActivity, trigger, injVars, life, booted, lost>>
    BY <2>1 DEF KbdFrame
  <2>3. kbdFrames' \in Seq({"At", "Xt", "Bad"}) /\ Len(kbdFrames') = Len(kbdFrames) + 1
    BY <2>2
  <2>4. Len(kbdFrames') <= KbdDepth
    BY <2>2, <2>3, DepthAssumption
  <2> QED
    BY <2>2, <2>3, <2>4 DEF injVars
<1>8. CASE AuxFrame
  BY <1>8 DEF AuxFrame, injVars
<1>9. CASE \E bytes \in {"keys", "line"} : ControlRaw(bytes)
  BY <1>9 DEF ControlRaw
<1>10. CASE MainReady
  BY <1>10 DEF MainReady, injVars, SupervisorStates
<1>11. CASE HostReset
  BY <1>11 DEF HostReset
<1> QED
  BY <1>1, <1>2, <1>3, <1>4, <1>5, <1>6, <1>7, <1>8, <1>9, <1>10, <1>11
     DEF Next, Supervisor, Injector

LEMMA TypeStutters == TypeInv /\ UNCHANGED vars => TypeInv'
  BY DEF TypeInv, TypeOK, InjShape, vars, injVars

LEMMA TypeInductive == Spec => []TypeInv
<1>1. Init => TypeInv
  <2> SUFFICES ASSUME Init PROVE TypeInv
    OBVIOUS
  <2>1. st \in States
    BY DEF Init, States
  <2>2. kbdFrames = <<>> /\ kbdFrames \in Seq({"At", "Xt", "Bad"}) /\ Len(kbdFrames) <= KbdDepth
    BY DepthAssumption DEF Init
  <2>3. inj = [class |-> "none", line |-> 0]
    BY DEF Init, Idle
  <2>4. /\ auxActivity = FALSE /\ booted = FALSE /\ trigger = "none"
        /\ life = "Boot" /\ lost = {}
    BY DEF Init
  <2>5. InjShape
    BY <2>3 DEF InjShape
  <2> QED
    BY <2>1, <2>2, <2>4, <2>5 DEF TypeInv, TypeOK, InjShape, SupervisorStates
<1> QED
  BY <1>1, TypeStep, TypeStutters, PTL DEF Spec

(* Type correctness of classifier, injector and life cycle: no streak at   *)
(* or beyond the threshold that is not a confirmation, no frame queued     *)
(* beyond the channel's depth.                                             *)
THEOREM Ps2TypeCorrect == Spec => []TypeOK
<1>1. TypeInv => TypeOK
  BY DEF TypeInv
<1> QED
  BY <1>1, TypeInductive, PTL

-----------------------------------------------------------------------------
(* lifecycle.rs: the state cell says InjectDebug only while the injector   *)
(* types, whoever else stores into it.                                     *)
THEOREM InjectShownRight == Spec => []InjectShownOnlyWhileTyping
<1> DEFINE I == InjectShownOnlyWhileTyping
<1>1. Init => I
  BY DEF Init, InjectShownOnlyWhileTyping
<1>2. TypeInv /\ I /\ [Next]_vars => I'
  <2> SUFFICES ASSUME TypeInv, I, [Next]_vars PROVE I'
    OBVIOUS
  <2> USE DEF InjectShownOnlyWhileTyping
  <2>1. CASE Supervisor
    <3>1. inj' = inj /\ life' \in {life, "DetectMachineClass"}
      BY <2>1 DEF Supervisor, SupervisorFrame, SupervisorAux, HandleEvent, injVars
    <3> QED
      BY <3>1
  <2>2. CASE InjectorTrigger
    <3>1. inj' = [class |-> trigger, line |-> 1]
      BY <2>2 DEF InjectorTrigger
    <3> QED
      BY <3>1 DEF Idle
  <2>3. CASE TypeLine
    <3>1. inj'.line # 0
      BY <2>3 DEF TypeLine, TypeInv, InjShape
    <3> QED
      BY <3>1 DEF Idle
  <2>4. CASE ScriptDone
    BY <2>4 DEF ScriptDone
  <2>5. CASE InjectorRaw \/ AuxFrame \/ HostReset \/ UNCHANGED vars
    BY <2>5 DEF InjectorRaw, AuxFrame, HostReset, injVars, vars
  <2>6. CASE (\E f \in {"At", "Xt", "Bad"} : KbdFrame(f)) \/ \E bytes \in {"keys", "line"} : ControlRaw(bytes)
    BY <2>6 DEF KbdFrame, ControlRaw, injVars
  <2>7. CASE MainReady
    BY <2>7 DEF MainReady
  <2> QED
    BY <2>1, <2>2, <2>3, <2>4, <2>5, <2>6, <2>7 DEF Next, Injector
<1> QED
  BY <1>1, <1>2, TypeInductive, PTL DEF Spec

-----------------------------------------------------------------------------
LEMMA HoldsKept ==
  ASSUME TypeInv, NEW new \in States, HandleEvent(new), st' = new, inj' = inj,
         FreshUnlessReset,
         \/ new = st
         \/ new.state # "Confirmed"
         \/ st.state # "Confirmed"
         \/ st = Confirmed("At") /\ new = Confirmed("Ps2")
  PROVE  FreshUnlessReset'
<1>1. CASE new = st
  BY <1>1 DEF HandleEvent, FreshUnlessReset, Holds
<1>2. CASE new.state # "Confirmed" /\ new # st
  <2>1. CASE st.state = "Confirmed"
    BY <1>2, <2>1 DEF HandleEvent, FreshUnlessReset
  <2>2. CASE st.state # "Confirmed"
    BY <1>2, <2>2 DEF HandleEvent, FreshUnlessReset, Holds
  <2> QED
    BY <2>1, <2>2
<1>3. CASE new.state = "Confirmed" /\ new # st
  <2>1. trigger' = new.class /\ lost' = lost \ {"trigger"}
    BY <1>3 DEF HandleEvent
  <2>2. Holds(trigger)'
    BY <1>3, <2>1 DEF Holds
  <2>3. Holds(inj.class) => Holds(inj.class)'
    BY <1>3 DEF Holds, Confirmed
  <2> QED
    BY <2>1, <2>2, <2>3 DEF FreshUnlessReset
<1> QED
  BY <1>1, <1>2, <1>3

(* The class typed for, or about to be, is the host's as the classifier    *)
(* knows it, unless that was taken back since it was handed over.          *)
THEOREM ScriptIsFresh == Spec => []FreshUnlessReset
<1>1. Init => FreshUnlessReset
  BY DEF Init, FreshUnlessReset
<1>2. TypeInv /\ FreshUnlessReset /\ [Next]_vars => FreshUnlessReset'
  <2> SUFFICES ASSUME TypeInv, FreshUnlessReset, [Next]_vars PROVE FreshUnlessReset'
    OBVIOUS
  <2>1. CASE SupervisorFrame
    <3> DEFINE new == IF Head(kbdFrames) = "Bad" THEN st ELSE Observe(Head(kbdFrames))
    <3>1. Head(kbdFrames) \in {"At", "Xt", "Bad"} /\ st \in States
      BY <2>1 DEF SupervisorFrame, TypeInv, TypeOK
    <3>2. /\ new \in States
          /\ new = st \/ new.state # "Confirmed" \/ st.state # "Confirmed"
      BY <3>1, ObserveFacts DEF Candidate
    <3>3. HandleEvent(new) /\ st' = new /\ inj' = inj
      BY <2>1 DEF SupervisorFrame, injVars
    <3> HIDE DEF new
    <3> QED
      BY <3>2, <3>3, HoldsKept
  <2>2. CASE SupervisorAux
    <3> DEFINE new == IF st = Confirmed("At") THEN Confirmed("Ps2") ELSE st
    <3>1. new \in States
      BY StatesContain DEF TypeInv, TypeOK, Classes
    <3>2. new = st \/ (st = Confirmed("At") /\ new = Confirmed("Ps2"))
      OBVIOUS
    <3>3. HandleEvent(new) /\ st' = new /\ inj' = inj
      BY <2>2 DEF SupervisorAux, injVars
    <3> HIDE DEF new
    <3> QED
      BY <3>1, <3>2, <3>3, HoldsKept
  <2>3. CASE InjectorTrigger
    <3>1. /\ trigger # "none" /\ trigger' = "none" /\ st' = st
          /\ inj' = [class |-> trigger, line |-> 1]
          /\ lost' = IF "trigger" \in lost THEN lost \cup {"script"} ELSE lost \ {"script"}
      BY <2>3 DEF InjectorTrigger
    <3>2. inj'.class = trigger
      BY <3>1
    <3>3. "script" \notin lost' => Holds(trigger)
      BY <3>1 DEF FreshUnlessReset
    <3> QED
      BY <3>1, <3>2, <3>3 DEF FreshUnlessReset, Holds
  <2>4. CASE TypeLine
    <3>1. inj # Idle /\ inj'.class = inj.class /\ UNCHANGED <<st, trigger, lost>>
      BY <2>4 DEF TypeLine, TypeInv, InjShape
    <3> QED
      BY <3>1 DEF FreshUnlessReset, Holds
  <2>5. CASE ScriptDone
    BY <2>5 DEF ScriptDone, FreshUnlessReset, Holds
  <2>6. CASE InjectorRaw \/ AuxFrame \/ HostReset \/ MainReady \/ UNCHANGED vars
    BY <2>6 DEF InjectorRaw, AuxFrame, HostReset, MainReady, injVars, vars, FreshUnlessReset, Holds
  <2>7. CASE (\E f \in {"At", "Xt", "Bad"} : KbdFrame(f)) \/ \E bytes \in {"keys", "line"} : ControlRaw(bytes)
    BY <2>7 DEF KbdFrame, ControlRaw, injVars, FreshUnlessReset, Holds
  <2> QED
    BY <2>1, <2>2, <2>3, <2>4, <2>5, <2>6, <2>7 DEF Next, Supervisor, Injector
<1> QED
  BY <1>1, <1>2, TypeInductive, PTL DEF Spec

-----------------------------------------------------------------------------
(* A frame observed is a step of HostClass, whatever it changes here.      *)
LEMMA ObserveIsFrame ==
  ASSUME st \in States, NEW k \in {"At", "Xt"}, st' = Observe(k)
  PROVE  HC!Frame(k)
<1>1. CASE Observe(k) = st /\ st.state = "Confirmed"
  <2>1. Kind(st.class) = k /\ st.streak = Confidence /\ st' = st
    BY <1>1, ObserveFacts, StatesFacts DEF Unknown
  <2> QED
    BY <2>1, DepthAssumption DEF HC!Frame
<1>2. CASE Observe(k) = Candidate(k, 1) /\ Kind(st.class) # k
  <2>1. Kind(st'.class) = k /\ st'.streak = 1 /\ st'.class # "Ps2"
    BY <1>2 DEF Candidate, Kind
  <2> QED
    BY <1>2, <2>1 DEF HC!Frame
<1>3. CASE /\ st.state = "Candidate" /\ st.class = k
           /\ \/ Observe(k) = Candidate(k, st.streak + 1)
              \/ Observe(k) = Confirmed(k) /\ st.streak + 1 = Confidence
  <2>1. Kind(st'.class) = k /\ st'.streak = st.streak + 1 /\ st'.class # "Ps2"
    BY <1>3 DEF Candidate, Confirmed, Kind
  <2>2. Kind(st.class) = k /\ st.class # "Ps2" /\ st.streak \in 1 .. Confidence - 1
    BY <1>3, StatesFacts DEF Kind, Unknown
  <2>3. st.streak < Confidence
    BY <2>2, DepthAssumption
  <2> QED
    BY <2>1, <2>2, <2>3 DEF HC!Frame
<1> QED
  BY <1>1, <1>2, <1>3, ObserveFacts, Zenon

(* The classifier implements HostClass: its class follows from the last    *)
(* run of frames and the AUX traffic since, and no usable frame is taken   *)
(* from the queue without counting.                                        *)
THEOREM ClassifierImplementsHostClass == Spec => ClassFollowsFrames
<1>1. Init => HC!Init
  BY DEF Init, HC!Init, Unknown, Kind
<1>2. TypeInv /\ [Next]_vars => [HC!Next]_(HC!vars)
  <2> SUFFICES ASSUME TypeInv, [Next]_vars PROVE HC!Next \/ UNCHANGED HC!vars
    OBVIOUS
  <2>1. CASE SupervisorFrame
    <3>1. Head(kbdFrames) \in {"At", "Xt", "Bad"} /\ st \in States
      BY <2>1 DEF SupervisorFrame, TypeInv, TypeOK
    <3>2. CASE Head(kbdFrames) = "Bad"
      <4>1. st' = st
        BY <2>1, <3>2 DEF SupervisorFrame
      <4> QED
        BY <4>1 DEF HC!vars
    <3>3. CASE Head(kbdFrames) # "Bad"
      <4>1. st' = Observe(Head(kbdFrames))
        BY <2>1, <3>3 DEF SupervisorFrame
      <4> QED
        BY <3>1, <3>3, <4>1, ObserveIsFrame DEF HC!Next
    <3> QED
      BY <3>2, <3>3
  <2>2. CASE SupervisorAux
    <3>1. CASE st = Confirmed("At")
      <4>1. st' = Confirmed("Ps2")
        BY <2>2, <3>1 DEF SupervisorAux
      <4>2. HC!AuxTraffic
        BY <3>1, <4>1, DepthAssumption DEF HC!AuxTraffic, HC!Class, Confirmed, Kind
      <4> QED
        BY <4>2 DEF HC!Next
    <3>2. CASE st # Confirmed("At")
      <4>1. st' = st
        BY <2>2, <3>2 DEF SupervisorAux
      <4> QED
        BY <4>1 DEF HC!vars
    <3> QED
      BY <3>1, <3>2
  <2>3. CASE ~SupervisorFrame /\ ~SupervisorAux
    <3>1. st' = st
      BY <2>3 DEF Next, Supervisor, Injector, InjectorTrigger, TypeLine, ScriptDone, InjectorRaw,
             KbdFrame, AuxFrame, ControlRaw, MainReady, HostReset, vars
    <3> QED
      BY <3>1 DEF HC!vars
  <2> QED
    BY <2>1, <2>2, <2>3
<1>3. TypeInv /\ [Next]_vars => [FrameTaken => HC!Frame(Head(kbdFrames))]_vars
  <2> SUFFICES ASSUME TypeInv, [Next]_vars, FrameTaken PROVE HC!Frame(Head(kbdFrames))
    OBVIOUS
  <2>1. /\ kbdFrames \in Seq({"At", "Xt", "Bad"}) /\ kbdFrames # <<>>
        /\ Head(kbdFrames) \in {"At", "Xt"} /\ kbdFrames' = Tail(kbdFrames) /\ st \in States
    BY DEF FrameTaken, TypeInv, TypeOK
  <2> DEFINE n == Len(kbdFrames)
  <2>2. Len(kbdFrames') # n /\ Len(kbdFrames') # n + 1
    <3>1. \A i \in Nat : i - 1 # i /\ i - 1 # i + 1
      OBVIOUS
    <3>2. n \in Nat /\ Len(kbdFrames') = n - 1
      BY <2>1
    <3> QED
      BY <3>1, <3>2, Zenon
  <2>3. SupervisorFrame
    <3>1. kbdFrames' # kbdFrames
      BY <2>2, Zenon
    <3>2. ~\E f \in {"At", "Xt", "Bad"} : KbdFrame(f)
      <4>1. \A f \in {"At", "Xt", "Bad"} : Len(Append(kbdFrames, f)) = n + 1
        BY <2>1
      <4> QED
        BY <2>2, <4>1, Zenon DEF KbdFrame
    <3> QED
      BY <3>1, <3>2 DEF Next, Supervisor, Injector, SupervisorAux, InjectorTrigger, TypeLine,
         ScriptDone, InjectorRaw, AuxFrame, ControlRaw, MainReady, HostReset, vars
  <2>4. st' = Observe(Head(kbdFrames))
    BY <2>1, <2>3 DEF SupervisorFrame
  <2> QED
    BY <2>1, <2>4, ObserveIsFrame
<1> QED
  BY <1>1, <1>2, <1>3, TypeInductive, PTL DEF Spec, ClassFollowsFrames, HC!Spec

-----------------------------------------------------------------------------
(* The host and the script.                                               *)
\* The image for a host of this class.
HostImage(h) == Image[IF h.xt THEN "Xt" ELSE "At"]

(* In DEBUG, the host is of the class typed for and has entered what the   *)
(* lines before this one hold; in Stage 0, its image is in its memory.     *)
HostInv ==
    /\ Shaped(host) /\ host.xt \in BOOLEAN
    /\ inj = Idle \/ inj.class \in BootClasses
    /\ host.runs = "debug" => /\ inj # Idle /\ (host.xt <=> inj.class = "Xt")
                              /\ AtLine(host, Image[inj.class], inj.line)
    /\ host.runs = "stage0" => Loaded(host.mem, HostImage(host))

LEMMA HostKept ==
    HostInv /\ host' = host /\ inj' = inj => HostInv'
  BY DEF HostInv, Shaped, Idle, AtLine, Loaded, HostImage, Prefix

LEMMA HostAfterLine ==
    ASSUME TypeInv, HostInv, TypeLine PROVE HostInv'
<1> DEFINE class == inj.class
<1> DEFINE i == inj.line
<1>1. /\ inj # Idle /\ i \in DOMAIN WordsRead[class]
      /\ host' = HostTyped(host, class, i) /\ inj' = [inj EXCEPT !.line = @ + 1]
  BY DEF TypeLine
<1>2. inj'.class = class /\ inj'.line = i + 1 /\ class \in BootClasses /\ i \in Nat
  BY <1>1 DEF TypeInv, InjShape, HostInv
<1>3. inj' # Idle
  BY <1>2 DEF Idle
<1>4. Shaped(host) /\ host.xt \in BOOLEAN
  BY DEF HostInv
<1>5. host.runs = "debug" => (host.xt <=> class = "Xt") /\ AtLine(host, Image[class], i)
  BY Zenon DEF HostInv
<1>6. host.runs = "stage0" => Loaded(host.mem, HostImage(host))
  BY Zenon DEF HostInv
<1> HIDE DEF class, i
<1>7. CASE host.xt <=> class = "Xt"
  <2>1. host' = HostReads(host, WordsRead[class][i])
    BY <1>1, <1>4, <1>7 DEF HostTyped
  <2>2. AtLine(host, Image[class], i)
    BY <1>5, Zenon DEF AtLine
  <2>3. LineObeyed(host', host, Image[class], i)
    BY <1>1, <1>2, <1>4, <2>1, <2>2, ReadsLine
  <2>4. /\ Shaped(host') /\ host'.xt = host.xt /\ AtLine(host', Image[class], i + 1)
        /\ host'.runs = "stage0" =>
               (host.runs = "stage0" /\ host'.mem = host.mem) \/ Loaded(host'.mem, Image[class])
    BY <2>3, Zenon DEF LineObeyed
  <2>5. HostImage(host) = Image[class] /\ HostImage(host') = Image[class]
    BY <1>2, <1>4, <1>7, <2>4, ImageIs DEF HostImage
  <2>6. host'.runs = "stage0" => Loaded(host'.mem, HostImage(host'))
    BY <1>6, <2>4, <2>5, Zenon
  <2>7. Shaped(host)' /\ host'.xt \in BOOLEAN
    BY <1>4, <2>4 DEF Shaped
  <2>8. host'.runs = "debug" => /\ inj' # Idle /\ (host'.xt <=> inj'.class = "Xt")
                                /\ AtLine(host', Image[inj'.class], inj'.line)
    BY <1>2, <1>3, <1>7, <2>4
  <2> QED BY <1>2, <2>6, <2>7, <2>8 DEF HostInv, AtLine, Loaded, HostImage, Shaped, Idle, Prefix
<1>8. CASE ~(host.xt <=> class = "Xt")
  <2>1. host' = [host EXCEPT !.dirty = TRUE]
    BY <1>1, <1>4, <1>8 DEF HostTyped
  <2>2. Shaped(host') /\ host'.xt = host.xt /\ host'.runs = host.runs /\ host'.mem = host.mem
    BY <1>4, <2>1 DEF Shaped
  <2>3. host.runs # "debug"
    BY <1>5, <1>8
  <2>4. host'.runs = "stage0" => Loaded(host'.mem, HostImage(host'))
    BY <1>6, <2>2 DEF HostImage
  <2> QED BY <1>2, <1>4, <2>2, <2>3, <2>4 DEF HostInv, AtLine, Loaded, HostImage, Shaped, Idle, Prefix
<1> QED BY <1>7, <1>8

LEMMA HostNext ==
    ASSUME TypeInv, HostInv, [Next]_vars PROVE HostInv'
<1>1. CASE Supervisor
  BY <1>1, HostKept DEF Supervisor, SupervisorFrame, SupervisorAux, injVars
<1>2. CASE InjectorTrigger
  <2>1. /\ inj = Idle /\ host' = host /\ inj' = [class |-> trigger, line |-> 1]
        /\ trigger \in BootClasses
    BY <1>2 DEF InjectorTrigger, TypeInv, TypeOK, Classes, BootClasses
  <2>2. host.runs # "debug"
    BY <2>1, Zenon DEF HostInv
  <2>3. /\ Shaped(host) /\ host.xt \in BOOLEAN
        /\ host.runs = "stage0" => Loaded(host.mem, HostImage(host))
    BY Zenon DEF HostInv
  <2> QED BY <2>1, <2>2, <2>3 DEF HostInv, Loaded, HostImage, Shaped
<1>3. CASE TypeLine
  BY <1>3, HostAfterLine
<1>4. CASE ScriptDone
  <2>1. inj # Idle /\ inj.line \notin DOMAIN WordsRead[inj.class] /\ inj' = Idle /\ host' = host
    BY <1>4 DEF ScriptDone
  <2>2. host.runs # "debug"
    <3> SUFFICES ASSUME host.runs = "debug" PROVE FALSE
      OBVIOUS
    <3>1. inj.class \in BootClasses /\ AtLine(host, Image[inj.class], inj.line)
      BY <2>1, Zenon DEF HostInv
    <3>2. inj.line \in 2 .. Chunks(Image[inj.class]) + 2
      BY <3>1, Zenon DEF AtLine
    <3>3. DOMAIN WordsRead[inj.class] = 1 .. Chunks(Image[inj.class]) + 2
      BY <3>1, WordsReadAre, Zenon DEF ScriptRead
    <3> QED BY <2>1, <3>2, <3>3
  <2>3. /\ Shaped(host) /\ host.xt \in BOOLEAN
        /\ host.runs = "stage0" => Loaded(host.mem, HostImage(host))
    BY Zenon DEF HostInv
  <2> QED BY <2>1, <2>2, <2>3 DEF HostInv, Loaded, HostImage, Shaped
<1>5. CASE InjectorRaw
  <2>1. /\ inj = Idle /\ inj' = inj
        /\ host' = [host EXCEPT !.dirty = host.xt \/ Head(rawQ) # "line"]
    BY <1>5 DEF InjectorRaw
  <2>2. host.runs # "debug"
    BY <2>1, Zenon DEF HostInv
  <2>3. /\ Shaped(host) /\ host.xt \in BOOLEAN
        /\ host.runs = "stage0" => Loaded(host.mem, HostImage(host))
    BY Zenon DEF HostInv
  <2>4. Shaped(host') /\ host'.xt = host.xt /\ host'.runs = host.runs /\ host'.mem = host.mem
    BY <2>1, <2>3 DEF Shaped
  <2> QED BY <2>1, <2>2, <2>3, <2>4 DEF HostInv, Loaded, HostImage, Shaped, Idle
<1>6. CASE (\E f \in {"At", "Xt", "Bad"} : KbdFrame(f)) \/ AuxFrame \/ MainReady
           \/ (\E bytes \in {"keys", "line"} : ControlRaw(bytes)) \/ UNCHANGED vars
  BY <1>6, HostKept DEF KbdFrame, AuxFrame, MainReady, ControlRaw, injVars, vars
<1>7. CASE HostReset
  <2>1. /\ inj' = inj
        /\ host' = [host EXCEPT !.runs = "dos", !.mem = <<>>, !.dirty = FALSE]
    BY <1>7 DEF HostReset
  <2>2. Shaped(host) /\ host.xt \in BOOLEAN /\ (inj = Idle \/ inj.class \in BootClasses)
    BY Zenon DEF HostInv
  <2>3. Shaped(host') /\ host'.xt = host.xt /\ host'.runs = "dos"
    BY <2>1, <2>2 DEF Shaped
  <2> QED BY <2>1, <2>2, <2>3 DEF HostInv, Shaped, Idle
<1> QED BY <1>1, <1>2, <1>3, <1>4, <1>5, <1>6, <1>7 DEF Next, Injector

(* injector.rs: whatever resets the host, changes its mind or is typed in  *)
(* between, a Stage 0 that starts has every byte of its image where DEBUG  *)
(* was told to put it.                                                     *)
THEOREM Stage0FromItsImage == Spec => []ImageTyped
<1>1. Init => HostInv
  <2> SUFFICES ASSUME Init PROVE HostInv
    OBVIOUS
  <2>1. PICK xt \in BOOLEAN :
            host = [xt |-> xt, runs |-> "dos", mem |-> <<>>, dirty |-> FALSE]
    BY DEF Init
  <2>2. inj = Idle
    BY DEF Init
  <2> QED BY <2>1, <2>2 DEF HostInv, Shaped
<1>2. HostInv => ImageTyped
  BY DEF HostInv, ImageTyped, Loaded, HostImage
<1> QED BY <1>1, <1>2, HostNext, TypeInductive, PTL DEF Spec
=============================================================================
