----------------------------- MODULE VfsProofs -----------------------------
(***************************************************************************)
(* Proofs about the file system that _start builds (Vfs.tla) and the       *)
(* descriptors on it (Descriptors.tla), for any archives, any sizes of the *)
(* tables and any calls.                                                   *)
(*                                                                         *)
(* The argument.  A fold over a sequence is the last value of a walk, by   *)
(* induction; so the header of an entry lies behind the blocks of those    *)
(* before it, and vfs_get_node_by_path ends where the names lead one by    *)
(* one.  While init_initramfs runs (Walk), it is at the header of some     *)
(* entry and all entries before that one have a node; every node of the    *)
(* table (Content) is a file of the archive or a directory that an entry   *)
(* lies in, and the directories above it are in the table.  With what      *)
(* _start has set up so far (Phase) this is inductive.  In a directory     *)
(* tree nothing lies below a file, so that a path whose directories are in *)
(* the table leads to its node (Led); and in any table a step of the walk  *)
(* ends at the node of the path walked so far (OwnPath).                   *)
(***************************************************************************)
EXTENDS Descriptors, SequenceTheorems, WellFoundedInduction, TLAPS

(* Folds over sequences, by induction *)

Less == {p \in Nat \X Nat : p[1] < p[2]}

LEMMA Induction ==
  ASSUME NEW G, 0 \in G, \A n \in Nat : n \in G => n + 1 \in G
  PROVE  \A n \in Nat : n \in G
<1> SUFFICES ASSUME Nat \ G # {} PROVE FALSE
  OBVIOUS
<1>1. IsWellFoundedOn(Less, Nat)
  BY NatLessThanWellFounded DEF OpToRel, Less
<1>2. PICK n \in Nat \ G : \A m \in Nat \ G : <<m, n>> \notin Less
  BY <1>1, WFMin
<1>3. n # 0 /\ n - 1 \in Nat /\ n - 1 < n /\ (n - 1) + 1 = n
  BY <1>2
<1>4. n - 1 \in G
  BY <1>2, <1>3 DEF Less
<1> QED
  BY <1>2, <1>3, <1>4

LEMMA Counted ==
  ASSUME NEW n \in Nat, NEW G, 0 \in G, \A k \in 0..n : k \in G /\ k < n => k + 1 \in G
  PROVE  \A k \in 0..n : k \in G
<1> DEFINE H == {k \in Nat : k <= n => k \in G}
<1>1. 0 \in H
  BY ONLY 0 \in G
<1>2. ASSUME NEW k \in Nat, k \in H PROVE k + 1 \in H
  <2>1. k + 1 <= n => k \in 0..n /\ k < n /\ k <= n
    BY ONLY n \in Nat, k \in Nat
  <2> QED
    BY <1>2, <2>1
<1> HIDE DEF H
<1>3. \A k \in Nat : k \in H
  BY <1>1, <1>2, Induction
<1> QED
  BY <1>3 DEF H

LEMMA LargestIs ==
  ASSUME NEW n \in Nat, NEW s \in SUBSET (1..n), s # {}
  PROVE  Max(s) \in s /\ \A k \in s : k <= Max(s)
<1> DEFINE G == {m \in Nat : \A t \in SUBSET (1..m) :
                   t # {} => \E x \in t : \A k \in t : x >= k}
<1>1. 0 \in G
  <2>1. 1..0 = {}
    OBVIOUS
  <2> QED
    BY <2>1
<1>2. ASSUME NEW m \in Nat, m \in G PROVE m + 1 \in G
  <2> SUFFICES ASSUME NEW t \in SUBSET (1..(m + 1)), t # {}
               PROVE  \E x \in t : \A k \in t : x >= k
    OBVIOUS
  <2>1. CASE m + 1 \in t
    BY <2>1
  <2>2. CASE m + 1 \notin t
    <3>1. t \in SUBSET (1..m)
      BY <2>2
    <3> QED
      BY <1>2, <3>1
  <2> QED
    BY <2>1, <2>2
<1> HIDE DEF G
<1>3. n \in G
  BY <1>1, <1>2, Induction
<1>4. \E x \in s : \A k \in s : x >= k
  BY <1>3 DEF G
<1> QED
  BY <1>4 DEF Max

LEMMA TopIs == ASSUME NEW k \in Nat \ {0} PROVE Max(1..k) = k
<1> PICK x : x = Max(1..k)
  OBVIOUS
<1>1. k \in 1..k /\ 1..k # {} /\ 1..k \in SUBSET (1..k)
  OBVIOUS
<1>2. x \in 1..k /\ \A j \in 1..k : j <= x
  BY <1>1, LargestIs
<1>3. x \in 1..k /\ k <= x
  BY <1>1, <1>2
<1> QED
  BY ONLY <1>3, k \in Nat, x = Max(1..k)

LEMMA UpTo ==
  ASSUME NEW n \in Nat, NEW k \in 1..n
  PROVE  /\ k \in Nat \ {0} /\ k \in 0..n /\ k - 1 \in 0..n
         /\ 1..k # {} /\ 1..k \in SUBSET (1..n) /\ (1..k) \ {k} = 1..(k - 1)
         /\ 1..(k - 1) \in SUBSET (1..n)
<1>1. k \in Nat \ {0} /\ k \in 0..n /\ k - 1 \in 0..n /\ 1..k # {}
  OBVIOUS
<1>2. (1..k) \ {k} = 1..(k - 1)
  OBVIOUS
<1>3. \A j \in 1..k : j \in 1..n
  OBVIOUS
<1>4. \A j \in 1..(k - 1) : j \in 1..n
  OBVIOUS
<1> QED
  BY <1>1, <1>2, <1>3, <1>4

\* What a fold computes for the sets of the first indices.
Folds(F, base, seq, n, it) ==
  \A s \in SUBSET (1..n) :
    it[s] = IF s = {} THEN base ELSE F[it[s \ {Max(s)}]][seq[Max(s)]]

Foldable(A, F, base, seq, n) ==
  \E it \in [SUBSET (1..n) -> A] : Folds(F, base, seq, n, it)

LEMMA FoldExists ==
  ASSUME NEW A, NEW B, NEW F \in [A -> [B -> A]], NEW base \in A, NEW n \in Nat, NEW seq,
         \A k \in 1..n : seq[k] \in B
  PROVE  Foldable(A, F, base, seq, n)
<1> DEFINE G == {m \in Nat : m <= n => Foldable(A, F, base, seq, m)}
<1>1. 0 \in G
  <2>1. SUBSET (1..0) = {{}}
    OBVIOUS
  <2>2. [s \in SUBSET (1..0) |-> base] \in [SUBSET (1..0) -> A]
    OBVIOUS
  <2>3. Folds(F, base, seq, 0, [s \in SUBSET (1..0) |-> base])
    BY <2>1 DEF Folds
  <2> QED
    BY <2>2, <2>3 DEF Foldable
<1>2. ASSUME NEW m \in Nat, m + 1 <= n, Foldable(A, F, base, seq, m)
      PROVE  Foldable(A, F, base, seq, m + 1)
  <2>1. PICK it \in [SUBSET (1..m) -> A] : Folds(F, base, seq, m, it)
    BY <1>2 DEF Foldable
  <2> DEFINE g == [s \in SUBSET (1..(m + 1)) |->
                     IF m + 1 \in s THEN F[it[s \ {m + 1}]][seq[m + 1]] ELSE it[s]]
  <2>2. ASSUME NEW s \in SUBSET (1..(m + 1)), m + 1 \in s
        PROVE  /\ s \ {m + 1} \in SUBSET (1..m) /\ Max(s) = m + 1
               /\ g[s] = F[it[s \ {m + 1}]][seq[m + 1]] /\ g[s] \in A
               /\ g[s \ {m + 1}] = it[s \ {m + 1}]
    <3>1. s \ {m + 1} \in SUBSET (1..m)
      OBVIOUS
    <3>2. Max(s) \in s /\ m + 1 <= Max(s) /\ Max(s) \in 1..(m + 1)
      <4>1. m + 1 \in Nat /\ s # {} /\ s \in SUBSET (1..(m + 1))
        BY <2>2
      <4>2. Max(s) \in s /\ \A k \in s : k <= Max(s)
        BY ONLY <4>1, LargestIs
      <4> QED
        BY <2>2, <4>2
    <3>3. g[s] = F[it[s \ {m + 1}]][seq[m + 1]]
      BY <2>2
    <3>4. it[s \ {m + 1}] \in A /\ seq[m + 1] \in B
      <4>1. m + 1 \in 1..n
        BY ONLY <1>2, n \in Nat
      <4> QED
        BY <3>1, <4>1
    <3>5. g[s \ {m + 1}] = it[s \ {m + 1}]
      OBVIOUS
    <3> HIDE DEF g
    <3>6. Max(s) = m + 1
      <4> PICK x : x = Max(s)
        OBVIOUS
      <4>1. x \in 1..(m + 1) /\ m + 1 <= x
        BY <3>2
      <4>2. x = m + 1
        BY ONLY <4>1, m \in Nat
      <4> QED
        BY <4>2
    <3> QED
      BY <3>1, <3>3, <3>4, <3>5, <3>6
  <2>3. ASSUME NEW s \in SUBSET (1..(m + 1)), m + 1 \notin s
        PROVE  /\ s \in SUBSET (1..m) /\ g[s] = it[s] /\ g[s] \in A
               /\ g[s \ {Max(s)}] = it[s \ {Max(s)}]
    <3>1. s \in SUBSET (1..m)
      <4>1. \A k \in 1..(m + 1) : k # m + 1 => k \in 1..m
        BY ONLY m \in Nat
      <4>2. \A k \in s : k \in 1..(m + 1) /\ k # m + 1
        BY <2>3
      <4> QED
        BY <4>1, <4>2
    <3>2. m + 1 \notin s \ {Max(s)} /\ s \ {Max(s)} \in SUBSET (1..(m + 1))
      BY <2>3
    <3>3. g[s] = it[s] /\ g[s \ {Max(s)}] = it[s \ {Max(s)}]
      BY <2>3, <3>2
    <3> HIDE DEF g
    <3> QED
      BY <3>1, <3>3
  <2>4. g \in [SUBSET (1..(m + 1)) -> A]
    <3>1. \A s \in SUBSET (1..(m + 1)) : g[s] \in A
      BY <2>2, <2>3
    <3> QED
      BY <3>1
  <2>5. Folds(F, base, seq, m + 1, g)
    <3> SUFFICES ASSUME NEW s \in SUBSET (1..(m + 1))
                 PROVE  g[s] = IF s = {} THEN base ELSE F[g[s \ {Max(s)}]][seq[Max(s)]]
      BY DEF Folds
    <3> HIDE DEF g
    <3>1. CASE m + 1 \in s
      BY <2>2, <3>1
    <3>2. CASE m + 1 \notin s
      BY <2>1, <2>3, <3>2 DEF Folds
    <3> QED
      BY <3>1, <3>2
  <2> HIDE DEF g
  <2> QED
    BY <2>4, <2>5 DEF Foldable
<1>3. ASSUME NEW m \in Nat, m \in G PROVE m + 1 \in G
  <2>1. m + 1 <= n => m <= n /\ m + 1 \in Nat
    BY ONLY m \in Nat, n \in Nat
  <2> QED
    BY <1>2, <1>3, <2>1
<1> HIDE DEF G
<1>4. n \in G
  BY <1>1, <1>3, Induction
<1> QED
  BY <1>4 DEF G

-----------------------------------------------------------------------------
(* Paths: sanitize_path and tar_match_name *)

Name == DOMAIN undotted
Dots(n) == undotted[n] = ""

\* What sanitize_path leaves as it is.
Clean(p) == p \in Seq(Name) /\ (p # <<>> => ~Dots(p[1]) /\ undotted[p[1]] = p[1])

LEMMA First ==
  ASSUME NEW T, T \subseteq Nat, T # {}
  PROVE  Min(T) \in T /\ \A m \in T : Min(T) <= m
<1>1. IsWellFoundedOn(Less, Nat)
  BY NatLessThanWellFounded DEF OpToRel, Less
<1>2. PICK n \in T : \A m \in T : <<m, n>> \notin Less
  BY <1>1, WFMin
<1>3. ASSUME NEW m \in T PROVE n <= m
  <2>1. n \in Nat /\ m \in Nat
    OBVIOUS
  <2>2. ~(m < n)
    BY <1>2, <2>1 DEF Less
  <2> QED
    BY <2>1, <2>2
<1> QED
  BY <1>3 DEF Min

LEMMA FirstIs ==
  ASSUME NEW T, T \subseteq Nat, NEW n \in T, \A m \in T : n <= m
  PROVE  Min(T) = n
<1> PICK x : x = Min(T)
  OBVIOUS
<1>1. x \in T /\ x <= n
  BY First
<1>2. x \in Nat /\ n \in Nat /\ n <= x
  BY <1>1
<1> QED
  BY ONLY <1>1, <1>2, x = Min(T)

\* Where the first name begins that is more than dots.
LEMMA FirstName ==
  ASSUME NEW p \in Seq(Name)
  PROVE  \/ /\ \A i \in 1..Len(p) : Dots(p[i])
            /\ sanitize_path(p) = <<>>
         \/ \E k \in 1..Len(p) :
              /\ ~Dots(p[k]) /\ \A i \in 1..(k - 1) : Dots(p[i])
              /\ sanitize_path(p) = <<undotted[p[k]]>> \o SubSeq(p, k + 1, Len(p))
<1> DEFINE I == {i \in 1..Len(p) : undotted[p[i]] # ""}
           k == IF I # {} THEN Min(I) ELSE 0
<1>1. SelectInSeq(p, LAMBDA n : undotted[n] # "") = k
  BY DEF SelectInSeq
<1>2. sanitize_path(p) = IF k = 0 THEN <<>>
                         ELSE <<undotted[p[k]]>> \o SubSeq(p, k + 1, Len(p))
  BY <1>1 DEF sanitize_path
<1>3. Len(p) \in Nat
  OBVIOUS
<1>4. CASE I = {}
  BY <1>2, <1>4 DEF Dots
<1>5. CASE I # {}
  <2>0. 1..Len(p) \subseteq Nat
    BY <1>3
  <2>1. I \subseteq Nat
    BY <2>0
  <2>2. Min(I) \in I /\ \A m \in I : Min(I) <= m
    <3> HIDE DEF I
    <3> QED
      BY <2>1, <1>5, First
  <2> PICK j \in 1..Len(p) : j = Min(I)
    BY <2>2
  <2>3. k = j /\ ~Dots(p[j])
    BY <1>5, <2>2 DEF Dots
  <2>4. ASSUME NEW i \in 1..(j - 1) PROVE Dots(p[i])
    <3>1. i \in 1..Len(p) /\ ~(j <= i)
      BY ONLY <1>3, j \in 1..Len(p), i \in 1..(j - 1)
    <3>2. i \notin I
      BY <2>2, <3>1
    <3> QED
      BY <3>1, <3>2 DEF Dots
  <2>5. j # 0
    BY ONLY <1>3, j \in 1..Len(p)
  <2> HIDE DEF k
  <2> QED
    BY <1>2, <2>3, <2>4, <2>5
<1> QED
  BY <1>4, <1>5

LEMMA Undotted ==
  ASSUME NEW n \in Name, ~Dots(n)
  PROVE  undotted[n] \in Name /\ ~Dots(undotted[n]) /\ undotted[undotted[n]] = undotted[n]
BY VfsConstants DEF Name, Dots

LEMMA Headed ==
  ASSUME NEW p \in Seq(Name), NEW n \in Name, NEW k \in 1..Len(p)
  PROVE  LET s == <<n>> \o SubSeq(p, k + 1, Len(p)) IN
           /\ s \in Seq(Name) /\ Len(s) = Len(p) - k + 1 /\ s[1] = n
           /\ \A i \in 2..(Len(p) - k + 1) : s[i] = p[k + i - 1]
<1> DEFINE t == SubSeq(p, k + 1, Len(p))
<1>1. /\ Len(p) \in Nat /\ k \in Nat /\ k >= 1 /\ k <= Len(p)
      /\ \A i \in 1..Len(p) : p[i] \in Name
  OBVIOUS
<1>2. \A i \in (k + 1)..Len(p) : p[i] \in Name
  BY <1>1
<1>3. /\ t \in Seq(Name) /\ Len(t) = Len(p) - k
      /\ \A i \in 1..(Len(p) - k) : t[i] = p[k + i]
  <2>1. /\ t \in Seq(Name)
        /\ Len(t) = IF k + 1 <= Len(p) THEN Len(p) - (k + 1) + 1 ELSE 0
        /\ \A i \in 1..(Len(p) - (k + 1) + 1) : t[i] = p[(k + 1) + i - 1]
    <3>1. k + 1 \in Int /\ Len(p) \in Int
      BY <1>1
    <3> QED
      BY ONLY <1>2, <3>1, SubSeqProperties
  <2>2. Len(t) = Len(p) - k
    BY ONLY <1>1, <2>1
  <2>3. \A i \in 1..(Len(p) - k) : (k + 1) + i - 1 = k + i /\ i \in 1..(Len(p) - (k + 1) + 1)
    BY ONLY <1>1
  <2> HIDE DEF t
  <2> QED
    BY <2>1, <2>2, <2>3
<1>4. <<n>> \in Seq(Name) /\ Len(<<n>>) = 1 /\ <<n>>[1] = n
  OBVIOUS
<1> HIDE DEF t
<1>5. /\ <<n>> \o t \in Seq(Name) /\ Len(<<n>> \o t) = Len(<<n>>) + Len(t)
      /\ \A i \in 1..(Len(<<n>>) + Len(t)) :
           (<<n>> \o t)[i] = IF i <= Len(<<n>>) THEN <<n>>[i] ELSE t[i - Len(<<n>>)]
  BY ONLY <1>3, <1>4, ConcatProperties
<1> PICK s : s = <<n>> \o t
  OBVIOUS
<1>6. /\ s \in Seq(Name) /\ Len(s) = 1 + (Len(p) - k)
      /\ \A i \in 1..(1 + (Len(p) - k)) : s[i] = IF i <= 1 THEN n ELSE t[i - 1]
  <2>1. \A i \in 1..(1 + (Len(p) - k)) : i <= 1 => i = 1
    BY <1>1
  <2> QED
    BY <1>3, <1>4, <1>5, <2>1
<1>7. s[1] = n
  <2>1. 1 \in 1..(1 + (Len(p) - k)) /\ 1 <= 1
    BY <1>1
  <2> QED
    BY <1>6, <2>1
<1>8. ASSUME NEW i \in 2..(Len(p) - k + 1) PROVE s[i] = p[k + i - 1]
  <2>1. i \in 1..(1 + (Len(p) - k)) /\ ~(i <= 1) /\ i - 1 \in 1..(Len(p) - k) /\ k + (i - 1) = k + i - 1
    BY <1>1
  <2> QED
    BY <1>3, <1>6, <2>1
<1>9. Len(s) = Len(p) - k + 1
  BY <1>1, <1>6
<1> QED
  BY <1>6, <1>7, <1>8, <1>9 DEF t

LEMMA Sanitized ==
  ASSUME NEW p \in Seq(Name) PROVE Clean(sanitize_path(p))
<1>1. CASE sanitize_path(p) = <<>>
  BY <1>1 DEF Clean
<1>2. ASSUME NEW k \in 1..Len(p), ~Dots(p[k]),
             sanitize_path(p) = <<undotted[p[k]]>> \o SubSeq(p, k + 1, Len(p))
      PROVE  Clean(sanitize_path(p))
  <2>1. p[k] \in Name
    OBVIOUS
  <2>2. undotted[p[k]] \in Name /\ ~Dots(undotted[p[k]])
        /\ undotted[undotted[p[k]]] = undotted[p[k]]
    BY <1>2, <2>1, Undotted
  <2>3. sanitize_path(p) \in Seq(Name) /\ sanitize_path(p)[1] = undotted[p[k]]
    BY <1>2, <2>2, Headed
  <2> QED
    BY <2>2, <2>3 DEF Clean
<1> QED
  BY <1>1, <1>2, FirstName

LEMMA CleanStays ==
  ASSUME NEW p, Clean(p) PROVE sanitize_path(p) = p
<1>1. p \in Seq(Name) /\ Len(p) \in Nat
  BY DEF Clean
<1>2. CASE p = <<>>
  <2>1. 1..Len(p) = {}
    BY <1>2
  <2> QED
    BY <1>1, <1>2, <2>1, FirstName
<1>3. CASE p # <<>>
  <2>1. 1 \in 1..Len(p) /\ ~Dots(p[1]) /\ undotted[p[1]] = p[1] /\ p[1] \in Name
    BY <1>1, <1>3 DEF Clean
  <2>2. PICK k \in 1..Len(p) :
          /\ ~Dots(p[k]) /\ \A i \in 1..(k - 1) : Dots(p[i])
          /\ sanitize_path(p) = <<undotted[p[k]]>> \o SubSeq(p, k + 1, Len(p))
    BY <1>1, <2>1, FirstName
  <2>3. k = 1
    <3>1. k # 1 => 1 \in 1..(k - 1)
      BY <1>1
    <3> QED
      BY <2>1, <2>2, <3>1
  <2>4. sanitize_path(p) = <<p[1]>> \o SubSeq(p, 2, Len(p))
    BY <2>1, <2>2, <2>3
  <2>5. SubSeq(p, 1, Len(p)) = <<p[1]>> \o SubSeq(p, 1 + 1, Len(p))
    <3>1. Len(p) \in 1..Len(p)
      BY <1>1, <2>1
    <3> QED
      BY ONLY <1>1, <2>1, <3>1, SubSeqRecursiveFirst
  <2>6. SubSeq(p, 1, Len(p)) = p
    BY ONLY <1>1, SubSeqFull
  <2> QED
    BY <2>4, <2>5, <2>6
<1> QED
  BY <1>2, <1>3

LEMMA Appended ==
  ASSUME NEW T, NEW s \in Seq(T), NEW e \in T
  PROVE  /\ Append(s, e) \in Seq(T) /\ Len(Append(s, e)) = Len(s) + 1
         /\ \A i \in 1..Len(s) : Append(s, e)[i] = s[i]
         /\ Append(s, e)[Len(s) + 1] = e
OBVIOUS

\* A name behind a path: the dots in front of the path may go before or after.
LEMMA SanitizedTwice ==
  ASSUME NEW p \in Seq(Name), NEW n \in Name
  PROVE  sanitize_path(Append(sanitize_path(p), n)) = sanitize_path(Append(p, n))
<1> PICK q : q = Append(p, n)
  OBVIOUS
<1>1. /\ q \in Seq(Name) /\ Len(q) = Len(p) + 1 /\ Len(p) \in Nat
      /\ \A i \in 1..Len(p) : q[i] = p[i]
      /\ q[Len(p) + 1] = n
  BY Appended
<1>2. CASE sanitize_path(p) = <<>> /\ \A i \in 1..Len(p) : Dots(p[i])
  <2> PICK one : one = <<n>>
    OBVIOUS
  <2>1. one \in Seq(Name) /\ Len(one) = 1 /\ one[1] = n /\ one = Append(sanitize_path(p), n)
    BY <1>2
  <2>2. CASE Dots(n)
    <3>1. \A i \in 1..Len(q) : Dots(q[i])
      <4>1. \A i \in 1..Len(q) : i \in 1..Len(p) \/ i = Len(p) + 1
        BY <1>1
      <4> QED
        BY <1>1, <1>2, <2>2, <4>1
    <3>2. sanitize_path(q) = <<>>
      BY <1>1, <3>1, FirstName
    <3>3. \A i \in 1..Len(one) : Dots(one[i])
      BY <2>1, <2>2
    <3>4. sanitize_path(one) = <<>>
      BY <2>1, <3>3, FirstName
    <3> QED
      BY <2>1, <3>2, <3>4
  <2>3. CASE ~Dots(n)
    <3>1. Len(p) + 1 \in 1..Len(q) /\ 1 \in 1..Len(one)
      BY <1>1, <2>1
    <3>2. PICK k \in 1..Len(q) :
            /\ ~Dots(q[k])
            /\ sanitize_path(q) = <<undotted[q[k]]>> \o SubSeq(q, k + 1, Len(q))
      BY <1>1, <2>3, <3>1, FirstName
    <3>3. k = Len(p) + 1
      <4>1. k \in 1..Len(p) \/ k = Len(p) + 1
        BY ONLY <1>1, k \in 1..Len(q)
      <4> QED
        BY <1>1, <1>2, <3>2, <4>1
    <3>4. SubSeq(q, k + 1, Len(q)) = <<>>
      <4>1. k + 1 \in Int /\ Len(q) \in Int /\ Len(q) < k + 1
        BY ONLY <1>1, <3>3
      <4> QED
        BY ONLY <4>1, SubSeqEmpty
    <3>5. PICK j \in 1..Len(one) :
            /\ ~Dots(one[j])
            /\ sanitize_path(one) = <<undotted[one[j]]>> \o SubSeq(one, j + 1, Len(one))
      BY <2>1, <2>3, <3>1, FirstName
    <3>6. j = 1
      BY ONLY <2>1, j \in 1..Len(one)
    <3>7. SubSeq(one, j + 1, Len(one)) = <<>>
      <4>1. j + 1 \in Int /\ Len(one) \in Int /\ Len(one) < j + 1
        BY ONLY <2>1, <3>6
      <4> QED
        BY ONLY <4>1, SubSeqEmpty
    <3> QED
      BY <1>1, <2>1, <3>2, <3>3, <3>4, <3>5, <3>6, <3>7
  <2> QED
    BY <2>2, <2>3
<1>3. ASSUME NEW k \in 1..Len(p), ~Dots(p[k]), \A i \in 1..(k - 1) : Dots(p[i]),
             sanitize_path(p) = <<undotted[p[k]]>> \o SubSeq(p, k + 1, Len(p))
      PROVE  sanitize_path(Append(sanitize_path(p), n)) = sanitize_path(q)
  <2> PICK s : s = sanitize_path(p)
    OBVIOUS
  <2>1. p[k] \in Name /\ undotted[p[k]] \in Name
    BY <1>3, Undotted
  <2>2. /\ s \in Seq(Name) /\ Len(s) = Len(p) - k + 1 /\ s[1] = undotted[p[k]]
        /\ \A i \in 2..(Len(p) - k + 1) : s[i] = p[k + i - 1]
    BY <1>3, <2>1, Headed
  <2> PICK a : a = Append(s, n)
    OBVIOUS
  <2>3. /\ a \in Seq(Name) /\ Len(a) = Len(s) + 1 /\ a[Len(s) + 1] = n
        /\ \A i \in 1..Len(s) : a[i] = s[i]
    <3>1. s \in Seq(Name) /\ n \in Name
      BY <2>2
    <3>2. /\ Append(s, n) \in Seq(Name) /\ Len(Append(s, n)) = Len(s) + 1
          /\ \A i \in 1..Len(s) : Append(s, n)[i] = s[i]
          /\ Append(s, n)[Len(s) + 1] = n
      BY ONLY <3>1, Appended
    <3> QED
      BY <3>2
  <2>4. sanitize_path(a) = a
    <3>1. Clean(s) /\ s # <<>>
      <4>1. Len(s) # 0
        BY ONLY <1>1, <2>2, k \in 1..Len(p)
      <4> QED
        BY <4>1, Sanitized
    <3>2. 1 \in 1..Len(s)
      BY ONLY <1>1, <2>2, k \in 1..Len(p)
    <3>3. a[1] = s[1]
      BY <2>3, <3>2
    <3>4. Clean(a)
      BY <2>3, <3>1, <3>3 DEF Clean
    <3> QED
      BY <3>4, CleanStays
  <2>5. k \in 1..Len(q) /\ q[k] = p[k] /\ k \in Nat
    BY <1>1
  <2>6. PICK j \in 1..Len(q) :
          /\ ~Dots(q[j]) /\ \A i \in 1..(j - 1) : Dots(q[i])
          /\ sanitize_path(q) = <<undotted[q[j]]>> \o SubSeq(q, j + 1, Len(q))
    BY <1>1, <1>3, <2>5, FirstName
  <2>7. j = k
    <3>1. ASSUME j < k PROVE FALSE
      <4>1. j \in 1..(k - 1) /\ j \in 1..Len(p)
        BY ONLY <3>1, <1>1, j \in 1..Len(q), k \in 1..Len(p)
      <4> QED
        BY <1>1, <1>3, <2>6, <4>1
    <3>2. ASSUME k < j PROVE FALSE
      <4>1. k \in 1..(j - 1)
        BY ONLY <3>2, <1>1, j \in 1..Len(q), k \in 1..Len(p)
      <4> QED
        BY <1>3, <2>5, <2>6, <4>1
    <3>3. j < k \/ k < j \/ j = k
      BY ONLY <1>1, j \in 1..Len(q), k \in 1..Len(p)
    <3> QED
      BY <3>1, <3>2, <3>3
  <2> PICK b : b = sanitize_path(q)
    OBVIOUS
  <2>8. /\ b \in Seq(Name) /\ Len(b) = Len(q) - k + 1 /\ b[1] = undotted[p[k]]
        /\ \A i \in 2..(Len(q) - k + 1) : b[i] = q[k + i - 1]
    <3>1. b = <<undotted[p[k]]>> \o SubSeq(q, k + 1, Len(q))
      BY <2>5, <2>6, <2>7
    <3>2. q \in Seq(Name) /\ k \in 1..Len(q) /\ undotted[p[k]] \in Name
      BY <1>1, <2>1, <2>5
    <3> QED
      BY ONLY <3>1, <3>2, Headed
  <2>9. Len(a) = Len(b)
    BY ONLY <1>1, <2>2, <2>3, <2>8, k \in 1..Len(p)
  <2>10. ASSUME NEW i \in 1..Len(a) PROVE a[i] = b[i]
    <3>0. /\ Len(p) \in Nat /\ k \in 1..Len(p) /\ i \in 1..(Len(p) - k + 2)
          /\ Len(s) = Len(p) - k + 1 /\ Len(q) = Len(p) + 1
      BY <1>1, <2>2, <2>3
    <3>1. CASE i = 1
      <4>1. 1 \in 1..Len(s)
        BY ONLY <3>0
      <4> QED
        BY <2>2, <2>3, <2>8, <3>1, <4>1
    <3>2. CASE i # 1 /\ i <= Len(s)
      <4>1. /\ i \in 1..Len(s) /\ i \in 2..(Len(p) - k + 1)
            /\ i \in 2..(Len(q) - k + 1) /\ k + i - 1 \in 1..Len(p)
        BY ONLY <3>0, <3>2
      <4>2. a[i] = s[i] /\ s[i] = p[k + i - 1]
        BY <2>2, <2>3, <4>1
      <4>3. b[i] = q[k + i - 1]
        BY <2>8, <4>1
      <4>4. q[k + i - 1] = p[k + i - 1]
        BY <1>1, <4>1
      <4> QED
        BY <4>2, <4>3, <4>4
    <3>3. CASE i = Len(s) + 1
      <4>1. i \in 2..(Len(q) - k + 1) /\ k + i - 1 = Len(p) + 1
        BY ONLY <3>0, <3>3
      <4> QED
        BY <1>1, <2>3, <2>8, <3>3, <4>1
    <3>4. i = 1 \/ (i # 1 /\ i <= Len(s)) \/ i = Len(s) + 1
      BY ONLY <3>0
    <3> QED
      BY <3>1, <3>2, <3>3, <3>4
  <2>11. a = b
    BY ONLY <2>3, <2>8, <2>9, <2>10, SeqEqual
  <2> QED
    BY <2>4, <2>11
<1> QED
  BY <1>2, <1>3, FirstName

\* tar_match_name finds the first node of a path.
LEMMA Matched ==
  ASSUME NEW nodes, Len(nodes) \in Nat, NEW p
  PROVE  LET j == Match(nodes, p) IN
           \/ j = 0 /\ \A i \in 1..Len(nodes) : nodes[i].path # sanitize_path(p)
           \/ /\ j \in 1..Len(nodes) /\ j # 0 /\ nodes[j].path = sanitize_path(p)
              /\ \A i \in 1..Len(nodes) : nodes[i].path = sanitize_path(p) => j <= i
<1> PICK c : c = sanitize_path(p)
  OBVIOUS
<1> DEFINE I == {i \in 1..Len(nodes) : nodes[i].path = c}
<1>1. Match(nodes, p) = IF I # {} THEN Min(I) ELSE 0
  BY DEF Match, SelectInSeq
<1>2. CASE I = {}
  BY <1>1, <1>2
<1>3. CASE I # {}
  <2>1. 1..Len(nodes) \subseteq Nat
    BY ONLY Len(nodes) \in Nat
  <2>2. I \subseteq Nat
    BY <2>1
  <2>3. Min(I) \in I /\ \A m \in I : Min(I) <= m
    <3> HIDE DEF I
    <3> QED
      BY <1>3, <2>2, First
  <2> PICK j : j = Min(I)
    OBVIOUS
  <2>4. j \in 1..Len(nodes) /\ nodes[j].path = c
    BY <2>3
  <2>5. j # 0
    BY ONLY <2>4, Len(nodes) \in Nat
  <2>6. \A i \in 1..Len(nodes) : nodes[i].path = c => j <= i
    BY <2>3
  <2> HIDE DEF I
  <2> QED
    BY <1>1, <1>3, <2>4, <2>5, <2>6
<1> QED
  BY <1>2, <1>3

-----------------------------------------------------------------------------
(* Nodes and the walk of vfs_get_node_by_path *)

Lookups == Nodes \cup {NULL}
Node == [path : Seq(Name), dir : BOOLEAN, data : Nat, length : Nat]

Types ==
  /\ archive \in Archives /\ header \in Nat
  /\ pc \in {"tar", "root", "devfs", "mount", "fds", "up", "user", "exited"}
  /\ ramfs_nodes \in Seq(Node) /\ Len(ramfs_nodes) <= MAX_RAMFS_NODES
  /\ devices \in Seq({"fb0"}) /\ Len(devices) <= MAX_DEVFS_DEVICES
  /\ DOMAIN mounted \subseteq Nodes /\ \A n \in DOMAIN mounted : mounted[n] = DEVFS
  /\ fd_table \in [0..(MAX_OPEN_FILES - 1) -> Lookups]
  /\ fs_root \in {RAMFS, NULL}

LEMMA Parts ==
  /\ RAMFS[1] = "initramfs" /\ RAMFS[2] = 0
  /\ DEVFS[1] = "devfs" /\ Device("fb0")[1] = "devfs"
  /\ DEVFS[2] = "" /\ Device("fb0")[2] = "fb0"
  /\ \A k : Ram(k)[1] = "initramfs" /\ Ram(k)[2] = k
BY DEF RAMFS, DEVFS, Device, Ram

LEMMA Different ==
  /\ DEVFS # Device("fb0") /\ RAMFS = Ram(0)
  /\ RAMFS # DEVFS /\ RAMFS # Device("fb0")
  /\ \A k : Ram(k) # DEVFS /\ Ram(k) # Device("fb0")
  /\ \A k, j : Ram(k) = Ram(j) => k = j
  /\ \A k : k # 0 => Ram(k) # RAMFS
  /\ NULL \notin Nodes
<1>1. "initramfs" # "devfs" /\ "" # "fb0"
  OBVIOUS
<1>2. RAMFS = Ram(0)
  BY DEF RAMFS, Ram
<1>3. NULL \notin Nodes
  BY VfsConstants
<1>4. ASSUME NEW k, NEW j, Ram(k) = Ram(j) PROVE k = j
  <2>1. Ram(k)[2] = k /\ Ram(j)[2] = j
    BY Parts
  <2> QED
    BY <1>4, <2>1
<1>5. \A k : Ram(k) # DEVFS /\ Ram(k) # Device("fb0")
  BY <1>1, Parts
<1>6. DEVFS # Device("fb0")
  BY <1>1, Parts
<1>7. \A k : k # 0 => Ram(k) # RAMFS
  BY <1>2, <1>4
<1> QED
  BY <1>2, <1>3, <1>4, <1>5, <1>6, <1>7

LEMMA IsNode ==
  /\ RAMFS \in Nodes /\ DEVFS \in Nodes /\ Device("fb0") \in Nodes
  /\ \A k \in 1..MAX_RAMFS_NODES : Ram(k) \in Nodes
  /\ \A n \in Nodes : n = DEVFS \/ n = Device("fb0") \/ \E k \in 0..MAX_RAMFS_NODES : n = Ram(k)
<1>1. 0 \in 0..MAX_RAMFS_NODES /\ \A k \in 1..MAX_RAMFS_NODES : k \in 0..MAX_RAMFS_NODES
  <2>1. MAX_RAMFS_NODES \in Nat
    BY VfsConstants
  <2> QED
    BY ONLY <2>1
<1> QED
  BY <1>1, Different DEF Nodes

\* What finddir of the initramfs answers.
LEMMA RamFound ==
  ASSUME Types, NEW k, NEW name
  PROVE  LET j == Match(ramfs_nodes, Append(IF k = 0 THEN <<>> ELSE ramfs_nodes[k].path, name))
         IN  ramfs_finddir(k, name) = IF j = 0 THEN NULL ELSE Ram(j)
BY DEF ramfs_finddir

LEMMA RamLookup ==
  ASSUME Types, NEW k, NEW name
  PROVE  ramfs_finddir(k, name) = NULL \/ \E j \in 1..Len(ramfs_nodes) : ramfs_finddir(k, name) = Ram(j)
<1> PICK q : q = Append(IF k = 0 THEN <<>> ELSE ramfs_nodes[k].path, name)
  OBVIOUS
<1>1. ramfs_finddir(k, name) = IF Match(ramfs_nodes, q) = 0 THEN NULL ELSE Ram(Match(ramfs_nodes, q))
  BY RamFound
<1>2. Len(ramfs_nodes) \in Nat
  BY DEF Types
<1>3. Match(ramfs_nodes, q) = 0 \/ Match(ramfs_nodes, q) \in 1..Len(ramfs_nodes)
  BY <1>2, Matched
<1> QED
  BY <1>1, <1>3

\* A step of the walk ends at no node, at one of the initramfs or, behind the
\* mount point, at the device.
LEMMA WalkOneIs ==
  ASSUME Types, NEW n \in Lookups, NEW name
  PROVE  \/ WalkOne(n, name) = NULL
         \/ /\ n # NULL /\ ThroughMount(n) = DEVFS
            /\ WalkOne(n, name) = Device("fb0") /\ name = "fb0"
         \/ /\ n # NULL /\ n \notin DOMAIN mounted /\ IsDirectory(n)
            /\ \E k \in 0..MAX_RAMFS_NODES : n = Ram(k) /\ WalkOne(n, name) = ramfs_finddir(k, name)
            /\ \E j \in 1..Len(ramfs_nodes) : WalkOne(n, name) = Ram(j)
<1> SUFFICES ASSUME WalkOne(n, name) # NULL
             PROVE  \/ /\ n # NULL /\ ThroughMount(n) = DEVFS
                       /\ WalkOne(n, name) = Device("fb0") /\ name = "fb0"
                    \/ /\ n # NULL /\ n \notin DOMAIN mounted /\ IsDirectory(n)
                       /\ \E k \in 0..MAX_RAMFS_NODES : n = Ram(k) /\ WalkOne(n, name) = ramfs_finddir(k, name)
                       /\ \E j \in 1..Len(ramfs_nodes) : WalkOne(n, name) = Ram(j)
  OBVIOUS
<1> PICK t : t = ThroughMount(n)
  OBVIOUS
<1>1. n # NULL /\ IsDirectory(t) /\ WalkOne(n, name) = finddir(t, name)
  BY DEF WalkOne
<1>2. t = n \/ (n \in DOMAIN mounted /\ t = DEVFS)
  BY DEF ThroughMount, Types
<1>3. n \in Nodes /\ t \in Nodes
  BY <1>1, <1>2, IsNode DEF Lookups
<1>4. t # Device("fb0")
  <2>1. Device("fb0")[1] # "initramfs" /\ Device("fb0") # RAMFS /\ Device("fb0") # DEVFS
    BY Parts, Different
  <2> QED
    BY <1>1, <2>1 DEF IsDirectory
<1>5. CASE t = DEVFS
  <2>1. finddir(t, name) = IF name \in ToSet(devices) THEN Device(name) ELSE NULL
    BY <1>5, Parts DEF finddir
  <2>2. ToSet(devices) \subseteq {"fb0"}
    <3>1. \A i \in DOMAIN devices : devices[i] = "fb0"
      BY DEF Types
    <3> QED
      BY <3>1 DEF ToSet
  <2>3. name = "fb0" /\ finddir(t, name) = Device("fb0")
    BY <1>1, <2>1, <2>2
  <2> QED
    BY <1>1, <1>5, <2>3
<1>6. CASE t # DEVFS
  <2>1. t = n /\ n \notin DOMAIN mounted
    BY <1>2, <1>6 DEF ThroughMount, Types
  <2>2. PICK k \in 0..MAX_RAMFS_NODES : n = Ram(k)
    BY <1>3, <1>4, <1>6, <2>1, IsNode
  <2>3. finddir(n, name) = ramfs_finddir(k, name)
    BY <2>2, Parts DEF finddir
  <2> QED
    BY <1>1, <2>1, <2>2, <2>3, RamLookup
<1> QED
  BY <1>5, <1>6

LEMMA WalkTyped ==
  ASSUME Types, NEW n \in Lookups, NEW name PROVE WalkOne(n, name) \in Lookups
<1>1. 1..Len(ramfs_nodes) \subseteq 1..MAX_RAMFS_NODES
  <2>1. MAX_RAMFS_NODES \in Nat
    BY VfsConstants
  <2>2. Len(ramfs_nodes) \in Nat /\ Len(ramfs_nodes) <= MAX_RAMFS_NODES
    BY DEF Types
  <2> QED
    BY ONLY <2>1, <2>2
<1> QED
  BY <1>1, WalkOneIs, IsNode DEF Lookups

\* vfs_get_node_by_path goes from the root name by name.
LEMMA Walked ==
  ASSUME Types, NEW path, NEW n \in Nat, DOMAIN path = 1..n
  PROVE  \E w \in [0..n -> Lookups] :
           /\ w[0] = fs_root
           /\ \A k \in 1..n : w[k] = WalkOne(w[k - 1], path[k])
           /\ vfs_get_node_by_path(path) = IF w[n] = NULL THEN NULL ELSE ThroughMount(w[n])
<1> DEFINE B == {path[k] : k \in 1..n}
           F == [a \in Lookups |-> [b \in B |-> WalkOne(a, b)]]
           Body(h, s) == IF s = {} THEN fs_root
                         ELSE WalkOne(h[s \ {Max(s)}], path[Max(s)])
           Iter(h) == h = [s \in SUBSET DOMAIN path |-> Body(h, s)]
<1>1. FoldLeft(WalkOne, fs_root, path) = (CHOOSE h : Iter(h))[DOMAIN path]
  BY DEF FoldLeft, MapThenFoldSet
<1>2. \E h : Iter(h)
  <2>1. F \in [Lookups -> [B -> Lookups]]
    BY WalkTyped
  <2>2. fs_root \in Lookups
    BY IsNode DEF Types, Lookups
  <2>3. \A k \in 1..n : path[k] \in B
    OBVIOUS
  <2> HIDE DEF F, B
  <2>4. PICK h \in [SUBSET (1..n) -> Lookups] : Folds(F, fs_root, path, n, h)
    <3> PICK f, L, C, r : f = F /\ L = Lookups /\ C = B /\ r = fs_root
      OBVIOUS
    <3>1. f \in [L -> [C -> L]] /\ r \in L /\ \A k \in 1..n : path[k] \in C
      BY <2>1, <2>2, <2>3
    <3>2. Foldable(L, f, r, path, n)
      BY ONLY <3>1, n \in Nat, FoldExists
    <3> QED
      BY <3>2 DEF Foldable
  <2>5. ASSUME NEW s \in SUBSET (1..n) PROVE h[s] = Body(h, s)
    <3>1. CASE s = {}
      BY <2>4, <3>1 DEF Folds
    <3>2. CASE s # {}
      <4>1. Max(s) \in 1..n
        BY <3>2, LargestIs
      <4>2. h[s \ {Max(s)}] \in Lookups /\ path[Max(s)] \in B
        BY <2>3, <4>1
      <4>3. F[h[s \ {Max(s)}]][path[Max(s)]] = WalkOne(h[s \ {Max(s)}], path[Max(s)])
        BY <4>2 DEF F
      <4> QED
        BY <2>4, <3>2, <4>3 DEF Folds
    <3> QED
      BY <3>1, <3>2
  <2> HIDE DEF Body
  <2>6. h = [s \in SUBSET (1..n) |-> Body(h, s)]
    BY <2>5
  <2> QED
    BY <2>6
<1> PICK h : h = CHOOSE g : Iter(g)
  OBVIOUS
<1>3. h = [s \in SUBSET (1..n) |-> Body(h, s)]
  <2>1. Iter(h)
    BY <1>2
  <2> QED
    BY <2>1
<1>4. ASSUME NEW s \in SUBSET (1..n) PROVE h[s] = Body(h, s)
  <2> HIDE DEF Body
  <2> QED
    BY <1>3
<1> DEFINE v == [k \in 0..n |-> h[1..k]]
<1>5. v[0] = fs_root
  <2>1. 0 \in 0..n /\ 1..0 = {} /\ 1..0 \in SUBSET (1..n)
    OBVIOUS
  <2> QED
    BY <1>4, <2>1
<1>6. ASSUME NEW k \in 1..n PROVE v[k] = WalkOne(v[k - 1], path[k])
  <2>1. /\ k \in 0..n /\ k - 1 \in 0..n /\ 1..k # {} /\ 1..k \in SUBSET (1..n)
        /\ (1..k) \ {k} = 1..(k - 1)
    OBVIOUS
  <2>2. Max(1..k) = k
    BY <2>1, TopIs
  <2>3. h[1..k] = WalkOne(h[1..(k - 1)], path[k])
    BY <1>4, <2>1, <2>2
  <2> QED
    BY <2>1, <2>3
<1>7. \A k \in 0..n : v[k] \in Lookups
  <2> DEFINE G == {k \in 0..n : v[k] \in Lookups}
  <2>1. 0 \in G
    BY <1>5, IsNode DEF Types, Lookups
  <2>2. ASSUME NEW k \in 0..n, k \in G, k < n PROVE k + 1 \in G
    <3>1. k + 1 \in 1..n /\ k + 1 \in 0..n /\ (k + 1) - 1 = k
      BY <2>2
    <3>2. v[k + 1] = WalkOne(v[k], path[k + 1])
      BY <1>6, <3>1
    <3> HIDE DEF v
    <3> QED
      BY <2>2, <3>1, <3>2, WalkTyped
  <2> HIDE DEF G
  <2>3. \A k \in 0..n : k \in G
    BY <2>1, <2>2, Counted
  <2> QED
    BY <2>3 DEF G
<1>8. v \in [0..n -> Lookups]
  BY <1>7
<1>9. FoldLeft(WalkOne, fs_root, path) = v[n]
  BY <1>1
<1> HIDE DEF v
<1> QED
  BY <1>5, <1>6, <1>8, <1>9 DEF vfs_get_node_by_path

LEMMA ThroughTyped == ASSUME Types, NEW n \in Nodes PROVE ThroughMount(n) \in Nodes
BY IsNode DEF ThroughMount, Types

LEMMA Looked ==
  ASSUME Types, NEW T, NEW path \in Seq(T) PROVE vfs_get_node_by_path(path) \in Lookups
<1>1. Len(path) \in Nat /\ DOMAIN path = 1..Len(path)
  OBVIOUS
<1>2. PICK w \in [0..Len(path) -> Lookups] :
        vfs_get_node_by_path(path) = IF w[Len(path)] = NULL THEN NULL ELSE ThroughMount(w[Len(path)])
  BY <1>1, Walked
<1>3. w[Len(path)] \in Lookups
  BY <1>1
<1> QED
  BY <1>2, <1>3, ThroughTyped DEF Lookups

-----------------------------------------------------------------------------
(* What _start has done so far *)

\* The node that devfs is mounted on, or 0.
Dev == Match(ramfs_nodes, <<"dev">>)

Phase ==
  /\ fs_root = IF pc \in {"tar", "root"} THEN NULL ELSE RAMFS
  /\ pc \in {"tar", "root", "devfs"} => devices = <<>>
  /\ pc \notin {"tar", "root", "devfs"} => devices # <<>>
  /\ DOMAIN mounted = IF pc \in {"fds", "up", "user", "exited"} /\ Dev # 0
                      THEN {Ram(Dev)} ELSE {}
  /\ pc = "fds" => Dev # 0
  /\ pc \in {"tar", "root", "devfs", "mount"} => fd_table = [i \in 0..(MAX_OPEN_FILES - 1) |-> NULL]
  /\ pc = "up" => \A i \in DOMAIN fd_table :
                    fd_table[i] = IF Dev # 0 /\ i \in {1, 2} THEN Device("fb0") ELSE NULL

LEMMA DevIs ==
  ASSUME Types
  PROVE  /\ Dev # 0 => Dev \in 1..Len(ramfs_nodes) /\ Ram(Dev) \in Nodes
         /\ Dev # 0 => ramfs_nodes[Dev].path = <<"dev">>
         /\ Dev # 0 <=> \E k \in DOMAIN ramfs_nodes : ramfs_nodes[k].path = <<"dev">>
         /\ \A k \in DOMAIN ramfs_nodes : ramfs_nodes[k].path = <<"dev">> => Dev <= k
<1> PICK d : d = "dev"
  OBVIOUS
<1>1. d \in Name /\ undotted[d] = d /\ ~Dots(d)
  <2>1. "dev" # ""
    OBVIOUS
  <2> QED
    BY <2>1, VfsConstants DEF Name, Dots
<1>2. <<d>> \in Seq(Name) /\ <<d>>[1] = d
  BY <1>1
<1>3. sanitize_path(<<d>>) = <<d>>
  BY <1>1, <1>2, CleanStays DEF Clean
<1>4. /\ Len(ramfs_nodes) \in Nat /\ DOMAIN ramfs_nodes = 1..Len(ramfs_nodes)
      /\ Len(ramfs_nodes) <= MAX_RAMFS_NODES
  BY DEF Types
<1>5. \/ Dev = 0 /\ \A i \in 1..Len(ramfs_nodes) : ramfs_nodes[i].path # <<d>>
      \/ /\ Dev \in 1..Len(ramfs_nodes) /\ Dev # 0 /\ ramfs_nodes[Dev].path = <<d>>
         /\ \A i \in 1..Len(ramfs_nodes) : ramfs_nodes[i].path = <<d>> => Dev <= i
  BY <1>3, <1>4, Matched DEF Dev
<1>6. \A k \in 1..Len(ramfs_nodes) : k \in 1..MAX_RAMFS_NODES
  <2>1. MAX_RAMFS_NODES \in Nat
    BY VfsConstants
  <2> QED
    BY ONLY <1>4, <2>1
<1> QED
  BY <1>4, <1>5, <1>6, IsNode

LEMMA RootWalk ==
  ASSUME Types, Phase, NEW name
  PROVE  /\ RAMFS \notin DOMAIN mounted /\ ThroughMount(RAMFS) = RAMFS
         /\ WalkOne(RAMFS, name) = LET j == Match(ramfs_nodes, <<name>>) IN
                                     IF j = 0 THEN NULL ELSE Ram(j)
<1>1. RAMFS \notin DOMAIN mounted
  BY Different DEF Phase
<1>2. ThroughMount(RAMFS) = RAMFS
  BY <1>1 DEF ThroughMount
<1>3. RAMFS # NULL /\ IsDirectory(RAMFS)
  BY IsNode, Different DEF IsDirectory
<1>4. WalkOne(RAMFS, name) = ramfs_finddir(0, name)
  BY <1>2, <1>3, Parts DEF WalkOne, finddir
<1>5. Append(<<>>, name) = <<name>>
  OBVIOUS
<1>6. ramfs_finddir(0, name) = LET j == Match(ramfs_nodes, <<name>>) IN
                                 IF j = 0 THEN NULL ELSE Ram(j)
  BY <1>5 DEF ramfs_finddir
<1> QED
  BY <1>1, <1>2, <1>4, <1>6

LEMMA DevLookup ==
  ASSUME Types, Phase, fs_root = RAMFS, DOMAIN mounted = {}
  PROVE  vfs_get_node_by_path(<<"dev">>) = IF Dev = 0 THEN NULL ELSE Ram(Dev)
<1> PICK d : d = "dev"
  OBVIOUS
<1>1. DOMAIN <<d>> = 1..1 /\ <<d>>[1] = d /\ 1 \in Nat /\ 1 \in 1..1 /\ 1 - 1 = 0
  OBVIOUS
<1>2. PICK w \in [0..1 -> Lookups] :
        /\ w[0] = fs_root
        /\ \A k \in 1..1 : w[k] = WalkOne(w[k - 1], <<d>>[k])
        /\ vfs_get_node_by_path(<<d>>) = IF w[1] = NULL THEN NULL ELSE ThroughMount(w[1])
  BY <1>1, Walked
<1>3. w[1] = WalkOne(RAMFS, d)
  BY <1>1, <1>2
<1>4. w[1] = IF Dev = 0 THEN NULL ELSE Ram(Dev)
  BY <1>3, RootWalk DEF Dev
<1> QED
  BY <1>2, <1>4, Different, IsNode, DevIs DEF ThroughMount

\* Where a path below /dev leads to once devfs is mounted there.
LEMMA BelowDev ==
  ASSUME Types, Phase, Dev # 0, pc \in {"fds", "up"},
         NEW T, NEW path \in Seq(T), path # <<>>, path[1] = "dev"
  PROVE  /\ vfs_get_node_by_path(path) \in {NULL, DEVFS, Device("fb0")}
         /\ Len(path) = 2 /\ path[2] = "fb0" => vfs_get_node_by_path(path) = Device("fb0")
<1> PICK n : n = Len(path)
  OBVIOUS
<1>1. n \in Nat /\ n >= 1 /\ DOMAIN path = 1..n
  OBVIOUS
<1>2. PICK w \in [0..n -> Lookups] :
        /\ w[0] = fs_root
        /\ \A k \in 1..n : w[k] = WalkOne(w[k - 1], path[k])
        /\ vfs_get_node_by_path(path) = IF w[n] = NULL THEN NULL ELSE ThroughMount(w[n])
  BY <1>1, Walked
<1>3. fs_root = RAMFS /\ DOMAIN mounted = {Ram(Dev)} /\ devices # <<>>
  BY DEF Phase
<1>4. w[1] = Ram(Dev)
  <2>1. 1 \in 1..n /\ 1 - 1 = 0
    BY <1>1
  <2>2. w[1] = WalkOne(RAMFS, "dev")
    BY <1>2, <1>3, <2>1
  <2> QED
    BY <2>2, RootWalk DEF Dev
<1>5. ThroughMount(Ram(Dev)) = DEVFS
  BY <1>3 DEF ThroughMount, Types
<1>6. Device("fb0") \notin DOMAIN mounted /\ ThroughMount(Device("fb0")) = Device("fb0")
  BY <1>3, Different DEF ThroughMount
<1>7. ASSUME NEW k \in 1..n, k >= 2, w[k - 1] \in {NULL, Ram(Dev), Device("fb0")}
      PROVE  w[k] \in {NULL, Device("fb0")}
  <2>1. w[k] = WalkOne(w[k - 1], path[k])
    BY <1>2
  <2>2. w[k - 1] \in Lookups
    BY <1>7, IsNode, DevIs DEF Lookups
  <2>3. CASE w[k - 1] = NULL
    BY <2>1, <2>3 DEF WalkOne
  <2>4. CASE w[k - 1] = Ram(Dev)
    <3>1. w[k - 1] \in DOMAIN mounted
      BY <1>3, <2>4
    <3> QED
      BY <2>1, <2>2, <3>1, WalkOneIs
  <2>5. CASE w[k - 1] = Device("fb0")
    <3>1. ThroughMount(w[k - 1]) # DEVFS /\ \A j : w[k - 1] # Ram(j)
      BY <1>6, <2>5, Different
    <3> QED
      BY <2>1, <2>2, <3>1, WalkOneIs
  <2> QED
    BY <1>7, <2>3, <2>4, <2>5
<1>8. w[n] \in {NULL, Ram(Dev), Device("fb0")}
  <2> DEFINE G == {k \in 0..n : k >= 1 => w[k] \in {NULL, Ram(Dev), Device("fb0")}}
  <2>1. 0 \in G
    BY <1>1
  <2>2. ASSUME NEW k \in 0..n, k \in G, k < n PROVE k + 1 \in G
    <3>1. k + 1 \in 1..n /\ k + 1 \in 0..n /\ (k + 1) - 1 = k
      BY ONLY <1>1, <2>2, k \in 0..n
    <3>2. CASE k = 0
      BY <1>4, <3>1, <3>2
    <3>3. CASE k # 0
      <4>1. k >= 1 /\ k + 1 >= 2
        BY ONLY <1>1, <3>3, k \in 0..n
      <4>2. w[(k + 1) - 1] \in {NULL, Ram(Dev), Device("fb0")}
        BY <2>2, <3>1, <4>1
      <4>3. w[k + 1] \in {NULL, Device("fb0")}
        BY <1>7, <3>1, <4>1, <4>2
      <4> QED
        BY <3>1, <4>3
    <3> QED
      BY <3>2, <3>3
  <2> HIDE DEF G
  <2>3. \A k \in 0..n : k \in G
    BY ONLY <1>1, <2>1, <2>2, Counted
  <2>4. n \in 0..n /\ n >= 1
    BY <1>1
  <2> QED
    BY <2>3, <2>4 DEF G
<1>9. vfs_get_node_by_path(path) \in {NULL, DEVFS, Device("fb0")}
  BY <1>2, <1>5, <1>6, <1>8
<1>10. ASSUME n = 2, path[2] = "fb0" PROVE vfs_get_node_by_path(path) = Device("fb0")
  <2>1. 2 \in 1..n /\ 2 - 1 = 1
    BY <1>10
  <2>2. w[2] = WalkOne(Ram(Dev), "fb0")
    BY <1>2, <1>4, <1>10, <2>1
  <2>3. "fb0" \in ToSet(devices)
    <3>1. 1 \in DOMAIN devices /\ devices[1] = "fb0"
      BY <1>3 DEF Types
    <3> QED
      BY <3>1 DEF ToSet
  <2>4. Ram(Dev) # NULL
    BY DevIs, Different
  <2>5. WalkOne(Ram(Dev), "fb0") = Device("fb0")
    BY <1>5, <2>3, <2>4, Parts DEF WalkOne, IsDirectory, finddir
  <2> QED
    BY <1>2, <1>6, <1>10, <2>2, <2>5
<1> QED
  BY <1>9, <1>10

-----------------------------------------------------------------------------
(* ensure_parent_dirs_exist *)

Table == {t \in Seq(Node) : Len(t) <= MAX_RAMFS_NODES}
Has(t, q) == \E j \in 1..Len(t) : t[j].path = q
Start(path, k) == SubSeq(path, 1, k)

\* One round of its loop.
EnsureOne(t, path, k) ==
  IF Match(t, Start(path, k)) # 0 \/ Len(t) >= MAX_RAMFS_NODES
  THEN t ELSE Append(t, Directory(Start(path, k)))

\* t is the table ns with directories for starts of the path behind it, each
\* after those it lies in, and with all of the first k unless t is full.
Grown(ns, t, path, k) ==
  /\ Len(ns) <= Len(t) /\ \A j \in 1..Len(ns) : t[j] = ns[j]
  /\ \A j \in 1..Len(t) :
       j <= Len(ns) \/ \E l \in 1..k : /\ t[j] = Directory(Start(path, l))
                                       /\ \A m \in 1..(l - 1) : Has(t, Start(path, m))
  /\ Len(t) < MAX_RAMFS_NODES => \A l \in 1..k : Has(t, Start(path, l))

LEMMA StartIs ==
  ASSUME NEW T, NEW p \in Seq(T), NEW k \in 0..Len(p)
  PROVE  /\ Start(p, k) \in Seq(T) /\ Len(Start(p, k)) = k
         /\ \A i \in 1..k : Start(p, k)[i] = p[i]
<1>1. Len(p) \in Nat /\ \A i \in 1..Len(p) : p[i] \in T
  OBVIOUS
<1>2. 1 \in Int /\ k \in Int /\ \A i \in 1..k : i \in 1..Len(p)
  BY ONLY <1>1, k \in 0..Len(p)
<1>3. \A i \in 1..k : p[i] \in T
  BY <1>1, <1>2
<1>4. /\ SubSeq(p, 1, k) \in Seq(T) /\ Len(SubSeq(p, 1, k)) = IF 1 <= k THEN k - 1 + 1 ELSE 0
      /\ \A i \in 1..(k - 1 + 1) : SubSeq(p, 1, k)[i] = p[1 + i - 1]
  BY ONLY <1>2, <1>3, SubSeqProperties
<1>5. /\ (IF 1 <= k THEN k - 1 + 1 ELSE 0) = k
      /\ \A i \in 1..k : i \in 1..(k - 1 + 1) /\ 1 + i - 1 = i
  BY ONLY <1>1, k \in 0..Len(p)
<1> QED
  BY <1>4, <1>5 DEF Start

LEMMA StartClean ==
  ASSUME NEW p, Clean(p), NEW k \in 0..Len(p) PROVE Clean(Start(p, k))
<1>1. p \in Seq(Name)
  BY DEF Clean
<1>2. Start(p, k) \in Seq(Name) /\ Len(Start(p, k)) = k /\ \A i \in 1..k : Start(p, k)[i] = p[i]
  BY <1>1, StartIs
<1>3. CASE k = 0
  <2>1. Start(p, k) = <<>>
    BY <1>2, <1>3
  <2> QED
    BY <1>2, <2>1 DEF Clean
<1>4. CASE k # 0
  <2>1. 1 \in 1..k /\ Len(p) # 0
    BY <1>1, <1>4
  <2>2. p # <<>>
    BY <2>1
  <2> QED
    BY <1>2, <2>1, <2>2 DEF Clean
<1> QED
  BY <1>3, <1>4

LEMMA StartDirectory ==
  ASSUME NEW p, Clean(p), NEW k \in 0..Len(p)
  PROVE  Directory(Start(p, k)) \in Node /\ Directory(Start(p, k)).path = Start(p, k)
         /\ Directory(Start(p, k)).dir
BY StartClean DEF Clean, Directory, Node

LEMMA EnsureTyped ==
  ASSUME NEW t \in Table, NEW p, Clean(p), NEW k \in 1..Len(p)
  PROVE  EnsureOne(t, p, k) \in Table
<1>1. CASE EnsureOne(t, p, k) = t
  BY <1>1
<1>2. CASE EnsureOne(t, p, k) = Append(t, Directory(Start(p, k))) /\ ~(Len(t) >= MAX_RAMFS_NODES)
  <2>1. k \in 0..Len(p)
    OBVIOUS
  <2>2. t \in Seq(Node) /\ Directory(Start(p, k)) \in Node
    BY <2>1, StartDirectory DEF Table
  <2>3. Append(t, Directory(Start(p, k))) \in Seq(Node)
        /\ Len(Append(t, Directory(Start(p, k)))) = Len(t) + 1
    BY ONLY <2>2, Appended
  <2>4. Len(t) + 1 <= MAX_RAMFS_NODES
    <3>1. MAX_RAMFS_NODES \in Nat
      BY VfsConstants
    <3>2. Len(t) \in Nat
      BY <2>2
    <3> QED
      BY ONLY <1>2, <3>1, <3>2
  <2> QED
    BY <1>2, <2>3, <2>4 DEF Table
<1> QED
  BY <1>1, <1>2 DEF EnsureOne

LEMMA GrownMore ==
  ASSUME NEW ns \in Table, NEW t \in Table, NEW p, Clean(p), NEW k \in 1..Len(p),
         Grown(ns, t, p, k - 1)
  PROVE  Grown(ns, EnsureOne(t, p, k), p, k)
<1>0. /\ Len(p) \in Nat /\ Len(t) \in Nat /\ Len(ns) \in Nat /\ k \in Nat /\ k \in 0..Len(p)
      /\ \A l \in 1..(k - 1) : l \in 1..k
  BY DEF Clean, Table
<1>1. CASE EnsureOne(t, p, k) = t /\ (Match(t, Start(p, k)) # 0 \/ Len(t) >= MAX_RAMFS_NODES)
  <2>1. Match(t, Start(p, k)) # 0 => Has(t, Start(p, k))
    <3>1. sanitize_path(Start(p, k)) = Start(p, k)
      BY <1>0, StartClean, CleanStays
    <3> QED
      BY <1>0, <3>1, Matched DEF Has
  <2>2. Len(t) < MAX_RAMFS_NODES => Match(t, Start(p, k)) # 0
    <3>1. MAX_RAMFS_NODES \in Nat
      BY VfsConstants
    <3>2. ~(Len(t) < MAX_RAMFS_NODES /\ Len(t) >= MAX_RAMFS_NODES)
      BY ONLY <3>1, <1>0
    <3> QED
      BY <1>1, <3>2
  <2>3. \A l \in 1..k : l \in 1..(k - 1) \/ l = k
    BY ONLY <1>0
  <2> QED
    BY <1>0, <1>1, <2>1, <2>2, <2>3 DEF Grown
<1>2. CASE EnsureOne(t, p, k) = Append(t, Directory(Start(p, k))) /\ ~(Len(t) >= MAX_RAMFS_NODES)
  <2> PICK u : u = Append(t, Directory(Start(p, k)))
    OBVIOUS
  <2>1. /\ Len(u) = Len(t) + 1 /\ \A i \in 1..Len(t) : u[i] = t[i]
        /\ u[Len(t) + 1] = Directory(Start(p, k))
    <3>1. t \in Seq(Node) /\ Directory(Start(p, k)) \in Node
      BY <1>0, StartDirectory DEF Table
    <3> QED
      BY <3>1, Appended
  <2>2. Len(t) < MAX_RAMFS_NODES
    <3>1. MAX_RAMFS_NODES \in Nat
      BY VfsConstants
    <3> QED
      BY ONLY <3>1, <1>0, <1>2
  <2>3. ASSUME NEW q, Has(t, q) PROVE Has(u, q)
    <3>1. \A j \in 1..Len(t) : j \in 1..Len(u)
      BY ONLY <1>0, <2>1
    <3> QED
      BY <2>1, <2>3, <3>1 DEF Has
  <2>4. Has(u, Start(p, k))
    <3>1. Len(t) + 1 \in 1..Len(u)
      BY ONLY <1>0, <2>1
    <3> QED
      BY <1>0, <2>1, <3>1, StartDirectory DEF Has
  <2>5. \A l \in 1..(k - 1) : Has(t, Start(p, l))
    BY <2>2 DEF Grown
  <2>6. \A l \in 1..k : Has(u, Start(p, l))
    <3>1. \A l \in 1..k : l \in 1..(k - 1) \/ l = k
      BY ONLY <1>0
    <3> QED
      BY <2>3, <2>4, <2>5, <3>1
  <2>7. Len(ns) <= Len(u) /\ \A j \in 1..Len(ns) : u[j] = ns[j]
    <3>1. Len(ns) <= Len(t) /\ \A j \in 1..Len(ns) : t[j] = ns[j]
      BY DEF Grown
    <3>2. Len(ns) <= Len(u) /\ \A j \in 1..Len(ns) : j \in 1..Len(t)
      BY ONLY <1>0, <2>1, <3>1
    <3> QED
      BY <2>1, <3>1, <3>2
  <2>8. ASSUME NEW j \in 1..Len(u), ~(j <= Len(ns))
        PROVE  \E l \in 1..k : /\ u[j] = Directory(Start(p, l))
                               /\ \A m \in 1..(l - 1) : Has(u, Start(p, m))
    <3>1. CASE j \in 1..Len(t)
      <4>1. PICK l \in 1..(k - 1) : /\ t[j] = Directory(Start(p, l))
                                    /\ \A m \in 1..(l - 1) : Has(t, Start(p, m))
        BY <2>8, <3>1 DEF Grown
      <4> QED
        BY <1>0, <2>1, <2>3, <3>1, <4>1
    <3>2. CASE j = Len(t) + 1
      <4>1. k \in 1..k /\ \A m \in 1..(k - 1) : m \in 1..k
        BY ONLY <1>0, k \in 1..Len(p)
      <4> QED
        BY <2>1, <2>6, <3>2, <4>1
    <3>3. j \in 1..Len(t) \/ j = Len(t) + 1
      BY ONLY <1>0, <2>1, j \in 1..Len(u)
    <3> QED
      BY <3>1, <3>2, <3>3
  <2>9. Grown(ns, u, p, k)
    BY <2>6, <2>7, <2>8 DEF Grown
  <2> QED
    BY <1>2, <2>9
<1> QED
  BY <1>1, <1>2 DEF EnsureOne

\* How many directories the loop makes sure of.
Above(path, slash) == IF slash \/ path = <<>> THEN Len(path) ELSE Len(path) - 1

LEMMA Ensured ==
  ASSUME NEW ns \in Table, NEW p, Clean(p), NEW slash \in BOOLEAN
  PROVE  LET t == ensure_parent_dirs_exist(ns, p, slash)
         IN  t \in Table /\ Grown(ns, t, p, Above(p, slash))
<1> PICK n : n = Above(p, slash)
  OBVIOUS
<1>1. Len(p) \in Nat /\ n \in Nat /\ n <= Len(p)
  BY DEF Clean, Above
<1> PICK q : q = [k \in 1..(IF slash THEN Len(p) ELSE Len(p) - 1) |-> k]
  OBVIOUS
<1>2. DOMAIN q = 1..n /\ \A k \in 1..n : q[k] = k
  <2>1. 1..(IF slash THEN Len(p) ELSE Len(p) - 1) = 1..n
    <3>1. CASE slash \/ p # <<>>
      BY <3>1 DEF Above
    <3>2. CASE ~slash /\ p = <<>>
      <4>1. Len(p) = 0 /\ n = 0
        BY <3>2 DEF Above
      <4>2. 1..(0 - 1) = {} /\ 1..0 = {}
        OBVIOUS
      <4> QED
        BY <3>2, <4>1, <4>2
    <3> QED
      BY <3>1, <3>2
  <2> QED
    BY <2>1
<1> DEFINE F == [a \in Table |-> [b \in 1..n |-> EnsureOne(a, p, b)]]
           Ensure(t, k) ==
             IF Match(t, SubSeq(p, 1, k)) # 0 \/ Len(t) >= MAX_RAMFS_NODES
             THEN t ELSE Append(t, Directory(SubSeq(p, 1, k)))
           Body(h, s) == IF s = {} THEN ns ELSE EnsureOne(h[s \ {Max(s)}], p, q[Max(s)])
           Iter(h) == h = [s \in SUBSET DOMAIN q |-> Body(h, s)]
<1>3. ensure_parent_dirs_exist(ns, p, slash) = (CHOOSE h : Iter(h))[DOMAIN q]
  BY DEF ensure_parent_dirs_exist, FoldLeft, MapThenFoldSet, EnsureOne, Start
<1>4. \A k \in 1..n : k \in 1..Len(p)
  BY ONLY <1>1
<1>5. \E h : Iter(h)
  <2>1. F \in [Table -> [1..n -> Table]]
    BY <1>4, EnsureTyped
  <2> HIDE DEF F
  <2> PICK f, L, C : f = F /\ L = Table /\ C = 1..n
    OBVIOUS
  <2>2. f \in [L -> [C -> L]] /\ ns \in L /\ \A k \in 1..n : q[k] \in C
    BY <1>2, <2>1
  <2>3. Foldable(L, f, ns, q, n)
    BY ONLY <1>1, <2>2, FoldExists
  <2>4. PICK h \in [SUBSET (1..n) -> Table] : Folds(F, ns, q, n, h)
    BY <2>3 DEF Foldable
  <2>5. ASSUME NEW s \in SUBSET (1..n) PROVE h[s] = Body(h, s)
    <3>1. CASE s = {}
      BY <2>4, <3>1 DEF Folds
    <3>2. CASE s # {}
      <4>1. Max(s) \in 1..n
        BY <1>1, <3>2, LargestIs
      <4>2. h[s \ {Max(s)}] \in Table /\ q[Max(s)] \in 1..n
        BY <1>2, <4>1
      <4>3. F[h[s \ {Max(s)}]][q[Max(s)]] = EnsureOne(h[s \ {Max(s)}], p, q[Max(s)])
        BY <4>2 DEF F
      <4> QED
        BY <2>4, <3>2, <4>3 DEF Folds
    <3> QED
      BY <3>1, <3>2
  <2> HIDE DEF Body
  <2>6. h = [s \in SUBSET (1..n) |-> Body(h, s)]
    BY <2>5
  <2>7. DOMAIN q = 1..n
    BY <1>2
  <2>8. Iter(h)
    BY ONLY <2>6, <2>7
  <2> QED
    BY <2>8
<1> PICK h : h = CHOOSE g : Iter(g)
  OBVIOUS
<1>6. h = [s \in SUBSET (1..n) |-> Body(h, s)]
  <2>1. Iter(h)
    BY <1>5
  <2> QED
    BY <1>2, <2>1
<1>7. ASSUME NEW s \in SUBSET (1..n) PROVE h[s] = Body(h, s)
  <2> HIDE DEF Body
  <2> QED
    BY <1>6
<1> DEFINE v == [k \in 0..n |-> h[1..k]]
<1>8. v[0] = ns
  <2>1. 0 \in 0..n /\ 1..0 = {} /\ 1..0 \in SUBSET (1..n)
    BY ONLY <1>1
  <2> QED
    BY <1>7, <2>1
<1>9. ASSUME NEW k \in 1..n PROVE v[k] = EnsureOne(v[k - 1], p, k)
  <2>1. /\ k \in Nat \ {0} /\ k \in 0..n /\ k - 1 \in 0..n
        /\ 1..k # {} /\ 1..k \in SUBSET (1..n) /\ (1..k) \ {k} = 1..(k - 1)
        /\ 1..(k - 1) \in SUBSET (1..n)
    BY <1>1, UpTo
  <2>2. Max(1..k) = k
    BY <2>1, TopIs
  <2>3. h[1..k] = EnsureOne(h[1..(k - 1)], p, k)
    BY <1>2, <1>7, <2>1, <2>2
  <2> QED
    BY <2>1, <2>3
<1>10. ensure_parent_dirs_exist(ns, p, slash) = v[n]
  <2>1. n \in 0..n
    BY ONLY <1>1
  <2> QED
    BY <1>2, <1>3, <2>1
<1> HIDE DEF v
<1> DEFINE G == {k \in 0..n : v[k] \in Table /\ Grown(ns, v[k], p, k)}
<1>11. 0 \in G
  <2>1. Grown(ns, ns, p, 0)
    <3>1. Len(ns) \in Nat
      BY DEF Table
    <3>2. Len(ns) <= Len(ns) /\ \A j \in 1..Len(ns) : j <= Len(ns)
      BY ONLY <3>1
    <3> QED
      BY <3>2 DEF Grown
  <2>2. 0 \in 0..n
    BY ONLY <1>1
  <2> QED
    BY <1>8, <2>1, <2>2
<1>12. ASSUME NEW k \in 0..n, k \in G, k < n PROVE k + 1 \in G
  <2>1. k + 1 \in 1..n /\ k + 1 \in 0..n /\ (k + 1) - 1 = k
    BY ONLY <1>1, <1>12, k \in 0..n
  <2>2. v[k + 1] = EnsureOne(v[k], p, k + 1)
    BY <1>9, <2>1
  <2>3. v[k] \in Table /\ Grown(ns, v[k], p, (k + 1) - 1) /\ k + 1 \in 1..Len(p)
    BY <1>4, <1>12, <2>1
  <2> PICK t, l : t = v[k] /\ l = k + 1
    OBVIOUS
  <2>4. EnsureOne(t, p, l) \in Table /\ Grown(ns, EnsureOne(t, p, l), p, l)
    BY <2>3, EnsureTyped, GrownMore
  <2> QED
    BY <2>1, <2>2, <2>4
<1> HIDE DEF G
<1>13. n \in G
  <2>1. \A k \in 0..n : k \in G
    BY ONLY <1>1, <1>11, <1>12, Counted
  <2>2. n \in 0..n
    BY ONLY <1>1
  <2> QED
    BY <2>1, <2>2
<1> QED
  BY <1>10, <1>13 DEF G

-----------------------------------------------------------------------------
(* The headers that the walk over the tar file meets *)

LEMMA Division ==
  ASSUME NEW a \in Nat, NEW b \in Nat \ {0}
  PROVE  a \div b \in Nat /\ (a \div b) * b <= a /\ a < (a \div b) * b + b
OBVIOUS

LEMMA Monotonic ==
  ASSUME NEW a \in Int, NEW c \in Int, NEW b \in Nat, a <= c PROVE a * b <= c * b
OBVIOUS

\* Both ways to count the blocks of some bytes agree.
LEMMA BlocksArePadded ==
  ASSUME NEW size \in Nat PROVE Blocks(size) = Padded(size) /\ Padded(size) \in Nat
<1> PICK b \in Nat \ {0} : b = BLOCK
  BY VfsConstants
<1> DEFINE q == size \div b
           r == size % b
<1>0. q \in Nat
  BY Division
<1>a. /\ q \in Int /\ r \in 0..(b - 1)
      /\ size = b * q + r
  OBVIOUS
<1>b. Blocks(size) = q + (IF r # 0 THEN 1 ELSE 0)
  BY DEF Blocks
<1> HIDE DEF q, r
<1>c. b * q = q * b
  BY <1>a
<1>1. q \in Nat /\ r \in 0..(b - 1) /\ size = q * b + r
  BY <1>0, <1>a, <1>c
<1>2. size + b - 1 \in Nat
  OBVIOUS
<1> PICK Q : Q = (size + b - 1) \div b
  OBVIOUS
<1>3. Q \in Nat /\ Q * b <= size + b - 1 /\ size + b - 1 < Q * b + b
  BY <1>2, Division
<1> PICK x, X : x = q * b /\ X = Q * b
  OBVIOUS
<1>4. x \in Nat /\ X \in Nat
  BY <1>1, <1>3
<1>5. (q + 1) * b = x + b /\ (Q + 1) * b = X + b /\ (q + 2) * b = x + b + b
  BY <1>1, <1>3
<1>6. q + 1 \in Int /\ Q + 1 \in Int /\ q + 2 \in Int /\ b \in Nat
  BY <1>1, <1>3
<1>7. CASE r = 0
  <2>1. ~(q + 1 <= Q)
    <3>1. q + 1 <= Q => (q + 1) * b <= Q * b
      BY <1>3, <1>6, Monotonic
    <3> QED
      BY <1>1, <1>3, <1>4, <1>5, <1>7, <3>1
  <2>2. ~(Q + 1 <= q)
    <3>1. Q + 1 <= q => (Q + 1) * b <= q * b
      BY <1>1, <1>6, Monotonic
    <3> QED
      BY <1>1, <1>3, <1>4, <1>5, <1>7, <3>1
  <2>3. Q = q
    BY ONLY <1>1, <1>3, <2>1, <2>2
  <2> QED
    BY <1>1, <1>b, <1>7, <2>3 DEF Padded
<1>8. CASE r # 0
  <2>1. ~(q + 2 <= Q)
    <3>1. q + 2 <= Q => (q + 2) * b <= Q * b
      BY <1>3, <1>6, Monotonic
    <3> QED
      BY <1>1, <1>3, <1>4, <1>5, <3>1
  <2>2. ~(Q <= q)
    <3>1. Q <= q => Q * b <= q * b
      BY <1>1, <1>3, Monotonic
    <3> QED
      BY <1>1, <1>3, <1>4, <1>5, <1>8, <3>1
  <2>3. Q = q + 1
    BY ONLY <1>1, <1>3, <2>1, <2>2
  <2> QED
    BY <1>1, <1>b, <1>8, <2>3 DEF Padded
<1> QED
  BY <1>7, <1>8

LEMMA HeaderWalk ==
  ASSUME archive \in Seq(TarEntry), NEW i \in 1..(Len(archive) + 1)
  PROVE  \E w \in [0..(i - 1) -> Nat] :
           /\ w[0] = 1 /\ HeaderOf(i) = w[i - 1]
           /\ \A k \in 1..(i - 1) : w[k] = w[k - 1] + 1 + Padded(archive[k].size)
<1> PICK n : n = i - 1
  OBVIOUS
<1>1. n \in Nat /\ n \in 0..Len(archive) /\ Len(archive) \in Nat
  OBVIOUS
<1> PICK q : q = SubSeq(archive, 1, n)
  OBVIOUS
<1>2. DOMAIN q = 1..n /\ \A k \in 1..n : q[k] = archive[k] /\ q[k] \in TarEntry
  <2>1. q \in Seq(TarEntry) /\ Len(q) = n /\ \A k \in 1..n : q[k] = archive[k]
    BY <1>1, StartIs DEF Start
  <2> QED
    BY <2>1
<1> DEFINE add(x, e) == x + 1 + Padded(e.size)
           F == [a \in Nat |-> [b \in TarEntry |-> add(a, b)]]
           Body(h, s) == IF s = {} THEN 1 ELSE add(h[s \ {Max(s)}], q[Max(s)])
           Iter(h) == h = [s \in SUBSET DOMAIN q |-> Body(h, s)]
<1>3. HeaderOf(i) = (CHOOSE h : Iter(h))[DOMAIN q]
  BY DEF HeaderOf, FoldLeft, MapThenFoldSet
<1>4. ASSUME NEW a \in Nat, NEW e \in TarEntry PROVE add(a, e) \in Nat
  <2>1. e.size \in Nat
    BY DEF TarEntry
  <2>2. Padded(e.size) \in Nat
    BY <2>1, BlocksArePadded
  <2> QED
    BY <2>2
<1> HIDE DEF add
<1>5. \E h : Iter(h)
  <2>1. F \in [Nat -> [TarEntry -> Nat]]
    BY <1>4
  <2> HIDE DEF F
  <2> PICK f, L, C, one : f = F /\ L = Nat /\ C = TarEntry /\ one = 1
    OBVIOUS
  <2>2. f \in [L -> [C -> L]] /\ one \in L /\ \A k \in 1..n : q[k] \in C
    BY <1>2, <2>1
  <2>3. Foldable(L, f, one, q, n)
    BY ONLY <1>1, <2>2, FoldExists
  <2>4. PICK h \in [SUBSET (1..n) -> Nat] : Folds(F, 1, q, n, h)
    BY <2>3 DEF Foldable
  <2>5. ASSUME NEW s \in SUBSET (1..n) PROVE h[s] = Body(h, s)
    <3>1. CASE s = {}
      BY <2>4, <3>1 DEF Folds
    <3>2. CASE s # {}
      <4>1. Max(s) \in 1..n
        BY <1>1, <3>2, LargestIs
      <4>2. h[s \ {Max(s)}] \in Nat /\ q[Max(s)] \in TarEntry
        BY <1>2, <4>1
      <4>3. F[h[s \ {Max(s)}]][q[Max(s)]] = add(h[s \ {Max(s)}], q[Max(s)])
        BY <4>2 DEF F
      <4> QED
        BY <2>4, <3>2, <4>3 DEF Folds
    <3> QED
      BY <3>1, <3>2
  <2> HIDE DEF Body
  <2>6. h = [s \in SUBSET (1..n) |-> Body(h, s)]
    BY <2>5
  <2>7. DOMAIN q = 1..n
    BY <1>2
  <2>8. Iter(h)
    BY ONLY <2>6, <2>7
  <2> QED
    BY <2>8
<1> PICK h : h = CHOOSE g : Iter(g)
  OBVIOUS
<1>6. h = [s \in SUBSET (1..n) |-> Body(h, s)]
  <2>1. Iter(h)
    BY <1>5
  <2> QED
    BY <1>2, <2>1
<1>7. ASSUME NEW s \in SUBSET (1..n) PROVE h[s] = Body(h, s)
  <2> HIDE DEF Body
  <2> QED
    BY <1>6
<1> DEFINE v == [k \in 0..n |-> h[1..k]]
<1>8. v[0] = 1
  <2>1. 0 \in 0..n /\ 1..0 = {} /\ 1..0 \in SUBSET (1..n)
    BY ONLY <1>1
  <2> QED
    BY <1>7, <2>1
<1>9. ASSUME NEW k \in 1..n PROVE v[k] = add(v[k - 1], archive[k])
  <2>1. /\ k \in Nat \ {0} /\ k \in 0..n /\ k - 1 \in 0..n
        /\ 1..k # {} /\ 1..k \in SUBSET (1..n) /\ (1..k) \ {k} = 1..(k - 1)
        /\ 1..(k - 1) \in SUBSET (1..n)
    BY <1>1, UpTo
  <2>2. Max(1..k) = k
    BY <2>1, TopIs
  <2>3. h[1..k] = add(h[1..(k - 1)], archive[k])
    <3>1. h[1..k] = Body(h, 1..k)
      BY <1>7, <2>1
    <3>2. Body(h, 1..k) = add(h[(1..k) \ {Max(1..k)}], q[Max(1..k)])
      BY <2>1
    <3>3. q[k] = archive[k]
      BY <1>2
    <3> QED
      BY <3>1, <3>2, <3>3, <2>1, <2>2
  <2>4. v[k] = h[1..k] /\ v[k - 1] = h[1..(k - 1)]
    BY <2>1
  <2> QED
    BY <2>3, <2>4
<1>10. HeaderOf(i) = v[n]
  <2>1. n \in 0..n
    BY ONLY <1>1
  <2> QED
    BY <1>2, <1>3, <2>1
<1> HIDE DEF v
<1> DEFINE G == {k \in 0..n : v[k] \in Nat}
<1>11. 0 \in G
  BY <1>1, <1>8
<1>12. ASSUME NEW k \in 0..n, k \in G, k < n PROVE k + 1 \in G
  <2>1. k + 1 \in 1..n /\ k + 1 \in 0..n /\ (k + 1) - 1 = k
    BY ONLY <1>1, <1>12, k \in 0..n
  <2>2. v[k + 1] = add(v[k], archive[k + 1])
    BY <1>9, <2>1
  <2>3. v[k] \in Nat /\ archive[k + 1] \in TarEntry
    BY <1>2, <1>12, <2>1
  <2> QED
    BY <1>4, <2>1, <2>2, <2>3
<1> HIDE DEF G
<1>13. \A k \in 0..n : v[k] \in Nat
  <2>1. \A k \in 0..n : k \in G
    BY ONLY <1>1, <1>11, <1>12, Counted
  <2> QED
    BY <2>1 DEF G
<1>14. v \in [0..n -> Nat]
  BY <1>13 DEF v
<1> QED
  BY <1>8, <1>9, <1>10, <1>14 DEF add

LEMMA HeaderNext ==
  ASSUME archive \in Seq(TarEntry), NEW i \in 1..Len(archive)
  PROVE  /\ HeaderOf(i) \in Nat /\ HeaderOf(i + 1) \in Nat
         /\ HeaderOf(i + 1) = HeaderOf(i) + 1 + Padded(archive[i].size)
         /\ archive[i].size \in Nat
<1>1. /\ Len(archive) \in Nat /\ i \in 1..(Len(archive) + 1) /\ i + 1 \in 1..(Len(archive) + 1)
      /\ (i + 1) - 1 = i /\ i \in Nat /\ i \in 1..i /\ i \in 0..i /\ i - 1 \in 0..(i - 1) /\ i - 1 \in Nat
  OBVIOUS
<1>2. PICK w \in [0..(i - 1) -> Nat] :
        /\ w[0] = 1 /\ HeaderOf(i) = w[i - 1]
        /\ \A k \in 1..(i - 1) : w[k] = w[k - 1] + 1 + Padded(archive[k].size)
  BY <1>1, HeaderWalk
<1>3. PICK u \in [0..i -> Nat] :
        /\ u[0] = 1 /\ HeaderOf(i + 1) = u[i]
        /\ \A k \in 1..i : u[k] = u[k - 1] + 1 + Padded(archive[k].size)
  <2> PICK j : j = i + 1
    OBVIOUS
  <2>1. j \in 1..(Len(archive) + 1) /\ j - 1 = i
    BY <1>1
  <2>2. \E v \in [0..(j - 1) -> Nat] :
          /\ v[0] = 1 /\ HeaderOf(j) = v[j - 1]
          /\ \A k \in 1..(j - 1) : v[k] = v[k - 1] + 1 + Padded(archive[k].size)
    BY <2>1, HeaderWalk
  <2> QED
    BY <2>1, <2>2
<1> DEFINE G == {k \in 0..(i - 1) : u[k] = w[k]}
<1>4. 0 \in G
  BY <1>1, <1>2, <1>3
<1>5. ASSUME NEW k \in 0..(i - 1), k \in G, k < i - 1 PROVE k + 1 \in G
  <2>1. k + 1 \in 1..(i - 1) /\ k + 1 \in 1..i /\ (k + 1) - 1 = k /\ k + 1 \in 0..(i - 1)
    BY ONLY <1>1, <1>5, k \in 0..(i - 1)
  <2>2. w[k + 1] = w[k] + 1 + Padded(archive[k + 1].size)
    BY <1>2, <2>1
  <2>3. u[k + 1] = u[k] + 1 + Padded(archive[k + 1].size)
    BY <1>3, <2>1
  <2> QED
    BY <1>5, <2>1, <2>2, <2>3
<1> HIDE DEF G
<1>6. i - 1 \in G
  <2> PICK n : n = i - 1
    OBVIOUS
  <2>1. n \in Nat /\ n \in 0..n
    BY <1>1
  <2>2. \A k \in 0..n : k \in G /\ k < n => k + 1 \in G
    BY <1>5
  <2>3. \A k \in 0..n : k \in G
    BY ONLY <1>4, <2>1, <2>2, Counted
  <2> QED
    BY <2>1, <2>3
<1>7. u[i - 1] = w[i - 1]
  BY <1>6 DEF G
<1>8. u[i] = u[i - 1] + 1 + Padded(archive[i].size)
  BY <1>1, <1>3
<1>9. archive[i].size \in Nat
  <2>1. archive[i] \in TarEntry
    OBVIOUS
  <2> QED
    BY <2>1 DEF TarEntry
<1>10. w[i - 1] \in Nat /\ u[i] \in Nat
  BY <1>1
<1> QED
  BY <1>2, <1>3, <1>7, <1>8, <1>9, <1>10

LEMMA HeaderFirst ==
  ASSUME archive \in Seq(TarEntry) PROVE HeaderOf(1) = 1
<1>1. 1 \in 1..(Len(archive) + 1) /\ 1 - 1 = 0
  OBVIOUS
<1>2. \E w \in [0..(1 - 1) -> Nat] : w[0] = 1 /\ HeaderOf(1) = w[1 - 1]
  BY <1>1, HeaderWalk
<1> QED
  BY <1>1, <1>2

\* No two entries have the same header.
LEMMA HeadersApart ==
  ASSUME archive \in Seq(TarEntry), NEW i \in 1..(Len(archive) + 1),
         NEW j \in 1..(Len(archive) + 1), i < j
  PROVE  HeaderOf(i) < HeaderOf(j)
<1> PICK n : n = Len(archive) + 1
  OBVIOUS
<1>1. n \in Nat /\ i \in 1..n /\ j \in 1..n /\ i \in Nat
  OBVIOUS
<1> DEFINE G == {k \in 0..n : i < k => HeaderOf(i) \in Nat /\ HeaderOf(k) \in Nat /\ HeaderOf(i) < HeaderOf(k)}
<1>2. 0 \in G
  BY <1>1
<1>3. ASSUME NEW k \in 0..n, k \in G, k < n PROVE k + 1 \in G
  <2> SUFFICES ASSUME i < k + 1
               PROVE  /\ HeaderOf(i) \in Nat /\ HeaderOf(k + 1) \in Nat
                      /\ HeaderOf(i) < HeaderOf(k + 1)
    BY <1>1, <1>3
  <2>1. k \in 1..Len(archive) /\ (i < k \/ i = k)
    BY ONLY <1>1, <1>3, i < k + 1, k \in 0..n, Len(archive) \in Nat, n = Len(archive) + 1
  <2>2. /\ HeaderOf(k) \in Nat /\ HeaderOf(k + 1) \in Nat
        /\ HeaderOf(k + 1) = HeaderOf(k) + 1 + Padded(archive[k].size)
        /\ archive[k].size \in Nat
    BY <2>1, HeaderNext
  <2>3. Padded(archive[k].size) \in Nat
    BY <2>2, BlocksArePadded
  <2>4. HeaderOf(k) < HeaderOf(k + 1)
    BY ONLY <2>2, <2>3
  <2>5. CASE i = k
    BY <2>2, <2>4, <2>5
  <2>6. CASE i < k
    <3>1. HeaderOf(i) \in Nat /\ HeaderOf(i) < HeaderOf(k)
      BY <1>3, <2>6
    <3>2. HeaderOf(i) < HeaderOf(k + 1)
      BY ONLY <2>2, <2>4, <3>1
    <3> QED
      BY <2>2, <3>1, <3>2
  <2> QED
    BY <2>1, <2>5, <2>6
<1> HIDE DEF G
<1>4. \A k \in 0..n : k \in G
  BY ONLY <1>1, <1>2, <1>3, Counted
<1>5. j \in 0..n
  BY <1>1
<1> QED
  BY <1>4, <1>5 DEF G

LEMMA AtHeaderIs ==
  ASSUME archive \in Seq(TarEntry), NEW m \in 1..(Len(archive) + 1), header = HeaderOf(m)
  PROVE  /\ AtEnd <=> m = Len(archive) + 1
         /\ m # Len(archive) + 1 =>
              /\ m \in DOMAIN archive /\ AtHeader = archive[m]
              /\ header \in Nat
              /\ header + 1 + Blocks(AtHeader.size) = HeaderOf(m + 1)
              /\ m + 1 \in 1..(Len(archive) + 1)
<1>1. Len(archive) \in Nat /\ DOMAIN archive = 1..Len(archive)
  OBVIOUS
<1>2. ASSUME NEW i \in DOMAIN archive, HeaderOf(i) = header PROVE i = m
  <2>1. i \in 1..(Len(archive) + 1) /\ HeaderOf(i) \in Nat
    BY <1>1, HeaderNext
  <2>2. ~(i < m)
    <3>1. i < m => HeaderOf(i) < HeaderOf(m)
      BY <2>1, HeadersApart
    <3> QED
      BY <1>2, <2>1, <3>1
  <2>3. ~(m < i)
    <3>1. m < i => HeaderOf(m) < HeaderOf(i)
      BY <2>1, HeadersApart
    <3> QED
      BY <1>2, <2>1, <3>1
  <2> QED
    BY <1>1, <2>1, <2>2, <2>3
<1>3. CASE m = Len(archive) + 1
  <2>1. m \notin DOMAIN archive
    BY <1>1, <1>3
  <2>2. Headers = {}
    BY <1>2, <2>1 DEF Headers
  <2> QED
    BY <1>3, <2>2 DEF AtEnd
<1>4. CASE m # Len(archive) + 1
  <2>1. m \in DOMAIN archive /\ m + 1 \in 1..(Len(archive) + 1)
    BY <1>1, <1>4
  <2>2. Headers = {m}
    BY <1>2, <2>1 DEF Headers
  <2>3. AtHeader = archive[m]
    BY <2>2 DEF AtHeader
  <2>4. /\ HeaderOf(m) \in Nat
        /\ HeaderOf(m + 1) = HeaderOf(m) + 1 + Padded(archive[m].size)
        /\ archive[m].size \in Nat
    BY <1>1, <2>1, HeaderNext
  <2>5. Blocks(archive[m].size) = Padded(archive[m].size)
    BY <2>4, BlocksArePadded
  <2> QED
    BY <1>4, <2>1, <2>2, <2>3, <2>4, <2>5 DEF AtEnd
<1> QED
  BY <1>3, <1>4

-----------------------------------------------------------------------------
(* What is in the table of the initramfs *)

LEMMA StartOfStart ==
  ASSUME NEW T, NEW p \in Seq(T), NEW k \in 0..Len(p), NEW l \in 0..k
  PROVE  l \in 0..Len(p) /\ Start(Start(p, k), l) = Start(p, l)
<1>1. /\ Len(p) \in Nat /\ l \in 0..Len(p) /\ k \in Nat
      /\ \A i \in 1..l : i \in 1..k
  OBVIOUS
<1> PICK q : q = Start(p, k)
  OBVIOUS
<1>2. q \in Seq(T) /\ Len(q) = k /\ \A i \in 1..k : q[i] = p[i]
  BY StartIs
<1> PICK a, b : a = Start(q, l) /\ b = Start(p, l)
  OBVIOUS
<1>3. a \in Seq(T) /\ Len(a) = l /\ \A i \in 1..l : a[i] = q[i]
  BY <1>2, StartIs
<1>4. b \in Seq(T) /\ Len(b) = l /\ \A i \in 1..l : b[i] = p[i]
  BY <1>1, StartIs
<1>5. Len(a) = Len(b) /\ \A i \in 1..Len(a) : a[i] = b[i]
  BY <1>1, <1>2, <1>3, <1>4
<1>6. a = b
  BY ONLY <1>3, <1>4, <1>5, SeqEqual
<1> QED
  BY <1>1, <1>6

LEMMA StartAll == ASSUME NEW T, NEW p \in Seq(T) PROVE Start(p, Len(p)) = p
BY SubSeqFull DEF Start

\* A node is a file of the archive, or a directory that an entry is or lies in.
FromEntry(n) ==
  \E i \in Entries :
    \/ /\ n.dir
       /\ \E l \in 0..Len(PathOf(i)) :
            n.path = Start(PathOf(i), l) /\ (archive[i].type = "0" => l # Len(PathOf(i)))
    \/ /\ ~n.dir /\ archive[i].type = "0" /\ n.path = PathOf(i)
       /\ n.data = HeaderOf(i) + 1 /\ n.length = archive[i].size

Good(t, n) ==
  /\ Clean(n.path) /\ FromEntry(n)
  /\ \A l \in 1..(Len(n.path) - 1) : Has(t, Start(n.path, l))

Content(t) == \A k \in 1..Len(t) : Good(t, t[k])

\* Every entry so far has a node.
Reached(m) == \A i \in Entries : i < m => Has(ramfs_nodes, PathOf(i))

LEMMA EntryPath ==
  ASSUME archive \in Seq(TarEntry), NEW i \in DOMAIN archive
  PROVE  /\ Clean(PathOf(i)) /\ PathOf(i) \in Seq(Name) /\ Len(PathOf(i)) \in Nat
         /\ archive[i] \in TarEntry
<1>1. archive[i] \in TarEntry
  OBVIOUS
<1>2. archive[i].path \in Seq(Name)
  BY <1>1 DEF TarEntry, Name
<1>3. Clean(PathOf(i))
  BY <1>2, Sanitized DEF PathOf
<1> QED
  BY <1>1, <1>3 DEF Clean

\* Nodes stay good when the table grows at its end.
LEMMA StaysGood ==
  ASSUME NEW ns \in Table, NEW t \in Table, Len(ns) <= Len(t),
         \A j \in 1..Len(ns) : t[j] = ns[j], NEW n, Good(ns, n)
  PROVE  Good(t, n)
<1>1. \A j \in 1..Len(ns) : j \in 1..Len(t)
  BY DEF Table
<1>2. \A q : Has(ns, q) => Has(t, q)
  BY <1>1 DEF Has
<1> QED
  BY <1>2 DEF Good

\* The directories that an entry needs are good.
LEMMA ParentsGood ==
  ASSUME archive \in Archives, NEW ns \in Table, NEW t \in Table, Content(ns),
         NEW i \in Entries, Grown(ns, t, PathOf(i), Above(PathOf(i), archive[i].slash))
  PROVE  Content(t)
<1> PICK p, n : p = PathOf(i) /\ n = Above(PathOf(i), archive[i].slash)
  OBVIOUS
<1>1. archive \in Seq(TarEntry) /\ i \in DOMAIN archive
  BY VfsConstants DEF Entries
<1>2. Clean(p) /\ p \in Seq(Name) /\ Len(p) \in Nat /\ archive[i] \in TarEntry
  BY <1>1, EntryPath
<1>3. /\ n \in Nat /\ n <= Len(p)
      /\ archive[i].type = "0" => n = 0 \/ n = Len(p) - 1
  <2>1. n = Len(p) \/ (p # <<>> /\ n = Len(p) - 1)
    BY DEF Above
  <2>2. p # <<>> => Len(p) # 0
    BY <1>2
  <2>3. archive[i].type = "0" => ~archive[i].slash
    BY <1>1, VfsConstants DEF TarFile
  <2>4. p = <<>> => Len(p) = 0
    BY <1>2
  <2> QED
    BY <1>2, <2>1, <2>2, <2>3, <2>4 DEF Above
<1>4. ASSUME NEW j \in 1..Len(t) PROVE Good(t, t[j])
  <2>1. CASE j <= Len(ns)
    <3>1. j \in 1..Len(ns)
      BY <2>1 DEF Table
    <3>2. t[j] = ns[j] /\ Good(ns, ns[j])
      BY <3>1 DEF Grown, Content
    <3> QED
      BY <3>2, StaysGood DEF Grown
  <2>2. CASE ~(j <= Len(ns))
    <3>1. PICK l \in 1..n : /\ t[j] = Directory(Start(p, l))
                            /\ \A m \in 1..(l - 1) : Has(t, Start(p, m))
      BY <2>2 DEF Grown
    <3>2. /\ l \in 0..Len(p) /\ l \in Nat /\ l \in 1..Len(p)
          /\ archive[i].type = "0" => l # Len(p)
      BY ONLY <1>2, <1>3, l \in 1..n
    <3>3. t[j].path = Start(p, l) /\ t[j].dir /\ Clean(Start(p, l))
      BY <1>2, <3>1, <3>2, StartDirectory, StartClean
    <3>4. FromEntry(t[j])
      BY <3>2, <3>3 DEF FromEntry
    <3>5. Len(Start(p, l)) = l
      BY <1>2, <3>2, StartIs
    <3>6. ASSUME NEW m \in 1..(l - 1) PROVE Has(t, Start(Start(p, l), m))
      <4>1. m \in 0..l
        BY <3>2
      <4>2. Start(Start(p, l), m) = Start(p, m)
        BY <1>2, <3>2, <4>1, StartOfStart
      <4> QED
        BY <3>1, <4>2
    <3> QED
      BY <3>3, <3>4, <3>5, <3>6 DEF Good
  <2> QED
    BY <2>1, <2>2
<1> QED
  BY <1>4 DEF Content

\* So is the node of the entry itself.
LEMMA EntryGood ==
  ASSUME archive \in Archives, NEW ns \in Table, NEW t \in Table, Content(t),
         NEW i \in Entries, Grown(ns, t, PathOf(i), Above(PathOf(i), archive[i].slash)),
         HasRoom(t), NEW e \in Node, e.path = PathOf(i),
         \/ e.dir /\ archive[i].type = "5"
         \/ /\ ~e.dir /\ archive[i].type = "0"
            /\ e.data = HeaderOf(i) + 1 /\ e.length = archive[i].size
  PROVE  LET u == Append(t, e) IN
           /\ u \in Table /\ Content(u) /\ Has(u, PathOf(i))
           /\ \A q : Has(t, q) => Has(u, q)
<1> PICK p, u : p = PathOf(i) /\ u = Append(t, e)
  OBVIOUS
<1>1. archive \in Seq(TarEntry) /\ i \in DOMAIN archive
  BY VfsConstants DEF Entries
<1>2. Clean(p) /\ p \in Seq(Name) /\ Len(p) \in Nat
  BY <1>1, EntryPath
<1>3. t \in Seq(Node) /\ Len(t) \in Nat /\ Len(t) < MAX_RAMFS_NODES
  BY DEF Table, HasRoom
<1>4. /\ u \in Seq(Node) /\ Len(u) = Len(t) + 1 /\ u[Len(t) + 1] = e
      /\ \A j \in 1..Len(t) : u[j] = t[j]
  BY <1>3, Appended
<1>5. Len(t) <= Len(u) /\ Len(u) <= MAX_RAMFS_NODES /\ Len(t) + 1 \in 1..Len(u)
  <2>1. MAX_RAMFS_NODES \in Nat
    BY VfsConstants
  <2> QED
    BY ONLY <1>3, <1>4, <2>1
<1>6. u \in Table
  BY <1>4, <1>5 DEF Table
<1>7. ASSUME NEW q, Has(t, q) PROVE Has(u, q)
  <2>1. \A j \in 1..Len(t) : j \in 1..Len(u)
    BY ONLY <1>3, <1>4
  <2> QED
    BY <1>4, <1>7, <2>1 DEF Has
<1>8. Has(u, p)
  BY <1>4, <1>5 DEF Has
<1>9. Good(u, e)
  <2>1. FromEntry(e)
    <3>1. CASE e.dir /\ archive[i].type = "5"
      <4>1. Len(p) \in 0..Len(p) /\ e.path = Start(p, Len(p)) /\ archive[i].type # "0"
        BY <1>2, <3>1, StartAll
      <4> QED
        BY <3>1, <4>1 DEF FromEntry
    <3>2. CASE ~e.dir
      BY <3>2 DEF FromEntry
    <3> QED
      BY <3>1, <3>2
  <2>2. ASSUME NEW l \in 1..(Len(p) - 1) PROVE Has(u, Start(p, l))
    <3>1. l \in 1..Above(p, archive[i].slash)
      <4>1. Above(p, archive[i].slash) = Len(p) \/ Above(p, archive[i].slash) = Len(p) - 1
        BY DEF Above
      <4> QED
        BY ONLY <1>2, <4>1, l \in 1..(Len(p) - 1)
    <3>2. Has(t, Start(p, l))
      BY <1>3, <3>1 DEF Grown
    <3> QED
      BY <1>7, <3>2
  <2> QED
    BY <1>2, <2>1, <2>2 DEF Good
<1>10. ASSUME NEW j \in 1..Len(u) PROVE Good(u, u[j])
  <2>1. CASE j \in 1..Len(t)
    <3>1. u[j] = t[j] /\ Good(t, t[j])
      BY <1>4, <2>1 DEF Content
    <3> QED
      BY <1>4, <1>5, <1>6, <3>1, StaysGood
  <2>2. CASE j = Len(t) + 1
    BY <1>4, <1>9, <2>2
  <2>3. j \in 1..Len(t) \/ j = Len(t) + 1
    BY ONLY <1>3, <1>4, j \in 1..Len(u)
  <2> QED
    BY <2>1, <2>2, <2>3
<1> QED
  BY <1>6, <1>7, <1>8, <1>10 DEF Content

-----------------------------------------------------------------------------
(* The inductive invariant *)

\* While init_initramfs runs it is at the header of some entry, and every
\* entry before that one has its node; it stops short only at a full table.
Walk ==
  /\ pc = "tar" => \E m \in 1..(Len(archive) + 1) : header = HeaderOf(m) /\ Reached(m)
  /\ pc # "tar" => Len(ramfs_nodes) >= MAX_RAMFS_NODES \/ Reached(Len(archive) + 1)

IInv == Types /\ Phase /\ Content(ramfs_nodes) /\ Walk

LEMMA SameHeaders ==
  ASSUME archive' = archive
  PROVE  \A i : HeaderOf(i)' = HeaderOf(i)
BY DEF HeaderOf, FoldLeft, MapThenFoldSet

LEMMA SameGood ==
  ASSUME archive' = archive, NEW t, NEW n, Good(t, n)
  PROVE  Good(t, n)'
<1>1. FromEntry(n)'
  <2>1. PICK i \in Entries :
          \/ /\ n.dir
             /\ \E l \in 0..Len(PathOf(i)) :
                  n.path = Start(PathOf(i), l) /\ (archive[i].type = "0" => l # Len(PathOf(i)))
          \/ /\ ~n.dir /\ archive[i].type = "0" /\ n.path = PathOf(i)
             /\ n.data = HeaderOf(i) + 1 /\ n.length = archive[i].size
    BY DEF Good, FromEntry
  <2>2. PathOf(i)' = PathOf(i) /\ HeaderOf(i)' = HeaderOf(i) /\ Entries' = Entries
    BY SameHeaders DEF PathOf, Entries
  <2> QED
    BY <2>1, <2>2 DEF FromEntry
<1> QED
  BY <1>1 DEF Good

LEMMA NextContent ==
  ASSUME archive' = archive, Content(ramfs_nodes') PROVE Content(ramfs_nodes)'
<1> PICK t : t = ramfs_nodes'
  OBVIOUS
<1>1. \A k \in 1..Len(t) : Good(t, t[k])
  BY DEF Content
<1>2. \A k \in 1..Len(t) : Good(t, t[k])'
  BY <1>1, SameGood
<1> QED
  BY <1>2 DEF Content, Good, FromEntry

LEMMA SameContent ==
  ASSUME archive' = archive, NEW t, Content(t)
  PROVE  Content(t)'
BY SameGood DEF Content

LEMMA SameReached ==
  ASSUME archive' = archive, ramfs_nodes' = ramfs_nodes
  PROVE  /\ \A m : Reached(m)' <=> Reached(m)
         /\ Dev' = Dev
BY DEF Reached, Has, Entries, PathOf, Dev

LEMMA Starts == ASSUME DescriptorsInit PROVE IInv
<1>1. /\ archive \in Archives /\ pc = "tar" /\ header = 1 /\ ramfs_nodes = <<>>
      /\ devices = <<>> /\ DOMAIN mounted = {}
      /\ fd_table = [i \in 0..(MAX_OPEN_FILES - 1) |-> NULL] /\ fs_root = NULL
  BY DEF DescriptorsInit, Init
<1>2. archive \in Seq(TarEntry) /\ Len(archive) \in Nat /\ DOMAIN archive = 1..Len(archive)
  <2>1. archive \in Seq(TarEntry)
    BY <1>1, VfsConstants
  <2> QED
    BY <2>1
<1>3. Types
  <2>1. MAX_RAMFS_NODES \in Nat /\ MAX_DEVFS_DEVICES \in Nat
    BY VfsConstants
  <2>2. fd_table \in [0..(MAX_OPEN_FILES - 1) -> Lookups]
    BY <1>1 DEF Lookups
  <2> QED
    BY <1>1, <2>1, <2>2 DEF Types
<1>4. Phase
  BY <1>1 DEF Phase
<1>5. Content(ramfs_nodes)
  <2>1. 1..Len(ramfs_nodes) = {}
    BY <1>1
  <2> QED
    BY <2>1 DEF Content
<1>6. 1 \in 1..(Len(archive) + 1) /\ header = HeaderOf(1)
  BY <1>1, <1>2, HeaderFirst
<1>7. Reached(1)
  BY <1>2 DEF Reached, Entries
<1> QED
  BY <1>1, <1>3, <1>4, <1>5, <1>6, <1>7 DEF IInv, Walk

\* What the tar walk has at hand at the header of an entry.
LEMMA AtEntry ==
  ASSUME IInv, pc = "tar", ~AtEnd, AtHeader.type # "x"
  PROVE  \E i \in Entries :
           /\ AtHeader = archive[i] /\ header = HeaderOf(i) /\ Reached(i)
           /\ i + 1 \in 1..(Len(archive) + 1) /\ i \in 1..Len(archive)
           /\ header + 1 + Blocks(AtHeader.size) = HeaderOf(i + 1)
           /\ sanitize_path(AtHeader.path) = PathOf(i)
           /\ LET t == ensure_parent_dirs_exist(ramfs_nodes, PathOf(i), AtHeader.slash) IN
                /\ t \in Table /\ Content(t)
                /\ Grown(ramfs_nodes, t, PathOf(i), Above(PathOf(i), archive[i].slash))
<1>1. Types /\ Content(ramfs_nodes) /\ Walk
  BY DEF IInv
<1>2. archive \in Archives /\ ramfs_nodes \in Table
  BY <1>1 DEF Types, Table
<1>3. archive \in Seq(TarEntry) /\ DOMAIN archive = 1..Len(archive)
  <2>1. archive \in Seq(TarEntry)
    BY <1>2, VfsConstants
  <2> QED
    BY <2>1
<1>4. PICK i \in 1..(Len(archive) + 1) : header = HeaderOf(i) /\ Reached(i)
  BY <1>1 DEF Walk
<1>5. /\ i \in DOMAIN archive /\ AtHeader = archive[i]
      /\ header + 1 + Blocks(AtHeader.size) = HeaderOf(i + 1)
      /\ i + 1 \in 1..(Len(archive) + 1)
  BY <1>3, <1>4, AtHeaderIs
<1>6. i \in Entries /\ sanitize_path(AtHeader.path) = PathOf(i)
  BY <1>5 DEF Entries, PathOf
<1>7. Clean(PathOf(i)) /\ archive[i].slash \in BOOLEAN
  <2>1. Clean(PathOf(i)) /\ archive[i] \in TarEntry
    BY <1>3, <1>5, EntryPath
  <2> QED
    BY <2>1 DEF TarEntry
<1> PICK t : t = ensure_parent_dirs_exist(ramfs_nodes, PathOf(i), archive[i].slash)
  OBVIOUS
<1>8. t \in Table /\ Grown(ramfs_nodes, t, PathOf(i), Above(PathOf(i), archive[i].slash))
  BY <1>2, <1>7, Ensured
<1>9. Content(t)
  BY <1>1, <1>2, <1>6, <1>8, ParentsGood
<1> QED
  BY <1>3, <1>4, <1>5, <1>6, <1>8, <1>9

\* The parts of the invariant that a step of the tar walk leaves alone.
LEMMA TarFrame ==
  ASSUME IInv, pc = "tar", pc' \in {"tar", "root"}, ramfs_nodes' \in Table, header' \in Nat,
         UNCHANGED <<archive, devices, mounted, fd_table, fs_root>>
  PROVE  Types' /\ Phase'
<1>1. Types /\ Phase
  BY DEF IInv
<1>2. Types'
  BY <1>1 DEF Types, Table
<1> QED
  BY <1>1, <1>2 DEF Phase

LEMMA MoreReached ==
  ASSUME archive' = archive, NEW m, Reached(m),
         \A q : Has(ramfs_nodes, q) => Has(ramfs_nodes', q)
  PROVE  Reached(m)'
<1>1. Entries' = Entries /\ \A i : PathOf(i)' = PathOf(i)
  BY DEF Entries, PathOf
<1>2. ASSUME NEW i \in Entries, i < m PROVE Has(ramfs_nodes', PathOf(i))
  BY <1>2 DEF Reached
<1> QED
  BY <1>1, <1>2 DEF Reached

LEMMA SkipExtendedKeeps == ASSUME IInv, SkipExtended PROVE IInv'
<1>1. /\ pc = "tar" /\ ~AtEnd /\ AtHeader.type = "x" /\ pc' = pc
      /\ header' = header + 1 + Blocks(AtHeader.size)
      /\ UNCHANGED <<archive, ramfs_nodes, devices, mounted, fd_table, fs_root>>
  BY DEF SkipExtended, NextHeader
<1>2. Types /\ Content(ramfs_nodes) /\ Walk
  BY DEF IInv
<1>3. archive \in Seq(TarEntry) /\ ramfs_nodes \in Table
  BY <1>2, VfsConstants DEF Types, Table
<1>4. PICK i \in 1..(Len(archive) + 1) : header = HeaderOf(i) /\ Reached(i)
  BY <1>1, <1>2 DEF Walk
<1>5. /\ i \in DOMAIN archive /\ AtHeader = archive[i] /\ header' = HeaderOf(i + 1)
      /\ i + 1 \in 1..(Len(archive) + 1)
  BY <1>1, <1>3, <1>4, AtHeaderIs
<1>6. header' \in Nat
  BY <1>3, <1>5, HeaderNext
<1>7. Types' /\ Phase'
  BY <1>1, <1>3, <1>6, TarFrame
<1>8. Content(ramfs_nodes)'
  BY <1>1, <1>2, SameContent
<1>9. Reached(i + 1)
  <2>1. ASSUME NEW j \in Entries, j < i + 1 PROVE j < i
    <3>1. j \in Nat /\ j # i /\ i \in Nat
      BY <1>1, <1>3, <1>5 DEF Entries
    <3> QED
      BY <2>1, <3>1
  <2> QED
    BY <1>4, <2>1 DEF Reached
<1>10. Reached(i + 1)'
  BY <1>1, <1>9, MoreReached
<1>11. HeaderOf(i + 1)' = HeaderOf(i + 1)
  BY <1>1, SameHeaders
<1> QED
  BY <1>1, <1>5, <1>7, <1>8, <1>10, <1>11 DEF IInv, Walk

LEMMA EndOfArchiveKeeps == ASSUME IInv, EndOfArchive PROVE IInv'
<1>1. /\ pc = "tar" /\ AtEnd /\ pc' = "root"
      /\ UNCHANGED <<archive, header, ramfs_nodes, devices, mounted, fd_table, fs_root>>
  BY DEF EndOfArchive
<1>2. Types /\ Content(ramfs_nodes) /\ Walk
  BY DEF IInv
<1>3. archive \in Seq(TarEntry) /\ ramfs_nodes \in Table /\ header \in Nat
  BY <1>2, VfsConstants DEF Types, Table
<1>4. PICK i \in 1..(Len(archive) + 1) : header = HeaderOf(i) /\ Reached(i)
  BY <1>1, <1>2 DEF Walk
<1>5. i = Len(archive) + 1
  BY <1>1, <1>3, <1>4, AtHeaderIs
<1>6. Types' /\ Phase'
  BY <1>1, <1>3, TarFrame
<1>7. Content(ramfs_nodes)'
  BY <1>1, <1>2, SameContent
<1>8. Reached(Len(archive) + 1)'
  BY <1>1, <1>4, <1>5, MoreReached
<1> QED
  BY <1>1, <1>6, <1>7, <1>8 DEF IInv, Walk

LEMMA TableFullKeeps == ASSUME IInv, TableFull PROVE IInv'
<1>1. /\ pc = "tar" /\ ~AtEnd /\ AtHeader.type # "x" /\ pc' = "root"
      /\ LET t == ensure_parent_dirs_exist(ramfs_nodes, sanitize_path(AtHeader.path),
                                           AtHeader.slash)
         IN  Len(t) >= MAX_RAMFS_NODES /\ ramfs_nodes' = t
      /\ UNCHANGED <<archive, header, devices, mounted, fd_table, fs_root>>
  BY DEF TableFull
<1>2. ramfs_nodes' \in Table /\ Content(ramfs_nodes') /\ Len(ramfs_nodes') >= MAX_RAMFS_NODES
  BY <1>1, AtEntry
<1>3. header' \in Nat
  BY <1>1 DEF IInv, Types
<1>4. Types' /\ Phase'
  BY <1>1, <1>2, <1>3, TarFrame
<1>5. Content(ramfs_nodes)'
  BY <1>1, <1>2, NextContent
<1> QED
  BY <1>1, <1>2, <1>4, <1>5 DEF IInv, Walk

LEMMA AddEntryKeeps == ASSUME IInv, AddEntry PROVE IInv'
<1>1. /\ pc = "tar" /\ ~AtEnd /\ AtHeader.type # "x" /\ pc' = pc
      /\ header' = header + 1 + Blocks(AtHeader.size)
      /\ LET p == sanitize_path(AtHeader.path)
             t == ensure_parent_dirs_exist(ramfs_nodes, p, AtHeader.slash)
         IN  /\ HasRoom(t)
             /\ ramfs_nodes' = Append(t, IF AtHeader.type = "5" THEN Directory(p)
                                         ELSE [path |-> p, dir |-> FALSE,
                                               data |-> header + 1, length |-> AtHeader.size])
      /\ UNCHANGED <<archive, devices, mounted, fd_table, fs_root>>
  BY DEF AddEntry, NextHeader
<1>2. Types
  BY DEF IInv
<1>3. archive \in Archives /\ archive \in Seq(TarEntry) /\ ramfs_nodes \in Table /\ header \in Nat
  BY <1>2, VfsConstants DEF Types, Table
<1>4. PICK i \in Entries :
        /\ AtHeader = archive[i] /\ header = HeaderOf(i) /\ Reached(i)
        /\ i + 1 \in 1..(Len(archive) + 1) /\ i \in 1..Len(archive)
        /\ header + 1 + Blocks(AtHeader.size) = HeaderOf(i + 1)
        /\ sanitize_path(AtHeader.path) = PathOf(i)
        /\ LET t == ensure_parent_dirs_exist(ramfs_nodes, PathOf(i), AtHeader.slash) IN
             /\ t \in Table /\ Content(t)
             /\ Grown(ramfs_nodes, t, PathOf(i), Above(PathOf(i), archive[i].slash))
  BY <1>1, AtEntry
<1> PICK p, t : /\ p = PathOf(i)
                /\ t = ensure_parent_dirs_exist(ramfs_nodes, p, AtHeader.slash)
  OBVIOUS
<1> PICK e : e = IF AtHeader.type = "5" THEN Directory(p)
                 ELSE [path |-> p, dir |-> FALSE, data |-> header + 1, length |-> AtHeader.size]
  OBVIOUS
<1>5. /\ HasRoom(t) /\ t \in Table /\ Content(t)
      /\ Grown(ramfs_nodes, t, p, Above(p, archive[i].slash))
      /\ ramfs_nodes' = Append(t, e)
  BY <1>1, <1>4
<1>6. p \in Seq(Name) /\ archive[i] \in TarEntry /\ archive[i].type # "x"
  BY <1>3, <1>4, EntryPath DEF Entries
<1>7. archive[i].type \in {"0", "5"} /\ archive[i].size \in Nat
  BY <1>6 DEF TarEntry
<1>8. /\ e \in Node /\ e.path = p
      /\ \/ e.dir /\ archive[i].type = "5"
         \/ /\ ~e.dir /\ archive[i].type = "0"
            /\ e.data = HeaderOf(i) + 1 /\ e.length = archive[i].size
  <2>1. CASE archive[i].type = "5"
    BY <1>4, <1>6, <2>1 DEF Directory, Node
  <2>2. CASE archive[i].type = "0"
    BY <1>3, <1>4, <1>6, <1>7, <2>2 DEF Node
  <2> QED
    BY <1>7, <2>1, <2>2
<1> PICK u : u = Append(t, e)
  OBVIOUS
<1>9. /\ u \in Table /\ Content(u) /\ Has(u, p)
      /\ \A q : Has(t, q) => Has(u, q)
  BY <1>3, <1>5, <1>8, EntryGood
<1>10. ramfs_nodes' = u
  BY <1>5
<1>11. header' = HeaderOf(i + 1) /\ header' \in Nat
  BY <1>1, <1>3, <1>4, HeaderNext
<1>12. Types' /\ Phase'
  BY <1>1, <1>9, <1>10, <1>11, TarFrame DEF IInv
<1>13. Content(ramfs_nodes)'
  BY <1>1, <1>9, <1>10, NextContent
<1>14. Reached(i + 1)'
  <2>1. \A q : Has(ramfs_nodes, q) => Has(u, q)
    <3>1. \A j \in 1..Len(ramfs_nodes) : j \in 1..Len(t)
      BY <1>3, <1>5 DEF Table, Grown
    <3>2. \A q : Has(ramfs_nodes, q) => Has(t, q)
      BY <1>5, <3>1 DEF Grown, Has
    <3> QED
      BY <1>9, <3>2
  <2>2. ASSUME NEW j \in Entries, j < i + 1 PROVE Has(u, PathOf(j))
    <3>1. j < i \/ j = i
      <4>1. j \in Nat /\ i \in Nat
        BY <1>3, <1>4 DEF Entries
      <4> QED
        BY <2>2, <4>1
    <3> QED
      BY <1>4, <1>9, <2>1, <3>1 DEF Reached
  <2>3. Entries' = Entries /\ \A j : PathOf(j)' = PathOf(j)
    BY <1>1 DEF Entries, PathOf
  <2> QED
    BY <1>10, <2>2, <2>3 DEF Reached
<1>15. HeaderOf(i + 1)' = HeaderOf(i + 1)
  BY <1>1, SameHeaders
<1> QED
  BY <1>1, <1>4, <1>11, <1>12, <1>13, <1>14, <1>15 DEF IInv, Walk

\* After the tar walk the initramfs is as it is.
LEMMA LaterFrame ==
  ASSUME IInv, pc # "tar", pc' # "tar", UNCHANGED <<archive, ramfs_nodes, header>>,
         Types', Phase'
  PROVE  IInv'
<1>1. Content(ramfs_nodes) /\ (Len(ramfs_nodes) >= MAX_RAMFS_NODES \/ Reached(Len(archive) + 1))
  BY DEF IInv, Walk
<1>2. Content(ramfs_nodes)'
  BY <1>1, SameContent
<1>3. Reached(Len(archive) + 1) => Reached(Len(archive) + 1)'
  BY MoreReached
<1> QED
  BY <1>1, <1>2, <1>3 DEF IInv, Walk

LEMMA SetRootKeeps == ASSUME IInv, SetRoot PROVE IInv'
<1>1. /\ pc = "root" /\ fs_root' = RAMFS /\ pc' = "devfs"
      /\ UNCHANGED <<archive, header, ramfs_nodes, devices, mounted, fd_table>>
  BY DEF SetRoot
<1>2. Types /\ Phase
  BY DEF IInv
<1>3. Types'
  BY <1>1, <1>2 DEF Types
<1>4. Phase'
  BY <1>1, <1>2 DEF Phase
<1> QED
  BY <1>1, <1>3, <1>4, LaterFrame

LEMMA devfs_registerKeeps == ASSUME IInv, devfs_register PROVE IInv'
<1>1. /\ pc = "devfs" /\ pc' = "mount"
      /\ devices' = IF Len(devices) >= MAX_DEVFS_DEVICES THEN devices
                    ELSE Append(devices, "fb0")
      /\ UNCHANGED <<archive, header, ramfs_nodes, mounted, fd_table, fs_root>>
  BY DEF devfs_register
<1>2. Types /\ Phase
  BY DEF IInv
<1>3. devices = <<>> /\ MAX_DEVFS_DEVICES \in Nat \ {0}
  BY <1>1, <1>2, VfsConstants DEF Phase
<1>4. devices' = <<"fb0">>
  BY <1>1, <1>3
<1>5. Types'
  <2>1. devices' \in Seq({"fb0"}) /\ Len(devices') <= MAX_DEVFS_DEVICES
    BY <1>3, <1>4
  <2> QED
    BY <1>1, <1>2, <2>1 DEF Types
<1>6. Phase'
  <2>1. devices' # <<>> /\ Dev' = Dev
    BY <1>1, <1>4 DEF Dev
  <2> QED
    BY <1>1, <1>2, <2>1 DEF Phase
<1> QED
  BY <1>1, <1>5, <1>6, LaterFrame

LEMMA vfs_mountKeeps == ASSUME IInv, vfs_mount PROVE IInv'
<1> PICK n : n = vfs_get_node_by_path(<<"dev">>)
  OBVIOUS
<1>1. /\ pc = "mount" /\ n # NULL /\ pc' = "fds"
      /\ mounted' = [m \in DOMAIN mounted \cup {n} |-> DEVFS]
      /\ UNCHANGED <<archive, header, ramfs_nodes, devices, fd_table, fs_root>>
  BY DEF vfs_mount
<1>2. Types /\ Phase
  BY DEF IInv
<1>3. fs_root = RAMFS /\ DOMAIN mounted = {}
  BY <1>1, <1>2 DEF Phase
<1>4. Dev # 0 /\ n = Ram(Dev) /\ n \in Nodes
  BY <1>1, <1>2, <1>3, DevLookup, DevIs
<1>5. DOMAIN mounted' = {n} /\ mounted'[n] = DEVFS
  BY <1>1, <1>3
<1>6. Types'
  BY <1>1, <1>2, <1>4, <1>5 DEF Types
<1>7. Dev' = Dev
  BY <1>1 DEF Dev
<1>8. Phase'
  BY <1>1, <1>2, <1>4, <1>5, <1>7 DEF Phase
<1> QED
  BY <1>1, <1>6, <1>8, LaterFrame

LEMMA NoDevKeeps == ASSUME IInv, NoDev PROVE IInv'
<1>1. /\ pc = "mount" /\ vfs_get_node_by_path(<<"dev">>) = NULL /\ pc' = "up"
      /\ UNCHANGED <<archive, header, ramfs_nodes, devices, mounted, fd_table, fs_root>>
  BY DEF NoDev
<1>2. Types /\ Phase
  BY DEF IInv
<1>3. fs_root = RAMFS /\ DOMAIN mounted = {}
  BY <1>1, <1>2 DEF Phase
<1>4. Dev = 0
  BY <1>1, <1>2, <1>3, DevLookup, DevIs, Different
<1>5. Types'
  BY <1>1, <1>2 DEF Types
<1>6. Dev' = Dev
  BY <1>1 DEF Dev
<1>7. Phase'
  BY <1>1, <1>2, <1>4, <1>6 DEF Phase
<1> QED
  BY <1>1, <1>5, <1>7, LaterFrame

LEMMA init_fdsKeeps == ASSUME IInv, init_fds PROVE IInv'
<1> PICK n : n = vfs_get_node_by_path(<<"dev", "fb0">>)
  OBVIOUS
<1>1. /\ pc = "fds" /\ pc' = "up"
      /\ fd_table' = [i \in DOMAIN fd_table |-> IF i \in {1, 2} THEN n ELSE NULL]
      /\ UNCHANGED <<archive, header, ramfs_nodes, devices, mounted, fs_root>>
  BY DEF init_fds, Standard
<1>2. Types /\ Phase
  BY DEF IInv
<1>3. Dev # 0
  BY <1>1, <1>2 DEF Phase
<1>4. n = Device("fb0")
  <2> PICK p : p = <<"dev", "fb0">>
    OBVIOUS
  <2>1. p \in Seq({"dev", "fb0"}) /\ p # <<>> /\ p[1] = "dev" /\ Len(p) = 2 /\ p[2] = "fb0"
    OBVIOUS
  <2> QED
    BY <1>1, <1>2, <1>3, <2>1, BelowDev
<1>5. Types'
  <2>1. Device("fb0") \in Lookups /\ NULL \in Lookups
    BY IsNode DEF Lookups
  <2> QED
    BY <1>1, <1>2, <1>4, <2>1 DEF Types
<1>6. Dev' = Dev
  BY <1>1 DEF Dev
<1>7. Phase'
  BY <1>1, <1>2, <1>3, <1>4, <1>6 DEF Phase
<1> QED
  BY <1>1, <1>5, <1>7, LaterFrame

\* Once the boot is over, only fd_table changes.
LEMMA UserFrame ==
  ASSUME IInv, pc \in {"up", "user", "exited"}, pc' \in {"user", "exited"},
         UNCHANGED <<archive, header, ramfs_nodes, devices, mounted, fs_root>>,
         fd_table' \in [0..(MAX_OPEN_FILES - 1) -> Lookups]
  PROVE  IInv'
<1>1. Types /\ Phase
  BY DEF IInv
<1>2. Types'
  BY <1>1 DEF Types
<1>3. Dev' = Dev
  BY DEF Dev
<1>4. Phase'
  BY <1>1, <1>3 DEF Phase
<1> QED
  BY <1>2, <1>4, LaterFrame

LEMMA Stutters == ASSUME IInv, UNCHANGED <<vars, last>> PROVE IInv'
<1>1. UNCHANGED <<archive, pc, header, ramfs_nodes, devices, mounted, fd_table, fs_root>>
  BY DEF vars
<1>2. Types /\ Phase /\ Content(ramfs_nodes) /\ Walk
  BY DEF IInv
<1>3. Types'
  BY <1>1, <1>2 DEF Types
<1>4. Dev' = Dev
  BY <1>1 DEF Dev
<1>5. Phase'
  BY <1>1, <1>2, <1>4 DEF Phase
<1>6. Content(ramfs_nodes)'
  BY <1>1, <1>2, SameContent
<1>7. \A m : Reached(m) => Reached(m)'
  BY <1>1, MoreReached
<1>8. \A m : HeaderOf(m)' = HeaderOf(m)
  BY <1>1, SameHeaders
<1>9. CASE pc = "tar"
  <2>1. PICK m \in 1..(Len(archive) + 1) : header = HeaderOf(m) /\ Reached(m)
    BY <1>2, <1>9 DEF Walk
  <2>2. m \in 1..(Len(archive') + 1) /\ header' = HeaderOf(m)' /\ Reached(m)'
    BY <1>1, <1>7, <1>8, <2>1
  <2> QED
    BY <1>1, <1>3, <1>5, <1>6, <1>9, <2>2 DEF IInv, Walk
<1>10. CASE pc # "tar"
  BY <1>1, <1>3, <1>5, <1>10, LaterFrame
<1> QED
  BY <1>9, <1>10

LEMMA fd_allocKeeps == ASSUME IInv, fd_alloc PROVE IInv'
<1>1. PICK p \in OpenedPaths :
        LET node == vfs_get_node_by_path(p) IN
          IF Free = {}
          THEN Call("open", -1, -1) /\ UNCHANGED <<pc, fd_table>>
          ELSE LET i == Min(Free) IN
                 /\ IF node = NULL THEN Call("other", 0, i) ELSE Call("open", i, i)
                 /\ fd_table' = [fd_table EXCEPT ![i] = node]
                 /\ UNCHANGED pc
  BY DEF fd_alloc
<1>2. Types
  BY DEF IInv
<1>3. p \in Seq(Name)
  BY DescriptorsConstants DEF Name
<1> PICK node : node = vfs_get_node_by_path(p)
  OBVIOUS
<1>4. node \in Lookups
  BY <1>2, <1>3, Looked
<1>5. /\ pc = "user" /\ pc' = pc
      /\ UNCHANGED <<archive, header, ramfs_nodes, devices, mounted, fs_root>>
      /\ fd_table' = fd_table \/ fd_table' = [fd_table EXCEPT ![Min(Free)] = node]
  BY <1>1 DEF Call
<1>6. fd_table' \in [0..(MAX_OPEN_FILES - 1) -> Lookups]
  BY <1>2, <1>4, <1>5 DEF Types
<1> QED
  BY <1>5, <1>6, UserFrame

LEMMA fd_closeKeeps == ASSUME IInv, fd_close PROVE IInv'
<1>1. PICK fd \in Fds :
        /\ pc = "user" /\ pc' = pc
        /\ UNCHANGED <<archive, header, ramfs_nodes, devices, mounted, fs_root>>
        /\ fd_table' = [i \in DOMAIN fd_table |-> IF i = fd THEN NULL ELSE fd_table[i]]
  BY DEF fd_close, Call
<1>2. fd_table' \in [0..(MAX_OPEN_FILES - 1) -> Lookups]
  BY <1>1 DEF IInv, Types, Lookups
<1> QED
  BY <1>1, <1>2, UserFrame

LEMMA Keeps == ASSUME IInv, [DescriptorsNext]_<<vars, last>> PROVE IInv'
<1>1. fd_table \in [0..(MAX_OPEN_FILES - 1) -> Lookups]
  BY DEF IInv, Types
<1>2. CASE Boot
  BY <1>2, SkipExtendedKeeps, TableFullKeeps, AddEntryKeeps, EndOfArchiveKeeps, SetRootKeeps,
     devfs_registerKeeps, vfs_mountKeeps, NoDevKeeps, init_fdsKeeps DEF Boot, VfsNext
<1>3. CASE BootDone
  BY <1>1, <1>3, UserFrame DEF BootDone
<1>4. CASE fd_alloc
  BY <1>4, fd_allocKeeps
<1>5. CASE fd_close
  BY <1>5, fd_closeKeeps
<1>6. CASE sys_write
  BY <1>1, <1>6, UserFrame DEF sys_write, Call
<1>7. CASE sys_read \/ UnknownCall
  BY <1>1, <1>7, UserFrame DEF sys_read, UnknownCall, Call
<1>8. CASE sys_exit
  BY <1>1, <1>8, UserFrame DEF sys_exit
<1>9. CASE Exited \/ UNCHANGED <<vars, last>>
  BY <1>9, Stutters DEF Exited
<1> QED
  BY <1>2, <1>3, <1>4, <1>5, <1>6, <1>7, <1>8, <1>9 DEF DescriptorsNext

LEMMA Invariance == DescriptorsSpec => []IInv
<1>1. DescriptorsInit => IInv
  BY Starts
<1>2. IInv /\ [DescriptorsNext]_<<vars, last>> => IInv'
  BY Keeps
<1> QED
  BY <1>1, <1>2, PTL DEF DescriptorsSpec

-----------------------------------------------------------------------------
(* What is found under a path *)

LEMMA StartNext ==
  ASSUME NEW T, NEW p \in Seq(T), NEW l \in 0..(Len(p) - 1)
  PROVE  /\ l \in 0..Len(p) /\ l + 1 \in 1..Len(p) /\ p[l + 1] \in T
         /\ Append(Start(p, l), p[l + 1]) = Start(p, l + 1)
<1>1. /\ Len(p) \in Nat /\ l \in 0..Len(p) /\ l + 1 \in 1..Len(p) /\ l + 1 \in 0..Len(p)
      /\ p[l + 1] \in T
  OBVIOUS
<1> PICK a, b : a = Append(Start(p, l), p[l + 1]) /\ b = Start(p, l + 1)
  OBVIOUS
<1>2. /\ Start(p, l) \in Seq(T) /\ Len(Start(p, l)) = l
      /\ \A i \in 1..l : Start(p, l)[i] = p[i]
  BY <1>1, StartIs
<1>3. /\ a \in Seq(T) /\ Len(a) = l + 1 /\ \A i \in 1..l : a[i] = p[i]
      /\ a[l + 1] = p[l + 1]
  BY <1>1, <1>2, Appended
<1>4. b \in Seq(T) /\ Len(b) = l + 1 /\ \A i \in 1..(l + 1) : b[i] = p[i]
  BY <1>1, StartIs
<1>5. \A i \in 1..(l + 1) : a[i] = b[i]
  <2>1. \A i \in 1..(l + 1) : i \in 1..l \/ i = l + 1
    OBVIOUS
  <2> QED
    BY <1>3, <1>4, <2>1
<1>6. a = b
  BY ONLY <1>3, <1>4, <1>5, SeqEqual
<1> QED
  BY <1>1, <1>6

LEMMA RamNode == \A j \in 0..MAX_RAMFS_NODES : Ram(j) \in Nodes
<1>1. \A j \in 0..MAX_RAMFS_NODES : j = 0 \/ j \in 1..MAX_RAMFS_NODES
  OBVIOUS
<1> QED
  BY <1>1, IsNode, Different

\* A path leads to the node of that path only.
LEMMA OwnPath ==
  ASSUME Types, Phase, fs_root = RAMFS, NEW p \in Seq(Name), NEW k \in DOMAIN ramfs_nodes,
         vfs_get_node_by_path(p) = Ram(k)
  PROVE  ramfs_nodes[k].path = sanitize_path(p)
<1> DEFINE PathAt(j) == IF j = 0 THEN <<>> ELSE ramfs_nodes[j].path
<1> PICK n : n = Len(p)
  OBVIOUS
<1>1. n \in Nat /\ DOMAIN p = 1..n /\ Len(ramfs_nodes) \in Nat
  BY DEF Types
<1>2. PICK w \in [0..n -> Lookups] :
        /\ w[0] = fs_root
        /\ \A l \in 1..n : w[l] = WalkOne(w[l - 1], p[l])
        /\ vfs_get_node_by_path(p) = IF w[n] = NULL THEN NULL ELSE ThroughMount(w[n])
  BY <1>1, Walked
<1> DEFINE G == {l \in 0..n : \A j \in 0..MAX_RAMFS_NODES :
                   w[l] = Ram(j) => PathAt(j) = sanitize_path(Start(p, l))}
<1>3. 0 \in G
  <2>1. \A j : w[0] = Ram(j) => j = 0
    BY <1>2, Different
  <2>2. 0 \in 0..n /\ Start(p, 0) \in Seq(Name) /\ Len(Start(p, 0)) = 0
    BY <1>1, StartIs
  <2>3. Start(p, 0) = <<>>
    BY <2>2
  <2>4. sanitize_path(<<>>) = <<>>
    BY CleanStays DEF Clean
  <2> QED
    BY <2>1, <2>2, <2>3, <2>4
<1>4. ASSUME NEW l \in 0..n, l \in G, l < n PROVE l + 1 \in G
  <2>1. l \in 0..(n - 1) /\ l + 1 \in 0..n /\ l + 1 \in 1..n /\ (l + 1) - 1 = l
    BY ONLY <1>1, <1>4, l \in 0..n
  <2>2. p[l + 1] \in Name /\ Append(Start(p, l), p[l + 1]) = Start(p, l + 1)
    BY <2>1, StartNext
  <2>3. ASSUME NEW j \in 0..MAX_RAMFS_NODES, w[l + 1] = Ram(j)
        PROVE  PathAt(j) = sanitize_path(Start(p, l + 1))
    <3>1. w[l + 1] = WalkOne(w[l], p[l + 1]) /\ w[l] \in Lookups
      BY <1>2, <2>1
    <3>2. Ram(j) # Device("fb0") /\ Ram(j) # NULL
      BY RamNode, Different
    <3>3. PICK m \in 0..MAX_RAMFS_NODES : /\ w[l] = Ram(m)
                                          /\ WalkOne(w[l], p[l + 1]) = ramfs_finddir(m, p[l + 1])
      BY <2>3, <3>1, <3>2, WalkOneIs
    <3>4. PICK i \in 1..Len(ramfs_nodes) : WalkOne(w[l], p[l + 1]) = Ram(i)
      BY <2>3, <3>1, <3>2, WalkOneIs
    <3>5. i = j /\ j # 0
      <4>1. Ram(i) = Ram(j)
        BY <2>3, <3>1, <3>4
      <4>2. i = j
        BY <4>1, Different
      <4>3. i # 0
        BY ONLY <1>1, i \in 1..Len(ramfs_nodes)
      <4> QED
        BY <4>2, <4>3
    <3> PICK q : q = Append(PathAt(m), p[l + 1])
      OBVIOUS
    <3>6. ramfs_finddir(m, p[l + 1]) = IF Match(ramfs_nodes, q) = 0 THEN NULL ELSE Ram(Match(ramfs_nodes, q))
      BY RamFound
    <3>7. Match(ramfs_nodes, q) # 0 /\ Match(ramfs_nodes, q) = j
      BY <2>3, <3>1, <3>2, <3>3, <3>6, Different
    <3>8. ramfs_nodes[j].path = sanitize_path(q)
      BY <1>1, <3>7, Matched
    <3>9. PathAt(m) = sanitize_path(Start(p, l))
      BY <1>4, <3>3
    <3>10. sanitize_path(q) = sanitize_path(Append(Start(p, l), p[l + 1]))
      <4>1. Start(p, l) \in Seq(Name)
        BY <2>1, StartIs
      <4> QED
        BY <2>2, <3>9, <4>1, SanitizedTwice
    <3> QED
      BY <2>2, <3>5, <3>8, <3>10
  <2> QED
    BY <2>1, <2>3
<1> HIDE DEF G
<1>5. \A l \in 0..n : l \in G
  BY ONLY <1>1, <1>3, <1>4, Counted
<1>6. n \in 0..n /\ n \in G
  BY <1>1, <1>5
<1>7. w[n] = Ram(k)
  BY <1>2, Different, IsNode DEF ThroughMount, Types
<1>8. k \in 0..MAX_RAMFS_NODES /\ k # 0
  <2>1. k \in 1..Len(ramfs_nodes) /\ Len(ramfs_nodes) <= MAX_RAMFS_NODES
    BY DEF Types
  <2>2. MAX_RAMFS_NODES \in Nat
    BY VfsConstants
  <2> QED
    BY ONLY <1>1, <2>1, <2>2
<1>9. PathAt(k) = sanitize_path(Start(p, n))
  BY <1>6, <1>7, <1>8 DEF G
<1> QED
  BY <1>8, <1>9, StartAll

\* Nothing of a directory tree lies below a file.
LEMMA ProperStart ==
  ASSUME archive \in Seq(TarEntry), OfATree, NEW i \in Entries, NEW n, FromEntry(n),
         NEW l \in 0..Len(PathOf(i)), n.path = Start(PathOf(i), l),
         ~n.dir
  PROVE  l = Len(PathOf(i)) /\ archive[i].type = "0"
         /\ n.data = HeaderOf(i) + 1 /\ n.length = archive[i].size
<1>1. PICK j \in Entries :
        /\ archive[j].type = "0" /\ n.path = PathOf(j)
        /\ n.data = HeaderOf(j) + 1 /\ n.length = archive[j].size
  BY DEF FromEntry
<1> PICK p, q : p = PathOf(i) /\ q = PathOf(j)
  OBVIOUS
<1>2. p \in Seq(Name) /\ q \in Seq(Name) /\ Len(p) \in Nat /\ Len(q) \in Nat
  BY EntryPath DEF Entries
<1>3. q = Start(p, l) /\ Len(q) = l /\ l <= Len(p)
  <2>1. q = Start(p, l) /\ l \in 0..Len(p)
    BY <1>1
  <2>2. Len(Start(p, l)) = l
    BY <1>2, <2>1, StartIs
  <2> QED
    BY <1>2, <2>1, <2>2
<1>4. IsPrefix(q, p)
  <2>1. SubSeq(q, 1, Len(q)) = q
    BY <1>2, SubSeqFull
  <2> QED
    BY <1>3, <2>1 DEF IsPrefix, Start
<1>5. j = i
  BY <1>1, <1>4 DEF OfATree
<1> QED
  BY <1>1, <1>3, <1>5

\* A path whose directories are all in the table leads to its node.
LEMMA Led ==
  ASSUME IInv, fs_root = RAMFS, OfATree, NEW i \in Entries, NEW m \in 0..Len(PathOf(i)),
         NEW p, p = Start(PathOf(i), m), ~Hidden(p),
         \A l \in 1..Len(p) : Has(ramfs_nodes, Start(p, l))
  PROVE  vfs_get_node_by_path(p) =
           Ram(IF p = <<>> THEN 0 ELSE Match(ramfs_nodes, p))
<1>1. Types /\ Phase /\ Content(ramfs_nodes)
  BY DEF IInv
<1>2. archive \in Seq(TarEntry) /\ i \in DOMAIN archive
  BY <1>1, VfsConstants DEF Types, Entries
<1>3. Len(ramfs_nodes) \in Nat /\ Len(ramfs_nodes) <= MAX_RAMFS_NODES
  BY <1>1 DEF Types
<1> PICK n, e : n = Len(p) /\ e = PathOf(i)
  OBVIOUS
<1>4. /\ e \in Seq(Name) /\ Clean(e) /\ Len(e) \in Nat /\ p \in Seq(Name) /\ n = m
      /\ n \in Nat /\ DOMAIN p = 1..n /\ Clean(p) /\ p = Start(e, n)
      /\ n <= Len(e)
  <2>1. e \in Seq(Name) /\ Clean(e) /\ Len(e) \in Nat
    BY <1>2, EntryPath
  <2>2. p \in Seq(Name) /\ Len(p) = m
    BY <2>1, StartIs
  <2>3. Clean(p)
    BY <2>1, StartClean
  <2> QED
    BY <2>1, <2>2, <2>3
<1> DEFINE At(l) == IF l = 0 THEN 0 ELSE Match(ramfs_nodes, Start(p, l))
\* The node of each start of the path.
<1>5. ASSUME NEW l \in 1..n
      PROVE  /\ Start(p, l) \in Seq(Name) /\ Len(Start(p, l)) = l
             /\ At(l) \in 1..Len(ramfs_nodes) /\ At(l) # 0 /\ l # 0
             /\ ramfs_nodes[At(l)].path = Start(p, l)
             /\ Start(p, l)[1] = p[1]
  <2>1. l \in 0..Len(p) /\ l # 0 /\ 1 \in 1..l
    BY <1>4
  <2>2. Clean(Start(p, l)) /\ Start(p, l) \in Seq(Name) /\ Len(Start(p, l)) = l
        /\ Start(p, l)[1] = p[1]
    BY <1>4, <2>1, StartIs, StartClean
  <2>3. sanitize_path(Start(p, l)) = Start(p, l)
    BY <2>2, CleanStays
  <2>4. \E j \in 1..Len(ramfs_nodes) : ramfs_nodes[j].path = Start(p, l)
    BY DEF Has
  <2> QED
    BY <1>3, <2>1, <2>2, <2>3, <2>4, Matched
<1>6. ASSUME NEW l \in 0..n PROVE ThroughMount(Ram(At(l))) = Ram(At(l)) /\ Ram(At(l)) # NULL
  <2>1. CASE l = 0
    BY <1>1, <2>1, RootWalk, Different, IsNode
  <2>2. CASE l # 0
    <3>1. l \in 1..n
      BY <1>4, <2>2
    <3>2. At(l) # Dev
      <4>1. p # <<>> /\ p[1] # "dev"
        <5>1. p # <<>>
          BY <1>4, <3>1
        <5> QED
          BY <5>1 DEF Hidden
      <4>2. ramfs_nodes[At(l)].path[1] = p[1] /\ At(l) # 0
        BY <1>5, <3>1
      <4>3. Dev # 0 => ramfs_nodes[Dev].path = <<"dev">> /\ <<"dev">>[1] = "dev"
        BY <1>1, DevIs
      <4> QED
        BY <4>1, <4>2, <4>3
    <3>3. Ram(At(l)) \notin DOMAIN mounted
      <4>1. \A k : k # Dev => Ram(k) # Ram(Dev)
        BY Different
      <4> QED
        BY <1>1, <3>2, <4>1 DEF Phase
    <3>4. Ram(At(l)) # NULL
      <4>1. At(l) \in 0..MAX_RAMFS_NODES
        <5>1. At(l) \in 1..Len(ramfs_nodes) /\ MAX_RAMFS_NODES \in Nat
          BY <1>5, <3>1, VfsConstants
        <5> QED
          BY ONLY <1>3, <5>1
      <4> QED
        BY <4>1, RamNode, Different
    <3> QED
      BY <3>3, <3>4 DEF ThroughMount
  <2> QED
    BY <2>1, <2>2
<1>7. ASSUME NEW l \in 0..n, l < n PROVE IsDirectory(Ram(At(l)))
  <2>1. CASE l = 0
    BY <2>1, Different DEF IsDirectory
  <2>2. CASE l # 0
    <3>1. l \in 1..n /\ l \in 0..n /\ l \in 0..Len(e) /\ l # Len(e)
      BY <1>4, <1>7, <2>2
    <3>2. Good(ramfs_nodes, ramfs_nodes[At(l)])
      BY <1>1, <1>5, <3>1 DEF Content
    <3>3. ramfs_nodes[At(l)].path = Start(e, l)
      BY <1>4, <1>5, <3>1, StartOfStart
    <3>4. ramfs_nodes[At(l)].dir
      BY <1>2, <3>1, <3>2, <3>3, ProperStart DEF Good
    <3> QED
      BY <3>4, Parts DEF IsDirectory
  <2> QED
    BY <2>1, <2>2
<1>8. PICK w \in [0..n -> Lookups] :
        /\ w[0] = fs_root
        /\ \A l \in 1..n : w[l] = WalkOne(w[l - 1], p[l])
        /\ vfs_get_node_by_path(p) = IF w[n] = NULL THEN NULL ELSE ThroughMount(w[n])
  BY <1>1, <1>4, Walked
<1> DEFINE G == {l \in 0..n : w[l] = Ram(At(l))}
<1>9. 0 \in G
  BY <1>4, <1>8, Different
<1>10. ASSUME NEW l \in 0..n, l \in G, l < n PROVE l + 1 \in G
  <2>1. l \in 0..(Len(p) - 1) /\ l + 1 \in 0..n /\ l + 1 \in 1..n /\ (l + 1) - 1 = l /\ l + 1 # 0
    BY ONLY <1>4, <1>10, l \in 0..n, n = Len(p)
  <2> PICK k, name : k = At(l) /\ name = p[l + 1]
    OBVIOUS
  <2>2. w[l + 1] = WalkOne(Ram(k), name)
    BY <1>8, <1>10, <2>1
  <2>3. WalkOne(Ram(k), name) = ramfs_finddir(k, name)
    BY <1>6, <1>7, <1>10, Parts DEF WalkOne, finddir
  <2>4. (IF k = 0 THEN <<>> ELSE ramfs_nodes[k].path) = Start(p, l)
    <3>1. CASE l = 0
      <4>1. Start(p, 0) \in Seq(Name) /\ Len(Start(p, 0)) = 0
        BY <1>4, <2>1, <3>1, StartIs
      <4>2. Start(p, 0) = <<>>
        BY <4>1
      <4> QED
        BY <3>1, <4>2
    <3>2. CASE l # 0
      <4>1. l \in 1..n
        BY <1>4, <3>2
      <4> QED
        BY <1>5, <4>1
    <3> QED
      BY <3>1, <3>2
  <2>5. Append(Start(p, l), name) = Start(p, l + 1)
    BY <1>4, <2>1, StartNext
  <2>6. ramfs_finddir(k, name) = Ram(Match(ramfs_nodes, Start(p, l + 1)))
    <3>1. Match(ramfs_nodes, Start(p, l + 1)) # 0
      BY <1>5, <2>1
    <3> QED
      BY <1>1, <2>4, <2>5, <3>1, RamFound
  <2> QED
    BY <2>1, <2>2, <2>3, <2>6
<1> HIDE DEF G
<1>11. \A l \in 0..n : l \in G
  BY ONLY <1>4, <1>9, <1>10, Counted
<1>12. n \in 0..n /\ w[n] = Ram(At(n))
  BY <1>4, <1>11 DEF G
<1>13. vfs_get_node_by_path(p) = Ram(At(n))
  BY <1>6, <1>8, <1>12
<1>14. At(n) = IF p = <<>> THEN 0 ELSE Match(ramfs_nodes, p)
  <2>1. p = <<>> <=> n = 0
    BY <1>4
  <2>2. Start(p, n) = p
    BY <1>4, StartAll
  <2> QED
    BY <2>1, <2>2
<1> QED
  BY <1>13, <1>14

-----------------------------------------------------------------------------
(* The properties follow from the invariant *)

LEMMA Up == ASSUME IInv, pc = "up" PROVE Types /\ Phase /\ Content(ramfs_nodes) /\ fs_root = RAMFS
BY DEF IInv, Phase

LEMMA KeepsTypeOK == ASSUME IInv PROVE TypeOK
<1>1. Types /\ Phase
  BY DEF IInv
<1>2. \A k \in DOMAIN ramfs_nodes : ramfs_nodes[k].dir \in BOOLEAN
  <2>1. \A k \in DOMAIN ramfs_nodes : ramfs_nodes[k] \in Node
    BY <1>1 DEF Types
  <2> QED
    BY <2>1 DEF Node
<1>3. DOMAIN mounted \subseteq {RAMFS} \cup {Ram(k) : k \in DOMAIN ramfs_nodes}
  <2>1. DOMAIN ramfs_nodes = 1..Len(ramfs_nodes)
    BY <1>1 DEF Types
  <2> QED
    BY <1>1, <2>1, DevIs DEF Phase
<1> QED
  BY <1>1, <1>2, <1>3 DEF TypeOK, Types

LEMMA KeepsStandardStreams == ASSUME IInv PROVE StandardStreams
<1> SUFFICES ASSUME pc = "up" PROVE StandardStreams
  BY DEF StandardStreams
<1> DEFINE there == \E k \in DOMAIN ramfs_nodes : ramfs_nodes[k].path = <<"dev">>
<1>1. Types /\ Phase
  BY Up
<1>2. there <=> Dev # 0
  BY <1>1, DevIs
<1>3. \A i \in DOMAIN fd_table :
        fd_table[i] = (IF there /\ i \in {1, 2} THEN Device("fb0") ELSE NULL)
  BY <1>1, <1>2 DEF Phase
<1>4. ASSUME NEW p \in Paths, there, Hidden(p)
      PROVE  vfs_get_node_by_path(p) \in {NULL, DEVFS, Device("fb0")}
  <2>1. p \in Seq(Name)
    BY VfsConstants DEF Name
  <2>2. p # <<>> /\ p[1] = "dev" /\ Dev # 0
    BY <1>2, <1>4 DEF Hidden
  <2> QED
    BY <1>1, <2>1, <2>2, BelowDev
<1> HIDE DEF there
<1> QED
  BY <1>3, <1>4 DEF StandardStreams, there

LEMMA KeepsNoOrphans == ASSUME IInv PROVE NoOrphans
<1> SUFFICES ASSUME pc = "up", OfATree, NEW k \in DOMAIN ramfs_nodes,
                    ~Hidden(ramfs_nodes[k].path)
             PROVE  vfs_get_node_by_path(ramfs_nodes[k].path) # NULL
  BY DEF NoOrphans
<1>1. Types /\ Phase /\ Content(ramfs_nodes) /\ fs_root = RAMFS
  BY Up
<1>2. /\ k \in 1..Len(ramfs_nodes) /\ Len(ramfs_nodes) \in Nat
      /\ Len(ramfs_nodes) <= MAX_RAMFS_NODES
  BY <1>1 DEF Types
<1>3. archive \in Seq(TarEntry)
  BY <1>1, VfsConstants DEF Types
<1> PICK p : p = ramfs_nodes[k].path
  OBVIOUS
<1>4. Good(ramfs_nodes, ramfs_nodes[k]) /\ Clean(p) /\ p \in Seq(Name) /\ Len(p) \in Nat
  <2>1. Good(ramfs_nodes, ramfs_nodes[k])
    BY <1>1, <1>2 DEF Content
  <2>2. Clean(p)
    BY <2>1 DEF Good
  <2>3. p \in Seq(Name)
    BY <2>2 DEF Clean
  <2> QED
    BY <2>1, <2>2, <2>3
<1>5. PICK i \in Entries : \E m \in 0..Len(PathOf(i)) : p = Start(PathOf(i), m)
  <2>1. PICK i \in Entries :
          \/ \E l \in 0..Len(PathOf(i)) : p = Start(PathOf(i), l)
          \/ p = PathOf(i)
    BY <1>4 DEF Good, FromEntry
  <2>2. PathOf(i) \in Seq(Name) /\ Len(PathOf(i)) \in 0..Len(PathOf(i))
    BY <1>3, EntryPath DEF Entries
  <2>3. PathOf(i) = Start(PathOf(i), Len(PathOf(i)))
    BY <2>2, StartAll
  <2> QED
    BY <2>1, <2>2, <2>3
<1>6. Has(ramfs_nodes, p) /\ \A l \in 1..Len(p) : Has(ramfs_nodes, Start(p, l))
  <2>1. Has(ramfs_nodes, p)
    BY <1>2 DEF Has
  <2>2. Start(p, Len(p)) = p
    BY <1>4, StartAll
  <2>3. \A l \in 1..Len(p) : l \in 1..(Len(p) - 1) \/ l = Len(p)
    BY <1>4
  <2> QED
    BY <1>4, <2>1, <2>2, <2>3 DEF Good
<1> PICK m \in 0..Len(PathOf(i)) : p = Start(PathOf(i), m)
  BY <1>5
<1>7. vfs_get_node_by_path(p) = Ram(IF p = <<>> THEN 0 ELSE Match(ramfs_nodes, p))
  BY <1>1, <1>5, <1>6, Led
<1>8. (IF p = <<>> THEN 0 ELSE Match(ramfs_nodes, p)) \in 0..MAX_RAMFS_NODES
  <2>1. MAX_RAMFS_NODES \in Nat
    BY VfsConstants
  <2>2. Match(ramfs_nodes, p) = 0 \/ Match(ramfs_nodes, p) \in 1..Len(ramfs_nodes)
    BY <1>2, Matched
  <2> QED
    BY ONLY <1>2, <2>1, <2>2
<1> QED
  BY <1>7, <1>8, RamNode, Different

LEMMA KeepsOnlyItsOwn == ASSUME IInv PROVE OnlyItsOwn
<1> SUFFICES ASSUME pc = "up", NEW p \in Paths, NEW k \in DOMAIN ramfs_nodes,
                    vfs_get_node_by_path(p) = Ram(k)
             PROVE  ramfs_nodes[k].path = sanitize_path(p)
  BY DEF OnlyItsOwn
<1>1. Types /\ Phase /\ fs_root = RAMFS
  BY Up
<1>2. p \in Seq(Name)
  BY VfsConstants DEF Name
<1> QED
  BY <1>1, <1>2, OwnPath

\* A file has a name.
LEMMA FileNamed ==
  ASSUME archive \in Archives, NEW i \in Entries, archive[i].type = "0" PROVE PathOf(i) # <<>>
<1>1. archive \in Seq(TarEntry) /\ i \in DOMAIN archive /\ TarFile(archive[i])
  BY VfsConstants DEF Entries
<1> PICK p : p = archive[i].path
  OBVIOUS
<1>2. archive[i] \in TarEntry
  BY <1>1
<1>3. p \in Seq(Name) /\ DOMAIN p = 1..Len(p)
  <2>1. p \in Seq(Name)
    BY <1>2 DEF TarEntry, Name
  <2> QED
    BY <2>1
<1>4. \E k \in 1..Len(p) : ~Dots(p[k])
  BY <1>1, <1>3 DEF TarFile, Dots
<1>5. PICK k \in 1..Len(p) :
        sanitize_path(p) = <<undotted[p[k]]>> \o SubSeq(p, k + 1, Len(p)) /\ ~Dots(p[k])
  BY <1>3, <1>4, FirstName
<1>6. undotted[p[k]] \in Name
  BY <1>3, <1>5, Undotted
<1>7. sanitize_path(p) \in Seq(Name) /\ Len(sanitize_path(p)) = Len(p) - k + 1
  BY <1>3, <1>5, <1>6, Headed
<1>8. Len(sanitize_path(p)) >= 1
  <2>1. Len(p) \in Nat
    BY <1>3
  <2> QED
    BY ONLY <1>7, <2>1, k \in 1..Len(p)
<1>9. sanitize_path(p) # <<>>
  BY <1>7, <1>8
<1> QED
  BY <1>9 DEF PathOf

LEMMA KeepsAllFound == ASSUME IInv PROVE AllFound
<1> SUFFICES ASSUME pc = "up", Len(ramfs_nodes) < MAX_RAMFS_NODES, OfATree, NEW i \in Entries,
                    archive[i].type = "0", ~Hidden(PathOf(i))
             PROVE  \E k \in DOMAIN ramfs_nodes :
                      /\ vfs_get_node_by_path(PathOf(i)) = Ram(k)
                      /\ ~ramfs_nodes[k].dir
                      /\ ramfs_nodes[k].data = HeaderOf(i) + 1
                      /\ ramfs_read(ramfs_nodes[k].length, archive[i].size, 0) = archive[i].size
  BY DEF AllFound
<1>1. Types /\ Phase /\ Content(ramfs_nodes) /\ fs_root = RAMFS /\ Reached(Len(archive) + 1)
  <2>1. Len(ramfs_nodes) \in Nat
    BY DEF IInv, Types
  <2>2. MAX_RAMFS_NODES \in Nat
    BY VfsConstants
  <2>3. ~(Len(ramfs_nodes) >= MAX_RAMFS_NODES)
    BY <2>1, <2>2
  <2>4. Reached(Len(archive) + 1)
    BY <2>3 DEF IInv, Walk
  <2> QED
    BY <2>4, Up
<1>2. archive \in Archives /\ archive \in Seq(TarEntry)
  BY <1>1, VfsConstants DEF Types
<1>3. Len(ramfs_nodes) \in Nat /\ DOMAIN ramfs_nodes = 1..Len(ramfs_nodes)
  BY <1>1 DEF Types
<1> PICK p : p = PathOf(i)
  OBVIOUS
<1>4. p \in Seq(Name) /\ Clean(p) /\ Len(p) \in Nat /\ archive[i] \in TarEntry /\ p # <<>>
  BY <1>2, EntryPath, FileNamed DEF Entries
<1>5. Has(ramfs_nodes, p)
  <2>1. i < Len(archive) + 1
    BY <1>2 DEF Entries
  <2> QED
    BY <1>1, <2>1 DEF Reached
<1> PICK k : k = Match(ramfs_nodes, p)
  OBVIOUS
<1>6. k \in 1..Len(ramfs_nodes) /\ ramfs_nodes[k].path = p
  BY <1>3, <1>4, <1>5, CleanStays, Matched DEF Has
<1>7. Good(ramfs_nodes, ramfs_nodes[k])
  BY <1>1, <1>6 DEF Content
<1>8. Len(p) \in 0..Len(p) /\ p = Start(p, Len(p))
  BY <1>4, StartAll
<1>9. \A l \in 1..Len(p) : Has(ramfs_nodes, Start(p, l))
  <2>1. \A l \in 1..Len(p) : l \in 1..(Len(p) - 1) \/ l = Len(p)
    BY <1>4
  <2> QED
    BY <1>5, <1>6, <1>7, <1>8, <2>1 DEF Good
<1>10. vfs_get_node_by_path(p) = Ram(k)
  BY <1>1, <1>4, <1>8, <1>9, Led
<1>11. ~ramfs_nodes[k].dir
  <2> SUFFICES ASSUME ramfs_nodes[k].dir PROVE FALSE
    OBVIOUS
  <2> PICK j \in Entries :
        \E l \in 0..Len(PathOf(j)) :
          p = Start(PathOf(j), l) /\ (archive[j].type = "0" => l # Len(PathOf(j)))
    BY <1>6, <1>7 DEF Good, FromEntry
  <2>1. PICK l \in 0..Len(PathOf(j)) :
          p = Start(PathOf(j), l) /\ (archive[j].type = "0" => l # Len(PathOf(j)))
    OBVIOUS
  <2> PICK q : q = PathOf(j)
    OBVIOUS
  <2>2. q \in Seq(Name) /\ Len(q) \in Nat
    BY <1>2, EntryPath DEF Entries
  <2>3. Len(p) = l
    BY <2>1, <2>2, StartIs
  <2>4. j # i
    BY <2>1, <2>3
  <2>5. IsPrefix(p, q)
    <3>1. SubSeq(p, 1, Len(p)) = p /\ Len(p) <= Len(q)
      BY <1>4, <2>1, <2>2, <2>3, SubSeqFull
    <3> QED
      BY <2>1, <2>3, <3>1 DEF IsPrefix, Start
  <2> QED
    BY <2>4, <2>5 DEF OfATree
<1>12. ramfs_nodes[k].data = HeaderOf(i) + 1 /\ ramfs_nodes[k].length = archive[i].size
  BY <1>2, <1>6, <1>7, <1>8, <1>11, ProperStart DEF Good
<1>13. ramfs_read(archive[i].size, archive[i].size, 0) = archive[i].size
  <2>1. archive[i].size \in Nat
    BY <1>4 DEF TarEntry
  <2> QED
    BY <2>1 DEF ramfs_read
<1> QED
  BY <1>3, <1>6, <1>10, <1>11, <1>12, <1>13

(***************************************************************************)
(* The file system as _start leaves it: the tables of initramfs.c, devfs.c *)
(* and fd.c never overflow, every node that init_initramfs has made out of *)
(* a directory tree can be reached from the root, and the standard streams *)
(* are the frame buffer exactly where devfs could be mounted, for every    *)
(* archive that tar writes and tables of any size.                         *)
(***************************************************************************)
THEOREM VfsInvariance == DescriptorsSpec => []VfsInv
<1>1. IInv => VfsInv
  BY KeepsTypeOK, KeepsNoOrphans, KeepsStandardStreams DEF VfsInv
<1> QED
  BY <1>1, Invariance, PTL

(***************************************************************************)
(* vfs_get_node_by_path finds every file of the archive with the bytes     *)
(* that tar has put behind its header, and leads from no path to the node  *)
(* of another.                                                             *)
(***************************************************************************)
THEOREM VfsFilesFound == DescriptorsSpec => []FilesFound
<1>1. IInv => FilesFound
  BY KeepsOnlyItsOwn, KeepsAllFound DEF FilesFound
<1> QED
  BY <1>1, Invariance, PTL

-----------------------------------------------------------------------------
(* fd.c and the system calls keep what FileTable promises *)

Open == {i \in DOMAIN fd_table : fd_table[i] # NULL}
Owner == [d \in Open |-> fd_table[d]]

LEMMA SameOwner ==
  ASSUME fd_table' = fd_table
  PROVE  [d \in {i \in DOMAIN fd_table : fd_table[i] # NULL} |-> fd_table[d]]' =
         [d \in {i \in DOMAIN fd_table : fd_table[i] # NULL} |-> fd_table[d]]
OBVIOUS

LEMMA AllocOpens == ASSUME Types, fd_alloc PROVE FT!Next
<1>1. PICK p \in OpenedPaths :
        LET node == vfs_get_node_by_path(p) IN
          IF Free = {}
          THEN Call("open", -1, -1) /\ UNCHANGED <<pc, fd_table>>
          ELSE LET i == Min(Free) IN
                 /\ IF node = NULL THEN Call("other", 0, i) ELSE Call("open", i, i)
                 /\ fd_table' = [fd_table EXCEPT ![i] = node]
                 /\ UNCHANGED pc
  BY DEF fd_alloc
<1> PICK node : node = vfs_get_node_by_path(p)
  OBVIOUS
<1>2. fd_table \in [0..(MAX_OPEN_FILES - 1) -> Lookups] /\ MAX_OPEN_FILES \in Nat
  <2>1. fd_table \in [0..(MAX_OPEN_FILES - 1) -> Lookups]
    BY DEF Types
  <2> QED
    BY <2>1, VfsConstants
<1>3. CASE Free = {}
  <2>1. UNCHANGED fd_table /\ last' = [call |-> "open", fd |-> -1, answer |-> -1]
    BY <1>1, <1>3 DEF Call
  <2>2. {i \in DOMAIN fd_table : fd_table[i] # NULL} = 0..(MAX_OPEN_FILES - 1)
    BY <1>2, <1>3 DEF Free
  <2>3. FT!NoneLeft
    BY <2>1, <2>2, SameOwner DEF FT!NoneLeft, FT!Answer
  <2> QED
    BY <2>3 DEF FT!Next
<1>4. CASE Free # {}
  <2> PICK i : i = Min(Free)
    OBVIOUS
  <2>1. i \in 0..(MAX_OPEN_FILES - 1) /\ fd_table[i] = NULL
    <3>1. Free \subseteq Nat
      BY <1>2 DEF Free
    <3>2. i \in Free
      BY <1>4, <3>1, First
    <3> QED
      BY <1>2, <3>2 DEF Free
  <2>2. fd_table' = [fd_table EXCEPT ![i] = node]
    BY <1>1, <1>4
  <2>3. CASE node = NULL
    <3>1. last' = [call |-> "other", fd |-> 0, answer |-> i]
      BY <1>1, <1>4, <2>3 DEF Call
    <3>2. fd_table' = fd_table
      BY <1>2, <2>1, <2>2, <2>3
    <3>3. FT!Other
      BY <3>1, <3>2, SameOwner DEF FT!Other
    <3> QED
      BY <3>3 DEF FT!Next
  <2>4. CASE node # NULL
    <3>1. last' = [call |-> "open", fd |-> i, answer |-> i]
      BY <1>1, <1>4, <2>4 DEF Call
    <3>2. node \in Nodes
      <4>1. p \in Seq(Name)
        BY DescriptorsConstants DEF Name
      <4> QED
        BY <2>4, <4>1, Looked DEF Lookups
    <3>3. i \in 0..(MAX_OPEN_FILES - 1) \ Open /\ Open' = Open \cup {i}
      BY <1>2, <2>1, <2>2, <2>4 DEF Open
    <3>4. Owner' = [e \in Open \cup {i} |-> IF e = i THEN node ELSE Owner[e]]
      BY <1>2, <2>1, <2>2, <3>3 DEF Owner, Open
    <3>5. FT!Open
      BY <3>1, <3>2, <3>3, <3>4 DEF FT!Open, FT!Answer, Owner, Open
    <3> QED
      BY <3>5 DEF FT!Next
  <2> QED
    BY <2>3, <2>4
<1> QED
  BY <1>3, <1>4

LEMMA CloseCloses == ASSUME Types, fd_close PROVE FT!Next
<1>1. PICK fd \in Fds :
        /\ last' = IF fd \in DOMAIN fd_table THEN [call |-> "close", fd |-> fd, answer |-> 0]
                   ELSE [call |-> "other", fd |-> 0, answer |-> 0]
        /\ fd_table' = [i \in DOMAIN fd_table |-> IF i = fd THEN NULL ELSE fd_table[i]]
  BY DEF fd_close, Call
<1>2. fd_table \in [0..(MAX_OPEN_FILES - 1) -> Lookups]
  BY DEF Types
<1>3. CASE fd \in DOMAIN fd_table
  <2>1. last' = [call |-> "close", fd |-> fd, answer |-> 0] /\ fd \in 0..(MAX_OPEN_FILES - 1)
    BY <1>1, <1>2, <1>3
  <2>2. Open' = Open \ {fd}
    BY <1>1, <1>2 DEF Open
  <2>3. Owner' = [d \in Open \ {fd} |-> Owner[d]]
    BY <1>1, <1>2, <2>2 DEF Owner, Open
  <2>4. DOMAIN Owner = Open
    BY DEF Owner
  <2>5. FT!Close
    BY <2>1, <2>3, <2>4 DEF FT!Close, FT!Answer, FT!Restrict, Restrict, Owner, Open
  <2> QED
    BY <2>5 DEF FT!Next
<1>4. CASE fd \notin DOMAIN fd_table
  <2>1. fd_table' = fd_table
    BY <1>1, <1>2, <1>4
  <2>2. last'.call = "other"
    BY <1>1, <1>4
  <2>3. FT!Other
    BY <2>1, <2>2, SameOwner DEF FT!Other
  <2> QED
    BY <2>3 DEF FT!Next
<1> QED
  BY <1>3, <1>4

LEMMA WriteWrites == ASSUME Types, sys_write PROVE FT!Next
<1>1. PICK fd \in Fds, buf \in Buffers :
        LET node == fd_get_node(fd)
            written == node # NULL /\ HasWrite(node) /\ validate_user_pointer(buf.addr, buf.size)
        IN  /\ Call("write", fd, IF written THEN buf.size ELSE -1)
            /\ UNCHANGED <<pc, fd_table>>
  BY DEF sys_write
<1> PICK node : node = fd_get_node(fd)
  OBVIOUS
<1>2. fd_table' = fd_table
  BY <1>1
<1>3. CASE node = Device("fb0") /\ last' = [call |-> "write", fd |-> fd, answer |-> buf.size]
  <2>1. node # NULL
    BY <1>3, IsNode, Different
  <2>2. fd \in DOMAIN fd_table /\ node = fd_table[fd]
    BY <2>1 DEF fd_get_node
  <2>3. fd \in Open /\ Owner[fd] = node /\ DOMAIN Owner = Open
    BY <2>1, <2>2 DEF Open, Owner
  <2>4. FT!Write
    BY <1>2, <1>3, <2>3, SameOwner DEF FT!Write, FT!Answer, Open, Owner
  <2> QED
    BY <2>4 DEF FT!Next
<1>4. CASE last' = [call |-> "write", fd |-> fd, answer |-> -1]
  <2>1. FT!Write
    BY <1>2, <1>4, SameOwner DEF FT!Write
  <2> QED
    BY <2>1 DEF FT!Next
<1> QED
  BY <1>1, <1>3, <1>4 DEF Call, HasWrite

LEMMA OtherCalls == ASSUME sys_read \/ UnknownCall PROVE FT!Next
<1>1. fd_table' = fd_table /\ last'.call = "other"
  BY DEF sys_read, UnknownCall, Call
<1>2. FT!Other
  BY <1>1, SameOwner DEF FT!Other
<1> QED
  BY <1>2 DEF FT!Next

(***************************************************************************)
(* fd_alloc, fd_close and sys_write keep what FileTable promises, for any  *)
(* file system that the boot can leave, any table size and any arguments.  *)
(***************************************************************************)
THEOREM DescriptorsImplementFileTable == DescriptorsSpec => ImplementsFileTable
<1>1. IInv /\ [DescriptorsNext]_<<vars, last>> => [pc = "user" => FT!Next]_<<fd_table, last>>
  <2> SUFFICES ASSUME IInv, [DescriptorsNext]_<<vars, last>>, pc = "user",
                      ~UNCHANGED <<fd_table, last>>
               PROVE  FT!Next
    OBVIOUS
  <2>1. Types
    BY DEF IInv
  <2>2. ~UNCHANGED <<vars, last>>
    BY DEF vars
  <2>3. ~Boot
    BY DEF Boot, VfsNext, SkipExtended, TableFull, AddEntry, EndOfArchive, SetRoot,
       devfs_register, vfs_mount, NoDev, init_fds
  <2>4. ~BootDone /\ ~sys_exit /\ ~Exited
    BY <2>2 DEF BootDone, sys_exit, Exited
  <2>5. fd_alloc \/ fd_close \/ sys_write \/ sys_read \/ UnknownCall
    BY <2>2, <2>3, <2>4 DEF DescriptorsNext
  <2> QED
    BY <2>1, <2>5, AllocOpens, CloseCloses, WriteWrites, OtherCalls
<1> QED
  BY <1>1, Invariance, PTL DEF DescriptorsSpec, ImplementsFileTable

=============================================================================
