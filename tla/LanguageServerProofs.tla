----------------------- MODULE LanguageServerProofs -----------------------
(***************************************************************************)
(* Of a session of the language server, for all documents and texts: when  *)
(* the server has handled all it was sent, its documents are those of the  *)
(* editor (DocumentsAgree) and what is shown and indexed is computed from  *)
(* them (AnalysisIsCurrent).                                               *)
(***************************************************************************)
EXTENDS LanguageServer, FiniteInduction, SequenceTheorems, TLAPS

Content == Seq(Char)

IsEdit(e) ==
  /\ e.uri \in Uri /\ e.text \in Content
  /\ e.start # NULL => e.start \in TextPlaces /\ e.end \in TextPlaces

-----------------------------------------------------------------------------
(* Bytes takes the characters of a text one after the other. *)

LEMMA CodedType ==
  ASSUME NEW c \in Char
  PROVE  /\ Coded(c) \in Content
         /\ c # "wide" => Coded(c) = <<c>>
         /\ c = "wide" => Coded(c) = <<"wide", "wide2">>
<1>1. "wide" \in Char /\ "wide2" \in Char
  BY DEF Char
<1> QED
  BY <1>1 DEF Coded, Content

(* The steps of a fold: the value after each element. *)
Steps(R, t) == R[0] = << >> /\ \A i \in 1 .. Len(t) : R[i] = R[i - 1] \o Coded(t[i])

LEMMA BytesUnroll ==
  ASSUME NEW t \in Content
  PROVE  \E R : Steps(R, t) /\ Bytes(t) = R[Len(t)]
<1> DEFINE n == Len(t)
           T == Content
           Op(s, it) == IF s = {} THEN << >> ELSE it[s \ {Max(s)}] \o Coded(t[Max(s)])
           Iter == CHOOSE it : it = [s \in SUBSET (1 .. n) |-> Op(s, it)]
<1>0. n \in Nat /\ DOMAIN t = 1 .. n /\ \A i \in 1 .. n : t[i] \in Char
  BY DEF Content
<1>2. Bytes(t) = Iter[1 .. n]
  BY <1>0 DEF Bytes, FoldLeft, MapThenFoldSet
<1> HIDE DEF n
<1>3. \E it : it = [s \in SUBSET (1 .. n) |-> Op(s, it)]
  <2> DEFINE step == [x \in (1 .. n) \X T |-> x[2] \o Coded(t[x[1]])]
  <2>1. << >> \in T
    BY DEF Content
  <2>2. step \in [(1 .. n) \X T -> T]
    <3> SUFFICES ASSUME NEW x \in (1 .. n) \X T PROVE x[2] \o Coded(t[x[1]]) \in T
      OBVIOUS
    <3>1. x[2] \in T /\ t[x[1]] \in Char
      BY <1>0
    <3>2. Coded(t[x[1]]) \in T
      BY <3>1, CodedType
    <3> QED
      BY <3>1, <3>2, ConcatProperties DEF Content
  <2> HIDE DEF T
  <2>3. \A j \in 1 .. n, u \in T : step[<<j, u>>] = u \o Coded(t[j])
    OBVIOUS
  <2> HIDE DEF step
  <2>4. PICK F \in [SUBSET (1 .. n) -> T] : IsFold(F, n, << >>, step)
    BY <1>0, <2>1, <2>2, FoldsExist
  <2>5. \A s \in SUBSET (1 .. n) : F[s] = Op(s, F)
    <3> TAKE s \in SUBSET (1 .. n)
    <3>1. CASE s # {}
      <4>1. Max(s) \in 1 .. n /\ s \ {Max(s)} \in SUBSET (1 .. n)
        BY <1>0, <3>1, GreatestOfPrefix
      <4>2. F[s \ {Max(s)}] \in T
        BY <4>1
      <4> QED
        BY <2>3, <2>4, <3>1, <4>1, <4>2 DEF IsFold
    <3>2. CASE s = {}
      BY <2>4, <3>2 DEF IsFold
    <3> QED
      BY <3>1, <3>2
  <2> HIDE DEF Op
  <2>6. F = [s \in SUBSET (1 .. n) |-> Op(s, F)]
    BY <2>5
  <2> QED
    BY <2>6
<1>4. Iter = [s \in SUBSET (1 .. n) |-> Op(s, Iter)]
  <2> HIDE DEF Op
  <2> QED
    BY <1>3
<1> HIDE DEF Iter
<1>5. \A s \in SUBSET (1 .. n) : Iter[s] = Op(s, Iter)
  <2> HIDE DEF Op
  <2> QED
    BY <1>4
<1> DEFINE R == [i \in 0 .. n |-> Iter[1 .. i]]
<1>6. R[0] = << >>
  <2>1. 1 .. 0 = {} /\ 0 \in 0 .. n
    BY <1>0
  <2>2. Iter[{}] = << >>
    BY <1>5
  <2> QED
    BY <2>1, <2>2
<1>7. \A i \in 1 .. n : R[i] = R[i - 1] \o Coded(t[i])
  <2> TAKE i \in 1 .. n
  <2>1. Max(1 .. i) = i /\ (1 .. i) \ {i} = 1 .. i - 1 /\ 1 .. i # {} /\ 1 .. i \in SUBSET (1 .. n)
    BY <1>0, FoldPrefix
  <2>2. Iter[1 .. i] = Iter[1 .. i - 1] \o Coded(t[i])
    BY <1>5, <2>1
  <2> QED
    BY <1>0, <2>2
<1>8. R[n] = Iter[1 .. n]
  BY <1>0
<1> QED
  BY <1>2, <1>6, <1>7, <1>8 DEF Steps, n

(* The empty text, a character more, and one text after another. *)
LEMMA BytesAppend ==
  /\ Bytes(<< >>) = << >>
  /\ \A t \in Content, x \in Char : Bytes(Append(t, x)) = Bytes(t) \o Coded(x)
<1>1. Bytes(<< >>) = << >>
  <2>1. << >> \in Content /\ Len(<< >>) = 0
    BY DEF Content
  <2>2. PICK R : Steps(R, << >>) /\ Bytes(<< >>) = R[Len(<< >>)]
    BY <2>1, BytesUnroll
  <2> QED
    BY <2>1, <2>2 DEF Steps
<1>2. ASSUME NEW t \in Content, NEW x \in Char
      PROVE  Bytes(Append(t, x)) = Bytes(t) \o Coded(x)
  <2> DEFINE n == Len(t)
  <2>1. PICK s : s = Append(t, x)
    OBVIOUS
  <2>2. s \in Content /\ n \in Nat /\ Len(s) = n + 1 /\ s[n + 1] = x /\ \A i \in 1 .. n : s[i] = t[i]
    BY <2>1, AppendProperties DEF Content
  <2>3. PICK R : Steps(R, t) /\ Bytes(t) = R[n]
    BY BytesUnroll
  <2>4. PICK Q : Steps(Q, s) /\ Bytes(s) = Q[n + 1]
    BY <2>2, BytesUnroll
  <2> HIDE DEF n
  <2>5. \A i \in 1 .. n : R[i] = R[i - 1] \o Coded(t[i]) /\ Q[i] = Q[i - 1] \o Coded(t[i])
    <3> TAKE i \in 1 .. n
    <3>1. i \in 1 .. Len(t) /\ i \in 1 .. Len(s) /\ s[i] = t[i]
      BY <2>2 DEF n
    <3>2. R[i] = R[i - 1] \o Coded(t[i])
      BY <2>3, <3>1 DEF Steps
    <3>3. Q[i] = Q[i - 1] \o Coded(s[i])
      BY <2>4, <3>1 DEF Steps
    <3> QED
      BY <3>1, <3>2, <3>3
  <2>6. R[0] = Q[0]
    BY <2>3, <2>4 DEF Steps
  <2>7. R[n] = Q[n]
    <3> DEFINE C == {i \in 0 .. n : R[i] # Q[i]}
    <3> SUFFICES ASSUME C # {} PROVE FALSE
      BY <2>2
    <3>1. PICK i \in C : \A k \in C : i <= k
      <4>1. C \subseteq Nat
        OBVIOUS
      <4> HIDE DEF C
      <4> QED
        BY <4>1, LeastElement
    <3>2. i \in 1 .. n /\ i - 1 \in 0 .. n /\ ~ (i <= i - 1)
      BY <2>6, <2>2
    <3>3. i - 1 \notin C
      BY <3>1, <3>2
    <3> QED
      BY <2>5, <3>1, <3>2, <3>3
  <2>8. Q[n + 1] = Q[n] \o Coded(x)
    <3>1. n + 1 \in 1 .. Len(s) /\ (n + 1) - 1 = n
      BY <2>2
    <3>2. Q[n + 1] = Q[(n + 1) - 1] \o Coded(s[n + 1])
      BY <2>4, <3>1 DEF Steps
    <3> QED
      BY <2>2, <3>1, <3>2
  <2> QED
    BY <2>1, <2>3, <2>4, <2>7, <2>8
<1> QED
  BY <1>1, <1>2

(* A place of a text is a number, and an edit of bytes gives bytes. *)
LEMMA OffsetType ==
  ASSUME NEW c \in Content, NEW p \in TextPlaces
  PROVE  Offset(c, p) \in Nat
<1> DEFINE breaks == {k \in DOMAIN c : c[k] = "break"}
           before == {k \in breaks : Cardinality({b \in breaks : b < k}) < p.line}
           o == IF Cardinality(breaks) < p.line THEN Len(c)
                ELSE IF before = {} THEN 0 ELSE CHOOSE k \in before : \A b \in before : b <= k
<1>1. before # {} => (CHOOSE k \in before : \A b \in before : b <= k) \in Nat
  <2>1. IsFiniteSet(1 .. Len(c)) /\ before \subseteq 1 .. Len(c)
    BY FS_Interval DEF Content
  <2> HIDE DEF before
  <2>2. before # {} => \E k \in before : \A b \in before : b <= k
    <3>1. before \subseteq Int
      BY <2>1
    <3>2. IsFiniteSet(before)
      BY <2>1, FS_Subset
    <3> QED
      BY <3>1, <3>2, GreatestElement
  <2>3. before \subseteq Nat
    BY <2>1
  <2> QED
    BY <2>2, <2>3
<1>2. Len(c) \in Nat /\ p.character \in Nat
  BY DEF Content, TextPlaces
<1>3. o \in Nat
  <2> HIDE DEF before, breaks
  <2> QED
    BY <1>1, <1>2
<1>4. Offset(c, p) = o + p.character
  BY DEF Offset
<1> HIDE DEF o
<1> QED
  BY <1>2, <1>3, <1>4

LEMMA AppliedType ==
  ASSUME NEW c \in Content, NEW e, IsEdit(e)
  PROVE  Applied(c, e) \in Content
<1> DEFINE i == Offset(c, e.start)
           o == Offset(c, e.end)
           j == IF o < i THEN Len(c) ELSE o
<1>1. CASE e.start = NULL
  BY <1>1 DEF Applied, IsEdit
<1>2. CASE e.start # NULL /\ i <= Len(c) /\ o <= Len(c)
  <2>1. i \in 0 .. Len(c) /\ j \in 0 .. Len(c)
    <3>1. i \in Nat /\ o \in Nat /\ Len(c) \in Nat
      BY <1>2, OffsetType DEF IsEdit, Content
    <3> HIDE DEF i, o
    <3> QED
      BY <1>2, <3>1
  <2>2. Applied(c, e) = SubSeq(c, 1, i) \o e.text \o SubSeq(c, j + 1, Len(c))
    BY <1>2 DEF Applied
  <2> HIDE DEF i, o, j
  <2>3. SubSeq(c, 1, i) \in Content /\ SubSeq(c, j + 1, Len(c)) \in Content /\ e.text \in Content
    <3>1. \A k \in 1 .. i : c[k] \in Char
      BY <2>1 DEF Content
    <3>2. \A k \in j + 1 .. Len(c) : c[k] \in Char
      BY <2>1 DEF Content
    <3>3. 1 \in Int /\ i \in Int /\ j + 1 \in Int /\ Len(c) \in Int
      BY <2>1 DEF Content
    <3> QED
      BY <3>1, <3>2, <3>3, SubSeqProperties DEF Content, IsEdit
  <2> QED
    BY <2>2, <2>3, ConcatProperties DEF Content
<1>3. CASE e.start # NULL /\ ~ (i <= Len(c) /\ o <= Len(c))
  BY <1>3 DEF Applied
<1> QED
  BY <1>1, <1>2, <1>3

IsEdits(es) == DOMAIN es = 1 .. Len(es) /\ Len(es) \in Nat /\ \A i \in 1 .. Len(es) : IsEdit(es[i])

(* The edits of a message are applied one after the other. *)
Changes(R, c, es) == R[0] = c /\ \A i \in 1 .. Len(es) : R[i] = Applied(R[i - 1], es[i])

LEMMA ChangedUnrolls ==
  ASSUME NEW c \in Content, NEW es, IsEdits(es)
  PROVE  \E R : Changes(R, c, es) /\ Changed(c, es) = R[Len(es)]
<1> DEFINE n == Len(es)
           T == Content
           Op(s, it) == IF s = {} THEN c ELSE Applied(it[s \ {Max(s)}], es[Max(s)])
           Iter == CHOOSE it : it = [s \in SUBSET (1 .. n) |-> Op(s, it)]
<1>0. n \in Nat /\ DOMAIN es = 1 .. n /\ \A i \in 1 .. n : IsEdit(es[i])
  BY DEF IsEdits
<1>2. Changed(c, es) = Iter[1 .. n]
  BY <1>0 DEF Changed, FoldLeft, MapThenFoldSet
<1> HIDE DEF n
<1>3. \E it : it = [s \in SUBSET (1 .. n) |-> Op(s, it)]
  <2> DEFINE step == [x \in (1 .. n) \X T |-> Applied(x[2], es[x[1]])]
  <2>1. c \in T
    OBVIOUS
  <2>2. step \in [(1 .. n) \X T -> T]
    <3> SUFFICES ASSUME NEW x \in (1 .. n) \X T PROVE Applied(x[2], es[x[1]]) \in T
      OBVIOUS
    <3>1. x[2] \in T /\ IsEdit(es[x[1]])
      BY <1>0
    <3> QED
      BY <3>1, AppliedType
  <2> HIDE DEF T
  <2>3. \A j \in 1 .. n, u \in T : step[<<j, u>>] = Applied(u, es[j])
    OBVIOUS
  <2> HIDE DEF step
  <2>4. PICK F \in [SUBSET (1 .. n) -> T] : IsFold(F, n, c, step)
    BY <1>0, <2>1, <2>2, FoldsExist
  <2>5. \A s \in SUBSET (1 .. n) : F[s] = Op(s, F)
    <3> TAKE s \in SUBSET (1 .. n)
    <3>1. CASE s # {}
      <4>1. Max(s) \in 1 .. n /\ s \ {Max(s)} \in SUBSET (1 .. n)
        BY <1>0, <3>1, GreatestOfPrefix
      <4>2. F[s \ {Max(s)}] \in T
        BY <4>1
      <4> QED
        BY <2>3, <2>4, <3>1, <4>1, <4>2 DEF IsFold
    <3>2. CASE s = {}
      BY <2>4, <3>2 DEF IsFold
    <3> QED
      BY <3>1, <3>2
  <2> HIDE DEF Op
  <2>6. F = [s \in SUBSET (1 .. n) |-> Op(s, F)]
    BY <2>5
  <2> QED
    BY <2>6
<1>4. Iter = [s \in SUBSET (1 .. n) |-> Op(s, Iter)]
  <2> HIDE DEF Op
  <2> QED
    BY <1>3
<1> HIDE DEF Iter
<1>5. \A s \in SUBSET (1 .. n) : Iter[s] = Op(s, Iter)
  <2> HIDE DEF Op
  <2> QED
    BY <1>4
<1> DEFINE R == [i \in 0 .. n |-> Iter[1 .. i]]
<1>6. R[0] = c
  <2>1. 1 .. 0 = {} /\ 0 \in 0 .. n
    BY <1>0
  <2>2. Iter[{}] = c
    BY <1>5
  <2> QED
    BY <2>1, <2>2
<1>7. \A i \in 1 .. n : R[i] = Applied(R[i - 1], es[i])
  <2> TAKE i \in 1 .. n
  <2>1. Max(1 .. i) = i /\ (1 .. i) \ {i} = 1 .. i - 1 /\ 1 .. i # {} /\ 1 .. i \in SUBSET (1 .. n)
    BY <1>0, FoldPrefix
  <2>2. Iter[1 .. i] = Applied(Iter[1 .. i - 1], es[i])
    BY <1>5, <2>1
  <2> QED
    BY <1>0, <2>2
<1>8. R[n] = Iter[1 .. n]
  BY <1>0
<1> QED
  BY <1>2, <1>6, <1>7, <1>8 DEF Changes, n

(* No edit, and an edit more. *)
LEMMA ChangedAppend ==
  ASSUME NEW c \in Content
  PROVE  /\ Changed(c, << >>) = c
         /\ \A t, x : IsEdits(t) /\ IsEdit(x) =>
              Changed(c, Append(t, x)) = Applied(Changed(c, t), x) /\ IsEdits(Append(t, x))
<1>1. Changed(c, << >>) = c
  <2>1. IsEdits(<< >>) /\ Len(<< >>) = 0
    BY DEF IsEdits
  <2>2. PICK R : Changes(R, c, << >>) /\ Changed(c, << >>) = R[Len(<< >>)]
    BY <2>1, ChangedUnrolls
  <2> QED
    BY <2>1, <2>2 DEF Changes
<1>2. ASSUME NEW t, NEW x, IsEdits(t), IsEdit(x)
      PROVE  Changed(c, Append(t, x)) = Applied(Changed(c, t), x) /\ IsEdits(Append(t, x))
  <2> DEFINE n == Len(t)
  <2>1. PICK s : s = Append(t, x)
    OBVIOUS
  <2>2. IsEdits(s) /\ n \in Nat /\ Len(s) = n + 1 /\ s[n + 1] = x /\ \A i \in 1 .. n : s[i] = t[i]
    BY <1>2, <2>1 DEF IsEdits
  <2>3. PICK R : Changes(R, c, t) /\ Changed(c, t) = R[n]
    BY <1>2, ChangedUnrolls
  <2>4. PICK Q : Changes(Q, c, s) /\ Changed(c, s) = Q[n + 1]
    BY <2>2, ChangedUnrolls
  <2> HIDE DEF n
  <2>5. \A i \in 1 .. n : R[i] = Applied(R[i - 1], t[i]) /\ Q[i] = Applied(Q[i - 1], t[i])
    BY <2>2, <2>3, <2>4 DEF Changes, n
  <2>6. R[0] = Q[0]
    BY <2>3, <2>4 DEF Changes
  <2>7. R[n] = Q[n]
    <3> DEFINE C == {i \in 0 .. n : R[i] # Q[i]}
    <3> SUFFICES ASSUME C # {} PROVE FALSE
      BY <2>2
    <3>1. PICK i \in C : \A k \in C : i <= k
      <4>1. C \subseteq Nat
        OBVIOUS
      <4> HIDE DEF C
      <4> QED
        BY <4>1, LeastElement
    <3>2. i \in 1 .. n /\ i - 1 \in 0 .. n /\ ~ (i <= i - 1)
      BY <2>6, <2>2
    <3>3. i - 1 \notin C
      BY <3>1, <3>2
    <3> QED
      BY <2>5, <3>1, <3>2, <3>3
  <2>8. Q[n + 1] = Applied(Q[n], x)
    <3>1. n + 1 \in 1 .. Len(s) /\ (n + 1) - 1 = n
      BY <2>2
    <3>2. Q[n + 1] = Applied(Q[(n + 1) - 1], s[n + 1])
      BY <2>4, <3>1 DEF Changes
    <3> QED
      BY <2>2, <3>1, <3>2
  <2> QED
    BY <2>1, <2>2, <2>3, <2>4, <2>7, <2>8
<1> QED
  BY <1>1, <1>2

(* A text is what comes before a place and what comes after it. *)
LEMMA PrefixIs ==
  ASSUME NEW S, NEW s \in Seq(S), NEW i \in 0 .. Len(s)
  PROVE  /\ SubSeq(s, 1, i) \in Seq(S) /\ Len(SubSeq(s, 1, i)) = i
         /\ \A k \in 1 .. i : SubSeq(s, 1, i)[k] = s[k]
         /\ SubSeq(s, i + 1, Len(s)) \in Seq(S) /\ Len(SubSeq(s, i + 1, Len(s))) = Len(s) - i
         /\ s = SubSeq(s, 1, i) \o SubSeq(s, i + 1, Len(s))
<1>1. SubSeq(s, 1, i) \in Seq(S) /\ Len(SubSeq(s, 1, i)) = i /\ \A k \in 1 .. i : SubSeq(s, 1, i)[k] = s[k]
  OBVIOUS
<1>2. SubSeq(s, i + 1, Len(s)) \in Seq(S) /\ Len(SubSeq(s, i + 1, Len(s))) = Len(s) - i
  OBVIOUS
<1>3. 1 \in 1 .. Len(s) + 1 /\ i \in 1 - 1 .. Len(s) /\ Len(s) \in i .. Len(s)
  OBVIOUS
<1>4. SubSeq(s, 1, i) \o SubSeq(s, i + 1, Len(s)) = SubSeq(s, 1, Len(s))
  BY <1>3, ConcatAdjacentSubSeq
<1>5. SubSeq(s, 1, Len(s)) = s
  BY SubSeqFull
<1> QED
  BY <1>1, <1>2, <1>4, <1>5

(* A set of texts with the empty one and each longer one has them all. *)
LEMMA TextInduction ==
  ASSUME NEW Good, << >> \in Good, \A t \in Content, x \in Char : t \in Good => Append(t, x) \in Good
  PROVE  \A t \in Content : t \in Good
<1> DEFINE N == {Len(t) : t \in Content \ Good}
<1> SUFFICES ASSUME N # {} PROVE FALSE
  OBVIOUS
<1>1. PICK n \in N : \A m \in N : n <= m
  <2>1. N \subseteq Nat
    BY DEF Content
  <2> HIDE DEF N
  <2> QED
    BY <2>1, LeastElement
<1>2. PICK t \in Content \ Good : n = Len(t)
  OBVIOUS
<1>3. t # << >>
  BY <1>2
<1>4. PICK f \in Content, x \in Char : t = Append(f, x)
  BY <1>2, <1>3, SequenceEmptyOrAppend DEF Content
<1>5. Len(f) \in Nat /\ Len(t) = Len(f) + 1
  BY <1>4, AppendProperties DEF Content
<1>6. f \in Good
  <2> SUFFICES ASSUME f \notin Good PROVE FALSE
    OBVIOUS
  <2>1. Len(f) \in N
    OBVIOUS
  <2> HIDE DEF N
  <2> QED
    BY <1>1, <1>2, <1>5, <2>1
<1> QED
  BY <1>2, <1>4, <1>6

LEMMA BytesType ==
  ASSUME NEW t \in Content
  PROVE  Bytes(t) \in Content
<1> DEFINE Good == {s \in Content : Bytes(s) \in Content}
<1>1. << >> \in Good
  <2>1. << >> \in Content
    BY DEF Content
  <2> QED
    BY <2>1, BytesAppend
<1>2. \A s \in Content, x \in Char : s \in Good => Append(s, x) \in Good
  <2> TAKE s \in Content, x \in Char
  <2> HAVE s \in Good
  <2>1. Append(s, x) \in Content
    BY AppendProperties DEF Content
  <2>2. Bytes(s) \in Content /\ Coded(x) \in Content
    BY CodedType
  <2>3. Bytes(s) \o Coded(x) \in Content
    BY <2>2, ConcatProperties DEF Content
  <2> QED
    BY <2>1, <2>3, BytesAppend
<1> HIDE DEF Good
<1>3. t \in Good
  BY <1>1, <1>2, TextInduction
<1> QED
  BY <1>3 DEF Good

LEMMA BytesConcat ==
  ASSUME NEW a \in Content, NEW b \in Content
  PROVE  Bytes(a \o b) = Bytes(a) \o Bytes(b)
<1> DEFINE Good == {s \in Content : Bytes(a \o s) = Bytes(a) \o Bytes(s)}
<1>0. Bytes(a) \in Content
  BY BytesType
<1>1. << >> \in Good
  <2>1. a \o << >> = a /\ Bytes(a) \o << >> = Bytes(a)
    BY <1>0, ConcatEmptySeq DEF Content
  <2>2. << >> \in Content
    BY DEF Content
  <2> QED
    BY <2>1, <2>2, BytesAppend
<1>2. \A s \in Content, x \in Char : s \in Good => Append(s, x) \in Good
  <2> TAKE s \in Content, x \in Char
  <2> HAVE s \in Good
  <2>1. Append(s, x) \in Content /\ <<x>> \in Content /\ Append(s, x) = s \o <<x>>
    BY AppendProperties, AppendIsConcat DEF Content
  <2>2. a \o s \in Content /\ Append(a \o s, x) = (a \o s) \o <<x>>
    BY ConcatProperties, AppendIsConcat DEF Content
  <2>3. a \o Append(s, x) = Append(a \o s, x)
    BY <2>1, <2>2, ConcatAssociative DEF Content
  <2>4. Bytes(a \o Append(s, x)) = (Bytes(a) \o Bytes(s)) \o Coded(x)
    BY <2>2, <2>3, BytesAppend
  <2>5. Bytes(s) \in Content /\ Coded(x) \in Content
    BY BytesType, CodedType
  <2>6. (Bytes(a) \o Bytes(s)) \o Coded(x) = Bytes(a) \o (Bytes(s) \o Coded(x))
    <3>1. PICK p, q, r : p = Bytes(a) /\ q = Bytes(s) /\ r = Coded(x)
      OBVIOUS
    <3>2. p \in Seq(Char) /\ q \in Seq(Char) /\ r \in Seq(Char)
      BY <1>0, <2>5, <3>1 DEF Content
    <3>3. (p \o q) \o r = p \o (q \o r)
      BY <3>2, ConcatAssociative
    <3> QED
      BY <3>1, <3>3
  <2>7. Bytes(Append(s, x)) = Bytes(s) \o Coded(x)
    BY BytesAppend
  <2> QED
    BY <2>1, <2>4, <2>6, <2>7
<1> HIDE DEF Good
<1>3. b \in Good
  BY <1>1, <1>2, TextInduction
<1> QED
  BY <1>3 DEF Good

-----------------------------------------------------------------------------
(* The bytes before the end of the first i characters of a text. *)
At(t, i) == Len(Bytes(SubSeq(t, 1, i)))

LEMMA AtStep ==
  ASSUME NEW t \in Content
  PROVE  /\ \A i \in 0 .. Len(t) : At(t, i) \in Nat
         /\ At(t, 0) = 0
         /\ \A i \in 1 .. Len(t) : /\ Bytes(SubSeq(t, 1, i)) = Bytes(SubSeq(t, 1, i - 1)) \o Coded(t[i])
                                   /\ At(t, i) = At(t, i - 1) + IF t[i] = "wide" THEN 2 ELSE 1
<1>1. \A i \in 0 .. Len(t) : SubSeq(t, 1, i) \in Content
  BY PrefixIs DEF Content
<1>2. \A i \in 0 .. Len(t) : At(t, i) \in Nat
  BY <1>1, BytesType DEF At, Content
<1>3. At(t, 0) = 0
  <2>1. SubSeq(t, 1, 0) = << >>
    BY SubSeqEmpty
  <2>2. Len(<< >>) = 0
    OBVIOUS
  <2> QED
    BY <2>1, <2>2, BytesAppend DEF At
<1>4. ASSUME NEW i \in 1 .. Len(t)
      PROVE  /\ Bytes(SubSeq(t, 1, i)) = Bytes(SubSeq(t, 1, i - 1)) \o Coded(t[i])
             /\ At(t, i) = At(t, i - 1) + IF t[i] = "wide" THEN 2 ELSE 1
  <2>1. PICK p : p = SubSeq(t, 1, i - 1)
    OBVIOUS
  <2>2. i - 1 \in 0 .. Len(t) /\ t[i] \in Char
    BY DEF Content
  <2>3. p \in Content
    BY <1>1, <2>1, <2>2
  <2>4. SubSeq(t, 1, i) = p \o <<t[i]>>
    <3>1. 1 \in 1 .. Len(t) /\ i \in 1 .. Len(t)
      BY DEF Content
    <3> QED
      BY <2>1, <3>1, SubSeqRecursiveSecond DEF Content
  <2>5. SubSeq(t, 1, i) = Append(p, t[i])
    BY <2>2, <2>3, <2>4, AppendIsConcat DEF Content
  <2>6. Bytes(SubSeq(t, 1, i)) = Bytes(p) \o Coded(t[i])
    BY <2>2, <2>3, <2>5, BytesAppend
  <2>7. Len(Bytes(p) \o Coded(t[i])) = Len(Bytes(p)) + Len(Coded(t[i]))
    BY <2>2, <2>3, BytesType, CodedType, ConcatProperties DEF Content
  <2>8. Len(Coded(t[i])) = IF t[i] = "wide" THEN 2 ELSE 1
    <3>1. Len(<<t[i]>>) = 1 /\ Len(<<"wide", "wide2">>) = 2
      OBVIOUS
    <3> QED
      BY <2>2, <3>1, CodedType
  <2> QED
    BY <2>1, <2>6, <2>7, <2>8 DEF At
<1> QED
  BY <1>2, <1>3, <1>4

(* From one place to a later one: at least as many bytes as characters, and*)
(* as many when none of them is wide.                                      *)
LEMMA AtBetween ==
  ASSUME NEW t \in Content, NEW a \in 0 .. Len(t), NEW b \in a .. Len(t)
  PROVE  /\ At(t, b) >= At(t, a) + (b - a)
         /\ (\A k \in a + 1 .. b : t[k] # "wide") => At(t, b) = At(t, a) + (b - a)
<1> DEFINE Good(d) == /\ At(t, d) >= At(t, a) + (d - a)
                      /\ (\A k \in a + 1 .. d : t[k] # "wide") => At(t, d) = At(t, a) + (d - a)
           C == {d \in a .. Len(t) : ~ Good(d)}
<1>0. Len(t) \in Nat /\ a \in Nat /\ b \in Nat
  BY DEF Content
<1> SUFFICES ASSUME C # {} PROVE FALSE
  OBVIOUS
<1>1. PICK d \in C : \A k \in C : d <= k
  <2>1. C \subseteq Nat
    BY <1>0
  <2> HIDE DEF C
  <2> QED
    BY <2>1, LeastElement
<1>2. d \in a .. Len(t) /\ ~ Good(d)
  BY <1>1
<1>3. d # a
  <2> SUFFICES ASSUME d = a PROVE FALSE
    OBVIOUS
  <2>1. At(t, a) \in Nat /\ a - a = 0
    BY <1>0, AtStep
  <2> QED
    BY <1>2, <2>1
<1>4. d \in 1 .. Len(t) /\ d - 1 \in a .. Len(t) /\ d - 1 \in 0 .. Len(t) /\ ~ (d <= d - 1) /\ d \in Nat
  BY <1>0, <1>2, <1>3
<1>5. Good(d - 1)
  BY <1>1, <1>4
<1>6. At(t, d) = At(t, d - 1) + IF t[d] = "wide" THEN 2 ELSE 1
  BY <1>4, AtStep
<1>7. At(t, a) \in Nat /\ At(t, d - 1) \in Nat
  BY <1>0, <1>4, AtStep
<1>8. At(t, d) >= At(t, a) + (d - a)
  BY <1>0, <1>4, <1>5, <1>6, <1>7
<1>9. ASSUME \A k \in a + 1 .. d : t[k] # "wide" PROVE At(t, d) = At(t, a) + (d - a)
  <2>1. t[d] # "wide" /\ \A k \in a + 1 .. d - 1 : t[k] # "wide"
    BY <1>0, <1>2, <1>3, <1>4, <1>9
  <2> QED
    BY <1>0, <1>4, <1>5, <1>6, <1>7, <2>1
<1> QED
  BY <1>2, <1>8, <1>9

-----------------------------------------------------------------------------
(* The places of the breaks are counted alike in a text and in its bytes.  *)
Image(g, S) == {g[m] : m \in S}

Rising(g, n) == g \in [0 .. n -> Nat] /\ \A a, b \in 0 .. n : a < b => g[a] < g[b]

LEMMA ImageCount ==
  ASSUME NEW n \in Nat, NEW g, Rising(g, n), NEW S \in SUBSET (0 .. n)
  PROVE  /\ IsFiniteSet(S) /\ IsFiniteSet(Image(g, S))
         /\ Cardinality(Image(g, S)) = Cardinality(S) /\ Cardinality(S) \in Nat
<1>1. IsFiniteSet(S)
  <2>1. IsFiniteSet(0 .. n)
    BY FS_Interval
  <2> QED
    BY <2>1, FS_Subset
<1>2. PICK T : T = Image(g, S)
  OBVIOUS
<1> DEFINE f == [m \in S |-> g[m]]
<1>3. f \in Surjection(S, T)
  BY <1>2 DEF Surjection, Image
<1>4. f \in Injection(S, T)
  <2>1. \A a, b \in S : g[a] = g[b] => a = b
    <3> SUFFICES ASSUME NEW a \in S, NEW b \in S, g[a] = g[b], a # b PROVE FALSE
      OBVIOUS
    <3>1. a \in 0 .. n /\ b \in 0 .. n /\ (a < b \/ b < a)
      OBVIOUS
    <3>2. g[a] \in Nat /\ g[b] \in Nat /\ (g[a] < g[b] \/ g[b] < g[a])
      BY <3>1 DEF Rising
    <3> QED
      BY <3>2
  <2>2. f \in [S -> T]
    BY <1>2 DEF Image
  <2> QED
    BY <2>1, <2>2 DEF Injection, IsInjective
<1>5. IsFiniteSet(T) /\ Cardinality(T) = Cardinality(S)
  <2> HIDE DEF f
  <2> QED
    BY <1>1, <1>3, <1>4, FS_Surjection
<1> QED
  BY <1>1, <1>2, <1>5, FS_CardinalityType

Upto(B, i) == {m \in B : m <= i}

(* Those of a set of places that have fewer than l of them before them are *)
(* the first l.                                                            *)
Firsts(I, l) == {k \in I : Cardinality({b \in I : b < k}) < l}

LEMMA FirstLines ==
  ASSUME NEW n \in Nat, NEW g, Rising(g, n), NEW B \in SUBSET (1 .. n), NEW i \in 0 .. n
  PROVE  Firsts(Image(g, B), Cardinality(Upto(B, i))) = Image(g, Upto(B, i))
<1> DEFINE l == Cardinality(Upto(B, i))
           Small(k) == {b \in Image(g, B) : b < k}
<1>a. \A m \in B : m \in 1 .. n /\ m \in 0 .. n /\ m \in Int
  OBVIOUS
<1>b. \A m, j : m \in Upto(B, j) <=> m \in B /\ m <= j
  BY DEF Upto
<1>0. Upto(B, i) \in SUBSET (0 .. n) /\ l \in Nat
  <2>1. Upto(B, i) \in SUBSET (0 .. n)
    BY <1>a, <1>b
  <2> QED
    BY <2>1, ImageCount
<1>1. ASSUME NEW m \in B
      PROVE  Cardinality(Small(g[m])) < l <=> m \in Upto(B, i)
  <2>1. m \in 1 .. n /\ m - 1 \in 0 .. n
    OBVIOUS
  <2>2. Small(g[m]) = Image(g, Upto(B, m - 1))
    <3>1. ASSUME NEW a \in B PROVE g[a] < g[m] <=> a <= m - 1
      <4>1. a \in 0 .. n /\ m \in 0 .. n
        OBVIOUS
      <4>2. g[a] \in Nat /\ g[m] \in Nat /\ (a < m => g[a] < g[m]) /\ (m < a => g[m] < g[a])
        BY <4>1 DEF Rising
      <4>3. CASE a < m
        BY <4>1, <4>2, <4>3
      <4>4. CASE a = m
        BY <4>1, <4>2, <4>4
      <4>5. CASE m < a
        BY <4>1, <4>2, <4>5
      <4> QED
        BY <4>1, <4>3, <4>4, <4>5
    <3> QED
      BY <3>1 DEF Image, Upto
  <2>3. Upto(B, m - 1) \in SUBSET (0 .. n)
    BY <1>a, <1>b
  <2>4. Cardinality(Small(g[m])) = Cardinality(Upto(B, m - 1)) /\ Cardinality(Upto(B, m - 1)) \in Nat
    BY <2>2, <2>3, ImageCount
  <2>5. CASE m <= i
    <3>0. ~ (m <= m - 1) /\ \A a \in B : a <= m - 1 => a <= i
      BY <1>a, <2>1, <2>5
    <3>1. m \in Upto(B, i) /\ m \notin Upto(B, m - 1) /\ Upto(B, m - 1) \subseteq Upto(B, i)
      BY <1>b, <2>5, <3>0
    <3>2. Cardinality(Upto(B, m - 1)) <= l /\ (l = Cardinality(Upto(B, m - 1)) => Upto(B, i) = Upto(B, m - 1))
      BY <1>0, <3>1, ImageCount, FS_Subset
    <3>3. Cardinality(Upto(B, m - 1)) # l
      BY <3>1, <3>2
    <3> QED
      BY <1>0, <2>4, <3>1, <3>2, <3>3
  <2>6. CASE ~ (m <= i)
    <3>0. \A a \in B : a <= i => a <= m - 1
      BY <1>a, <2>1, <2>6
    <3>1. m \notin Upto(B, i) /\ Upto(B, i) \subseteq Upto(B, m - 1)
      BY <1>b, <2>6, <3>0
    <3>2. l <= Cardinality(Upto(B, m - 1))
      BY <2>3, <3>1, ImageCount, FS_Subset
    <3> QED
      BY <1>0, <2>4, <3>1, <3>2
  <2> QED
    BY <2>5, <2>6
<1>2. \A k \in Image(g, B) : Cardinality(Small(k)) < l <=> k \in Image(g, Upto(B, i))
  <2> TAKE k \in Image(g, B)
  <2>1. PICK m \in B : k = g[m]
    BY DEF Image
  <2>2. k \in Image(g, Upto(B, i)) <=> m \in Upto(B, i)
    <3>1. ASSUME NEW a \in Upto(B, i), g[a] = g[m] PROVE a = m
      <4>1. a \in 0 .. n /\ m \in 0 .. n
        BY DEF Upto
      <4>2. g[a] \in Nat /\ (a < m => g[a] < g[m]) /\ (m < a => g[m] < g[a])
        BY <4>1 DEF Rising
      <4> QED
        BY <3>1, <4>1, <4>2
    <3> QED
      BY <2>1, <3>1 DEF Image
  <2> QED
    BY <1>1, <2>1, <2>2
<1>3. Image(g, Upto(B, i)) \subseteq Image(g, B)
  BY DEF Image, Upto
<1> HIDE DEF l
<1>4. {k \in Image(g, B) : Cardinality(Small(k)) < l} = Image(g, Upto(B, i))
  <2> HIDE DEF Small
  <2> QED
    BY <1>2, <1>3
<1> QED
  BY <1>4 DEF l, Firsts

Ends(t) == [i \in 0 .. Len(t) |-> At(t, i)]
BreaksIn(c) == {k \in DOMAIN c : c[k] = "break"}

LEMMA EndsRise ==
  ASSUME NEW t \in Content
  PROVE  Rising(Ends(t), Len(t)) /\ Len(t) \in Nat
<1>1. Len(t) \in Nat
  BY DEF Content
<1>2. Ends(t) \in [0 .. Len(t) -> Nat]
  BY AtStep DEF Ends
<1>3. ASSUME NEW a \in 0 .. Len(t), NEW b \in 0 .. Len(t), a < b PROVE At(t, a) < At(t, b)
  <2>1. b \in a .. Len(t) /\ a \in Nat /\ b \in Nat
    BY <1>1, <1>3
  <2>2. At(t, b) >= At(t, a) + (b - a) /\ At(t, a) \in Nat /\ At(t, b) \in Nat
    BY <2>1, AtBetween, AtStep
  <2> QED
    BY <1>3, <2>1, <2>2
<1> QED
  BY <1>1, <1>2, <1>3 DEF Rising, Ends

LEMMA BreaksInConcat ==
  ASSUME NEW c \in Content, NEW d \in Content
  PROVE  BreaksIn(c \o d) = BreaksIn(c) \cup {Len(c) + k : k \in BreaksIn(d)}
<1>1. PICK s : s = c \o d
  OBVIOUS
<1>2. s \in Content /\ DOMAIN s = 1 .. Len(c) + Len(d) /\ Len(c) \in Nat /\ Len(d) \in Nat
      /\ DOMAIN c = 1 .. Len(c) /\ DOMAIN d = 1 .. Len(d)
  BY <1>1, ConcatProperties DEF Content
<1>3. \A k \in 1 .. Len(c) + Len(d) : s[k] = IF k <= Len(c) THEN c[k] ELSE d[k - Len(c)]
  BY <1>1, ConcatProperties DEF Content
<1>4. ASSUME NEW k \in BreaksIn(s) PROVE k \in BreaksIn(c) \/ (k - Len(c) \in BreaksIn(d) /\ k = Len(c) + (k - Len(c)))
  <2>1. k \in 1 .. Len(c) + Len(d) /\ s[k] = "break"
    BY <1>2, <1>4 DEF BreaksIn
  <2>2. CASE k <= Len(c)
    BY <1>2, <1>3, <2>1, <2>2 DEF BreaksIn
  <2>3. CASE ~ (k <= Len(c))
    <3>1. k - Len(c) \in 1 .. Len(d) /\ k = Len(c) + (k - Len(c))
      BY <1>2, <2>1, <2>3
    <3> QED
      BY <1>2, <1>3, <2>1, <2>3, <3>1 DEF BreaksIn
  <2> QED
    BY <2>2, <2>3
<1>5. ASSUME NEW k \in BreaksIn(c) PROVE k \in BreaksIn(s)
  <2>1. k \in 1 .. Len(c) /\ c[k] = "break"
    BY <1>2, <1>5 DEF BreaksIn
  <2>2. k \in 1 .. Len(c) + Len(d) /\ k <= Len(c)
    BY <1>2, <2>1
  <2> QED
    BY <1>2, <1>3, <2>1, <2>2 DEF BreaksIn
<1>6. ASSUME NEW k \in BreaksIn(d) PROVE Len(c) + k \in BreaksIn(s)
  <2>1. k \in 1 .. Len(d) /\ d[k] = "break"
    BY <1>2, <1>6 DEF BreaksIn
  <2>2. Len(c) + k \in 1 .. Len(c) + Len(d) /\ ~ (Len(c) + k <= Len(c)) /\ (Len(c) + k) - Len(c) = k
    BY <1>2, <2>1
  <2> QED
    BY <1>2, <1>3, <2>1, <2>2 DEF BreaksIn
<1> QED
  BY <1>1, <1>4, <1>5, <1>6

LEMMA BreaksInCoded ==
  ASSUME NEW x \in Char
  PROVE  BreaksIn(Coded(x)) = IF x = "break" THEN {1} ELSE {}
<1>1. CASE x = "wide"
  <2>1. PICK s : s = <<"wide", "wide2">>
    OBVIOUS
  <2>2. DOMAIN s = {1, 2} /\ s[1] # "break" /\ s[2] # "break"
    BY <2>1
  <2> QED
    BY <1>1, <2>1, <2>2, CodedType DEF BreaksIn
<1>2. CASE x # "wide"
  <2>1. PICK s : s = <<x>>
    OBVIOUS
  <2>2. DOMAIN s = {1} /\ s[1] = x
    BY <2>1
  <2> QED
    BY <1>2, <2>1, <2>2, CodedType DEF BreaksIn
<1> QED
  BY <1>1, <1>2

(* The breaks of the bytes are where the breaks of the text end. *)
LEMMA BreaksOfBytes ==
  ASSUME NEW t \in Content
  PROVE  BreaksIn(Bytes(t)) = Image(Ends(t), Breaks(t, Len(t)))
<1> DEFINE Good == {s \in Content : BreaksIn(Bytes(s)) = Image(Ends(s), Breaks(s, Len(s)))}
<1>1. << >> \in Good
  <2>1. << >> \in Content /\ Len(<< >>) = 0 /\ DOMAIN << >> = {}
    BY DEF Content
  <2>2. BreaksIn(<< >>) = {}
    BY <2>1 DEF BreaksIn
  <2>3. Image(Ends(<< >>), Breaks(<< >>, 0)) = {}
    BY DEF Image, Breaks
  <2> QED
    BY <2>1, <2>2, <2>3, BytesAppend
<1>2. ASSUME NEW s \in Content, NEW x \in Char, s \in Good PROVE Append(s, x) \in Good
  <2>1. PICK r : r = Append(s, x)
    OBVIOUS
  <2>2. PICK n : n = Len(s)
    OBVIOUS
  <2>3. r \in Content /\ n \in Nat /\ Len(r) = n + 1 /\ r[n + 1] = x /\ \A i \in 1 .. n : r[i] = s[i]
    BY <2>1, <2>2, AppendProperties DEF Content
  <2>4. BreaksIn(Bytes(r)) = BreaksIn(Bytes(s)) \cup {Len(Bytes(s)) + k : k \in BreaksIn(Coded(x))}
    <3>1. PICK b, d : b = Bytes(s) /\ d = Coded(x)
      OBVIOUS
    <3>2. b \in Content /\ d \in Content
      BY <3>1, BytesType, CodedType
    <3>3. Bytes(r) = b \o d
      BY <2>1, <3>1, BytesAppend
    <3>4. BreaksIn(b \o d) = BreaksIn(b) \cup {Len(b) + k : k \in BreaksIn(d)}
      BY <3>2, BreaksInConcat
    <3> QED
      BY <3>1, <3>3, <3>4
  <2>5. \A i \in 0 .. n : At(r, i) = At(s, i)
    <3> TAKE i \in 0 .. n
    <3>1. i \in 0 .. Len(r)
      BY <2>3
    <3>2. PICK p, q : p = SubSeq(r, 1, i) /\ q = SubSeq(s, 1, i)
      OBVIOUS
    <3>3. p \in Seq(Char) /\ Len(p) = i /\ \A k \in 1 .. i : p[k] = r[k]
      BY <2>3, <3>1, <3>2, PrefixIs DEF Content
    <3>4. q \in Seq(Char) /\ Len(q) = i /\ \A k \in 1 .. i : q[k] = s[k]
      BY <2>2, <3>2, PrefixIs DEF Content
    <3>5. \A k \in 1 .. i : p[k] = q[k]
      BY <2>3, <3>3, <3>4
    <3>6. p = q
      BY <3>3, <3>4, <3>5, SeqEqual
    <3> QED
      BY <3>2, <3>6 DEF At
  <2>6. At(r, n) = Len(Bytes(s)) /\ (x = "break" => At(r, n + 1) = Len(Bytes(s)) + 1)
    <3>1. SubSeq(s, 1, n) = s
      BY <2>2, SubSeqFull DEF Content
    <3>2. At(r, n) = Len(Bytes(s))
      <4>1. At(r, n) = At(s, n)
        BY <2>3, <2>5
      <4> QED
        BY <3>1, <4>1 DEF At
    <3>3. n + 1 \in 1 .. Len(r) /\ (n + 1) - 1 = n
      BY <2>3
    <3>4. At(r, n + 1) = At(r, n) + IF x = "wide" THEN 2 ELSE 1
      BY <2>3, <3>3, AtStep
    <3> QED
      BY <3>2, <3>4
  <2>7. Breaks(r, n + 1) = Breaks(s, n) \cup IF x = "break" THEN {n + 1} ELSE {}
    <3>1. 1 .. n + 1 = (1 .. n) \cup {n + 1} /\ n + 1 \notin 1 .. n
      BY <2>3
    <3> QED
      BY <2>3, <3>1 DEF Breaks
  <2>8. \A i \in 1 .. n : Ends(r)[i] = Ends(s)[i]
    BY <2>2, <2>3, <2>5 DEF Ends
  <2>9. Ends(r)[n + 1] = At(r, n + 1)
    BY <2>3 DEF Ends
  <2>10. \A m \in Breaks(s, n) : m \in 1 .. n
    BY DEF Breaks
  <2>11. BreaksIn(Bytes(s)) = Image(Ends(s), Breaks(s, n))
    BY <1>2, <2>2
  <2>12. Image(Ends(r), Breaks(s, n)) = Image(Ends(s), Breaks(s, n))
    BY <2>8, <2>10 DEF Image
  <2>13. CASE x = "break"
    <3>1. BreaksIn(Bytes(r)) = BreaksIn(Bytes(s)) \cup {Len(Bytes(s)) + 1}
      BY <2>4, <2>13, BreaksInCoded
    <3>2. Image(Ends(r), Breaks(r, n + 1)) = Image(Ends(r), Breaks(s, n)) \cup {Ends(r)[n + 1]}
      BY <2>7, <2>13 DEF Image
    <3> QED
      BY <2>1, <2>3, <2>6, <2>9, <2>11, <2>12, <2>13, <3>1, <3>2
  <2>14. CASE x # "break"
    <3>1. BreaksIn(Bytes(r)) = BreaksIn(Bytes(s))
      BY <2>4, <2>14, BreaksInCoded
    <3>2. Image(Ends(r), Breaks(r, n + 1)) = Image(Ends(r), Breaks(s, n))
      BY <2>7, <2>14
    <3> QED
      BY <2>1, <2>3, <2>11, <2>12, <3>1, <3>2
  <2> QED
    BY <2>13, <2>14
<1> HIDE DEF Good
<1>3. t \in Good
  BY <1>1, <1>2, TextInduction
<1> QED
  BY <1>3 DEF Good

-----------------------------------------------------------------------------
(* The line of a place begins after the last break before it. *)
LEMMA LineStartIs ==
  ASSUME NEW t \in Content, NEW i \in 0 .. Len(t)
  PROVE  /\ LineStart(t, i) \in 0 .. i
         /\ IsFiniteSet(Breaks(t, i)) /\ LineOf(t, i) \in Nat
         /\ Breaks(t, i) = {} => LineStart(t, i) = 0
         /\ Breaks(t, i) # {} => /\ LineStart(t, i) \in Breaks(t, i)
                                 /\ \A j \in Breaks(t, i) : j <= LineStart(t, i)
<1>0. Len(t) \in Nat /\ i \in Nat
  BY DEF Content
<1>1. Breaks(t, i) \in SUBSET (1 .. i)
  BY DEF Breaks
<1>2. IsFiniteSet(Breaks(t, i)) /\ LineOf(t, i) \in Nat
  <2>1. IsFiniteSet(1 .. i)
    BY <1>0, FS_Interval
  <2> QED
    BY <1>1, <2>1, FS_Subset, FS_CardinalityType DEF LineOf
<1>3. CASE Breaks(t, i) = {}
  BY <1>0, <1>2, <1>3 DEF LineStart
<1>4. CASE Breaks(t, i) # {}
  <2>1. PICK B : B = Breaks(t, i)
    OBVIOUS
  <2>2. B \subseteq Int
    BY <1>0, <1>1, <2>1
  <2>3. \E k \in B : \A j \in B : j <= k
    BY <1>2, <1>4, <2>1, <2>2, GreatestElement
  <2>4. LineStart(t, i) = CHOOSE k \in B : \A j \in B : j <= k
    BY <1>4, <2>1 DEF LineStart
  <2>5. LineStart(t, i) \in B /\ \A j \in B : j <= LineStart(t, i)
    BY <2>3, <2>4
  <2> QED
    BY <1>0, <1>1, <1>2, <1>4, <2>1, <2>5
<1> QED
  BY <1>3, <1>4

LEMMA PositionType ==
  ASSUME NEW t \in Content, NEW i \in 0 .. Len(t)
  PROVE  Position(t, i) \in TextPlaces
<1>1. LineStart(t, i) \in 0 .. i /\ LineOf(t, i) \in Nat
  BY LineStartIs
<1>2. i - LineStart(t, i) \in Nat
  BY <1>1
<1> QED
  BY <1>1, <1>2 DEF Position, TextPlaces

(* The server finds the place that the editor means. *)
Straight(t, i) == "wide" \notin ToSet(SubSeq(t, LineStart(t, i) + 1, i))

LEMMA OffsetOfPosition ==
  ASSUME NEW t \in Content, NEW i \in 0 .. Len(t), Straight(t, i)
  PROVE  Offset(Bytes(t), Position(t, i)) = At(t, i)
<1> DEFINE n == Len(t)
           g == Ends(t)
           B == Breaks(t, n)
           s == LineStart(t, i)
<1>0. n \in Nat /\ i \in Nat /\ i \in 0 .. n /\ Rising(g, n) /\ B \in SUBSET (1 .. n) /\ Upto(B, i) = Breaks(t, i)
  <2>1. n \in Nat /\ i \in Nat /\ Rising(g, n) /\ B \in SUBSET (1 .. n)
    BY EndsRise DEF Breaks
  <2>2. \A m \in 1 .. n : m <= i <=> m \in 1 .. i
    BY <2>1
  <2>3. 1 .. i \subseteq 1 .. n
    BY <2>1
  <2> QED
    BY <2>1, <2>2, <2>3 DEF Upto, Breaks
<1>1. /\ s \in 0 .. i /\ LineOf(t, i) \in Nat
      /\ Breaks(t, i) = {} => s = 0
      /\ Breaks(t, i) # {} => s \in Breaks(t, i) /\ \A j \in Breaks(t, i) : j <= s
  BY LineStartIs
<1> HIDE DEF s
<1>2. At(t, i) = At(t, s) + (i - s) /\ At(t, s) \in Nat
  <2>1. \A k \in s + 1 .. i : t[k] # "wide"
    <3> TAKE k \in s + 1 .. i
    <3>1. PICK q : q = SubSeq(t, s + 1, i)
      OBVIOUS
    <3>2. s + 1 \in Int /\ i \in Int /\ \A m \in s + 1 .. i : t[m] \in Char
      BY <1>0, <1>1 DEF Content
    <3>3. q \in Seq(Char) /\ Len(q) = i - (s + 1) + 1 /\ \A m \in 1 .. i - (s + 1) + 1 : q[m] = t[(s + 1) + m - 1]
      BY <1>0, <1>1, <3>1, <3>2, SubSeqProperties
    <3>4. k - s \in 1 .. i - (s + 1) + 1 /\ (s + 1) + (k - s) - 1 = k
      BY <1>0, <1>1
    <3>5. k - s \in DOMAIN q /\ q[k - s] = t[k]
      BY <3>3, <3>4
    <3> QED
      BY <3>1, <3>5 DEF Straight, ToSet, s
  <2>2. s \in 0 .. n /\ i \in s .. n
    BY <1>0, <1>1
  <2> QED
    BY <2>1, <2>2, AtBetween, AtStep
<1> DEFINE c == Bytes(t)
           p == Position(t, i)
           breaks == BreaksIn(c)
           before == {k \in breaks : Cardinality({b \in breaks : b < k}) < p.line}
<1>3. p.line = Cardinality(Upto(B, i)) /\ p.character = i - s
  BY <1>0 DEF Position, LineOf, s
<1>4. breaks = Image(g, B)
  BY BreaksOfBytes
<1>5. before = Image(g, Upto(B, i))
  <2> HIDE DEF n, g, B, c, p, breaks
  <2>1. Firsts(Image(g, B), Cardinality(Upto(B, i))) = Image(g, Upto(B, i))
    BY <1>0, FirstLines
  <2>2. before = Firsts(breaks, p.line)
    BY DEF Firsts
  <2> QED
    BY <1>3, <1>4, <2>1, <2>2
<1>6. ~ (Cardinality(breaks) < p.line)
  <2>1. B \in SUBSET (0 .. n) /\ Upto(B, i) \in SUBSET (0 .. n) /\ Upto(B, i) \in SUBSET B
    BY <1>0 DEF Upto
  <2>2. Cardinality(breaks) = Cardinality(B) /\ IsFiniteSet(B) /\ Cardinality(B) \in Nat
        /\ Cardinality(Upto(B, i)) \in Nat
    BY <1>0, <1>4, <2>1, ImageCount
  <2>3. Cardinality(Upto(B, i)) <= Cardinality(B)
    BY <2>1, <2>2, FS_Subset
  <2> QED
    BY <1>3, <2>2, <2>3
<1>7. Offset(c, p) = (IF before = {} THEN 0 ELSE CHOOSE k \in before : \A b \in before : b <= k) + p.character
  BY <1>6 DEF Offset, BreaksIn
<1>8. (IF before = {} THEN 0 ELSE CHOOSE k \in before : \A b \in before : b <= k) = At(t, s)
  <2> HIDE DEF before
  <2>1. CASE Breaks(t, i) = {}
    <3>1. before = {}
      BY <1>0, <1>5, <2>1 DEF Image
    <3> QED
      BY <1>1, <2>1, <3>1, AtStep
  <2>2. CASE Breaks(t, i) # {}
    <3>1. s \in Breaks(t, i) /\ \A j \in Breaks(t, i) : j <= s
      BY <1>1, <2>2
    <3>2. \A j \in Breaks(t, i) : j \in 0 .. n /\ g[j] \in Nat /\ g[j] <= g[s]
      <4> TAKE j \in Breaks(t, i)
      <4>1. j \in 0 .. n /\ s \in 0 .. n /\ (j < s \/ j = s)
        BY <1>0, <3>1 DEF Upto
      <4>2. g[j] \in Nat /\ g[s] \in Nat /\ (j < s => g[j] < g[s])
        BY <1>0, <4>1 DEF Rising
      <4> QED
        BY <4>1, <4>2
    <3>3. g[s] = At(t, s)
      BY <3>1, <3>2 DEF Ends
    <3>4. g[s] \in before /\ \A b \in before : b <= g[s] /\ b \in Nat
      BY <1>0, <1>5, <3>1, <3>2 DEF Image
    <3> DEFINE k0 == CHOOSE k \in before : \A b \in before : b <= k
    <3>5. k0 \in before /\ \A b \in before : b <= k0
      BY <3>4
    <3> HIDE DEF k0, g
    <3>6. k0 = g[s]
      BY <3>4, <3>5
    <3> QED
      BY <3>3, <3>4, <3>6 DEF k0
  <2> QED
    BY <2>1, <2>2
<1> HIDE DEF before, p, c
<1>9. Offset(c, p) = At(t, s) + (i - s)
  BY <1>3, <1>7, <1>8
<1> QED
  BY <1>2, <1>9 DEF c, p

-----------------------------------------------------------------------------
(* The bytes of an edited text are the edited bytes. *)
LEMMA Halves ==
  ASSUME NEW S, NEW a \in Seq(S), NEW b \in Seq(S)
  PROVE  /\ SubSeq(a \o b, 1, Len(a)) = a /\ Len(a) <= Len(a \o b)
         /\ SubSeq(a \o b, Len(a) + 1, Len(a \o b)) = b
  OBVIOUS

LEMMA BytesHalves ==
  ASSUME NEW t \in Content, NEW i \in 0 .. Len(t)
  PROVE  /\ At(t, i) <= Len(Bytes(t))
         /\ SubSeq(Bytes(t), 1, At(t, i)) = Bytes(SubSeq(t, 1, i))
         /\ SubSeq(Bytes(t), At(t, i) + 1, Len(Bytes(t))) = Bytes(SubSeq(t, i + 1, Len(t)))
<1>1. PICK a, b : a = SubSeq(t, 1, i) /\ b = SubSeq(t, i + 1, Len(t))
  OBVIOUS
<1>2. a \in Content /\ b \in Content /\ t = a \o b
  BY <1>1, PrefixIs DEF Content
<1>3. PICK p, q : p = Bytes(a) /\ q = Bytes(b)
  OBVIOUS
<1>4. p \in Seq(Char) /\ q \in Seq(Char) /\ Bytes(t) = p \o q
  BY <1>2, <1>3, BytesType, BytesConcat DEF Content
<1>5. At(t, i) = Len(p)
  BY <1>1, <1>3 DEF At
<1>6. SubSeq(p \o q, 1, Len(p)) = p /\ Len(p) <= Len(p \o q) /\ SubSeq(p \o q, Len(p) + 1, Len(p \o q)) = q
  BY <1>4, Halves
<1> QED
  BY <1>1, <1>3, <1>4, <1>5, <1>6

LEMMA EditedType ==
  ASSUME NEW t \in Content, NEW new \in Content, NEW i \in 0 .. Len(t), NEW j \in 0 .. Len(t)
  PROVE  Edited(t, i, j, new) \in Content
<1>1. PICK a, b : a = SubSeq(t, 1, i) /\ b = SubSeq(t, j + 1, Len(t))
  OBVIOUS
<1>2. a \in Seq(Char) /\ b \in Seq(Char) /\ new \in Seq(Char)
  BY <1>1, PrefixIs DEF Content
<1>3. a \o new \o b \in Seq(Char)
  BY <1>2, ConcatProperties
<1> QED
  BY <1>1, <1>3 DEF Edited, Content

LEMMA EditedBytes ==
  ASSUME NEW t \in Content, NEW new \in Content, NEW i \in 0 .. Len(t), NEW j \in 0 .. Len(t),
         i <= j, Straight(t, i), Straight(t, j), NEW e,
         e.start = Position(t, i), e.end = Position(t, j), e.text = Bytes(new)
  PROVE  Applied(Bytes(t), e) = Bytes(Edited(t, i, j, new))
<1>1. PICK a, b, c : a = SubSeq(t, 1, i) /\ b = SubSeq(t, j + 1, Len(t)) /\ c = Bytes(t)
  OBVIOUS
<1>2. a \in Content /\ b \in Content
  BY <1>1, PrefixIs DEF Content
<1>3. Offset(c, e.start) = At(t, i) /\ Offset(c, e.end) = At(t, j) /\ e.start # NULL
  BY <1>1, OffsetOfPosition, PositionType, SessionAssumption
<1>4. At(t, i) <= At(t, j) /\ At(t, j) <= Len(c) /\ Len(c) \in Nat /\ At(t, i) \in Nat /\ At(t, j) \in Nat
  <2>1. At(t, i) \in Nat /\ At(t, j) \in Nat /\ At(t, j) >= At(t, i) + (j - i)
    BY AtStep, AtBetween
  <2>2. At(t, j) <= Len(c) /\ Len(c) \in Nat
    BY <1>1, BytesHalves, BytesType DEF Content
  <2> QED
    BY <2>1, <2>2
<1>5. Applied(c, e) = SubSeq(c, 1, At(t, i)) \o e.text \o SubSeq(c, At(t, j) + 1, Len(c))
  <2>1. PICK p, q : p = At(t, i) /\ q = At(t, j)
    OBVIOUS
  <2>2. p <= Len(c) /\ q <= Len(c) /\ ~ (q < p)
    BY <1>4, <2>1
  <2> QED
    BY <1>3, <2>1, <2>2 DEF Applied
<1>6. SubSeq(c, 1, At(t, i)) = Bytes(a) /\ SubSeq(c, At(t, j) + 1, Len(c)) = Bytes(b)
  BY <1>1, BytesHalves
<1>7. Bytes(a \o new \o b) = Bytes(a) \o Bytes(new) \o Bytes(b)
  <2>1. a \o new \in Content
    BY <1>2, ConcatProperties DEF Content
  <2>2. Bytes(a \o new \o b) = Bytes(a \o new) \o Bytes(b)
    BY <1>2, <2>1, BytesConcat
  <2>3. Bytes(a \o new) = Bytes(a) \o Bytes(new)
    BY <1>2, BytesConcat
  <2> QED
    BY <2>2, <2>3
<1> QED
  BY <1>1, <1>5, <1>6, <1>7 DEF Edited

-----------------------------------------------------------------------------
(* What the variables hold. *)
Edits == [uri : Uri, start : TextPlaces, end : TextPlaces, text : Content]
         \cup [uri : Uri, start : {NULL}, text : Content]

Asking == {"hover", "unknown", "shutdown"}

Messages ==
  [kind : {"didOpen"}, uri : Uri, text : Content, version : Nat]
  \cup [kind : {"didChange"}, uri : Uri, version : Nat, changes : Seq(Edits)]
  \cup [kind : {"didClose"}, uri : Uri]
  \cup [kind : Asking, id : Nat]
  \cup [kind : {"exit", "no JSON", "no object", "eof"}]

Stores == [Uri -> Documents \cup {NULL}]

Types ==
  /\ text \in [Uri -> Content \cup {NULL}] /\ version \in [Uri -> Nat]
  /\ batch \in Seq(Edits)
  /\ \A i \in 1 .. Len(batch) : batch[i].uri = batch[1].uri /\ text[batch[1].uri] # NULL
  /\ asked \in Nat /\ answered \in Seq(Nat \cup {NULL})
  /\ pipe \in Seq(Messages)
  /\ docs \in Stores

LEMMA EditIs ==
  /\ \A e \in Edits : IsEdit(e)
  /\ \A es \in Seq(Edits) : IsEdits(es)
<1>1. \A e \in Edits : IsEdit(e)
  BY DEF Edits, IsEdit
<1>2. \A es \in Seq(Edits) : IsEdits(es)
  <2> TAKE es \in Seq(Edits)
  <2>1. DOMAIN es = 1 .. Len(es) /\ Len(es) \in Nat /\ \A i \in 1 .. Len(es) : es[i] \in Edits
    OBVIOUS
  <2> QED
    BY <1>1, <2>1 DEF IsEdits
<1> QED
  BY <1>1, <1>2

LEMMA ChangedType ==
  ASSUME NEW c \in Content, NEW es, IsEdits(es)
  PROVE  Changed(c, es) \in Content
<1>1. PICK R : Changes(R, c, es) /\ Changed(c, es) = R[Len(es)]
  BY ChangedUnrolls
<1> DEFINE C == {i \in 0 .. Len(es) : R[i] \notin Content}
<1> SUFFICES ASSUME C # {} PROVE FALSE
  BY <1>1 DEF IsEdits
<1>2. PICK i \in C : \A k \in C : i <= k
  <2>1. C \subseteq Nat
    OBVIOUS
  <2> HIDE DEF C
  <2> QED
    BY <2>1, LeastElement
<1>3. i # 0
  BY <1>1 DEF Changes
<1>4. i \in 1 .. Len(es) /\ i - 1 \in 0 .. Len(es) /\ ~ (i <= i - 1)
  BY <1>3 DEF IsEdits
<1>5. R[i - 1] \in Content
  BY <1>2, <1>4
<1>6. R[i] = Applied(R[i - 1], es[i]) /\ IsEdit(es[i])
  BY <1>1, <1>4 DEF Changes, IsEdits
<1> QED
  BY <1>5, <1>6, AppliedType

LEMMA AnalyzedType ==
  ASSUME NEW c \in Content, NEW v \in Nat
  PROVE  /\ Analyzed(c, v) \in Documents /\ Analyzed(c, v) # NULL
         /\ Analyzed(c, v).content = c /\ Analyzed(c, v).version = v
         /\ Analyzed(c, v).diagnostics = Analyzed(c, 0).diagnostics
<1>1. Symbols(c) \in Content
  BY DEF Symbols, Content
<1>2. (IF ~Parses(c) THEN {"Parser error"} ELSE IF "type" \in ToSet(c) THEN {"Type error"} ELSE {}) \in SUBSET {"Parser error", "Type error"}
  OBVIOUS
<1>3. Analyzed(c, v) \in Documents
  BY <1>1, <1>2, Zenon DEF Analyzed, Documents, Content
<1>4. Analyzed(c, v) # NULL
  BY <1>3, SessionAssumption
<1>5. /\ Analyzed(c, v).content = c /\ Analyzed(c, v).version = v
      /\ Analyzed(c, v).diagnostics = Analyzed(c, 0).diagnostics
  BY DEF Analyzed
<1> QED
  BY <1>3, <1>4, <1>5

(* What a message makes of the documents of the server. *)
After(s, m) ==
  IF m.kind = "didOpen" THEN [s EXCEPT ![m.uri] = Analyzed(m.text, m.version)]
  ELSE IF m.kind = "didChange"
  THEN IF s[m.uri] = NULL THEN s
       ELSE [s EXCEPT ![m.uri] = Analyzed(Changed(s[m.uri].content, m.changes), m.version)]
  ELSE IF m.kind = "didClose" THEN [s EXCEPT ![m.uri] = NULL] ELSE s

LEMMA KindOf ==
  ASSUME NEW m \in Messages
  PROVE  /\ m.kind = "didOpen" => m.uri \in Uri /\ m.text \in Content /\ m.version \in Nat
         /\ m.kind = "didChange" => m.uri \in Uri /\ m.version \in Nat /\ m.changes \in Seq(Edits)
         /\ m.kind = "didClose" => m.uri \in Uri
         /\ m.kind \in Asking => m.id \in Nat
         /\ m.kind \in {"didOpen", "didChange", "didClose", "exit", "no JSON", "no object", "eof"} \cup Asking
  BY DEF Messages, Asking

LEMMA AfterType ==
  ASSUME NEW s \in Stores, NEW m \in Messages
  PROVE  After(s, m) \in Stores
<1>1. CASE m.kind = "didOpen"
  <2>1. Analyzed(m.text, m.version) \in Documents /\ m.uri \in Uri
    BY <1>1, KindOf, AnalyzedType
  <2> QED
    BY <1>1, <2>1 DEF After, Stores
<1>2. CASE m.kind = "didChange" /\ s[m.uri] # NULL
  <2>1. m.uri \in Uri /\ m.version \in Nat /\ m.changes \in Seq(Edits)
    BY <1>2, KindOf
  <2>2. s[m.uri] \in Documents
    BY <1>2, <2>1 DEF Stores
  <2>3. s[m.uri].content \in Content
    BY <2>2 DEF Documents, Content
  <2>4. Analyzed(Changed(s[m.uri].content, m.changes), m.version) \in Documents
    BY <2>1, <2>3, EditIs, ChangedType, AnalyzedType
  <2> QED
    BY <1>2, <2>1, <2>4 DEF After, Stores
<1>3. CASE m.kind = "didClose"
  BY <1>3, KindOf DEF After, Stores
<1>4. CASE m.kind = "didChange" /\ s[m.uri] = NULL
  BY <1>4 DEF After
<1>5. CASE m.kind # "didOpen" /\ m.kind # "didChange" /\ m.kind # "didClose"
  BY <1>5 DEF After
<1> QED
  BY <1>1, <1>2, <1>3, <1>4, <1>5

-----------------------------------------------------------------------------
(* The steps of the server.  Each takes a message; what is shown and       *)
(* indexed stays what the documents say.                                   *)
EntryOf(d) == IF d = NULL THEN NULL ELSE Symbols(d.content)
ShownOf(d) == IF d = NULL THEN {} ELSE Analyzed(d.content, 0).diagnostics

Current ==
  /\ index = [u \in Uri |-> EntryOf(docs[u])]
  /\ shown = [u \in Uri |-> ShownOf(docs[u])]

AnswerTo(m) ==
  IF m.kind \in Asking THEN Append(answered, m.id)
  ELSE IF m.kind = "no JSON" THEN Append(answered, NULL) ELSE answered

Takes ==
  /\ ended = NULL /\ pipe # << >> /\ pipe' = Tail(pipe) /\ UNCHANGED editor
  /\ Head(pipe) \in Messages
  /\ docs' = After(docs, Head(pipe)) \/ (docs' = docs /\ ended' # NULL)
  /\ answered' = AnswerTo(Head(pipe))
  /\ Current'

LEMMA StoreIs ==
  ASSUME Types, Current, NEW u \in Uri, NEW c \in Content, NEW v \in Nat, Store(u, c, v)
  PROVE  /\ docs' = [docs EXCEPT ![u] = Analyzed(c, v)] \/ (docs' = docs /\ ended' # NULL)
         /\ Current'
<1>1. CASE ~ Lexes(c)
  BY <1>1, SessionAssumption DEF Store, Current
<1>2. CASE Lexes(c)
  <2>1. PICK a : a = Analyzed(c, v)
    OBVIOUS
  <2>2. /\ docs' = [docs EXCEPT ![u] = a]
        /\ index' = [index EXCEPT ![u] = Symbols(c)]
        /\ shown' = [shown EXCEPT ![u] = Diagnostics(docs'[u])]
    BY <1>2, <2>1 DEF Store
  <2>3. a # NULL /\ a.content = c /\ a.diagnostics = Analyzed(c, 0).diagnostics
    BY <2>1, AnalyzedType
  <2>4. docs \in [Uri -> Documents \cup {NULL}]
    BY DEF Types, Stores
  <2>5. docs'[u] = a /\ \A w \in Uri : w # u => docs'[w] = docs[w]
    BY <2>2, <2>4
  <2>6. EntryOf(a) = Symbols(c) /\ ShownOf(a) = Diagnostics(a)
    BY <2>3 DEF EntryOf, ShownOf, Diagnostics
  <2>7. index' = [w \in Uri |-> EntryOf(docs'[w])]
    BY <2>2, <2>5, <2>6 DEF Current
  <2>8. shown' = [w \in Uri |-> ShownOf(docs'[w])]
    BY <2>2, <2>5, <2>6 DEF Current
  <2> QED
    BY <2>1, <2>2, <2>7, <2>8 DEF Current
<1> QED
  BY <1>1, <1>2

LEMMA Handled ==
  ASSUME Types, Current, HandleMessage
  PROVE  Takes
<1>0. ASSUME NEW kinds, Receive(kinds)
      PROVE  /\ ended = NULL /\ pipe # << >> /\ pipe' = Tail(pipe) /\ Head(pipe) \in Messages
             /\ Head(pipe).kind \in kinds
  <2>1. ended = NULL /\ pipe # << >> /\ pipe' = Tail(pipe) /\ Head(pipe).kind \in kinds
    BY <1>0 DEF Receive
  <2>2. pipe \in Seq(Messages)
    BY DEF Types
  <2> QED
    BY <2>1, <2>2, HeadTailProperties
<1> DEFINE m == Head(pipe)
<1>1. CASE DidOpen
  <2>1. Receive({"didOpen"}) /\ Store(m.uri, m.text, m.version) /\ UNCHANGED <<editor, shutdown_, answered>>
    BY <1>1 DEF DidOpen, Msg
  <2>2. /\ ended = NULL /\ pipe # << >> /\ pipe' = Tail(pipe) /\ m \in Messages /\ m.kind = "didOpen"
    BY <1>0, <2>1
  <2>3. m.uri \in Uri /\ m.text \in Content /\ m.version \in Nat
    BY <2>2, KindOf
  <2> HIDE DEF m
  <2>4. /\ docs' = [docs EXCEPT ![m.uri] = Analyzed(m.text, m.version)] \/ (docs' = docs /\ ended' # NULL)
        /\ Current'
    BY <2>1, <2>3, StoreIs
  <2>5. answered' = AnswerTo(m) /\ UNCHANGED editor
    BY <2>1, <2>2 DEF AnswerTo, Asking
  <2>6. docs' = After(docs, m) \/ (docs' = docs /\ ended' # NULL)
    BY <2>2, <2>4 DEF After
  <2> QED
    BY <2>2, <2>4, <2>5, <2>6 DEF Takes, m
<1>2. CASE DidChange
  <2>1. Receive({"didChange"}) /\ UNCHANGED <<editor, shutdown_, answered>>
    BY <1>2 DEF DidChange
  <2>2. /\ ended = NULL /\ pipe # << >> /\ pipe' = Tail(pipe) /\ m \in Messages /\ m.kind = "didChange"
    BY <1>0, <2>1
  <2>3. m.uri \in Uri /\ m.changes \in Seq(Edits) /\ m.version \in Nat
    BY <2>2, KindOf
  <2>4. answered' = AnswerTo(m) /\ UNCHANGED editor
    BY <2>1, <2>2 DEF AnswerTo, Asking
  <2>5. CASE docs[m.uri] = NULL
    <3>1. UNCHANGED <<docs, index, shown>>
      BY <1>2, <2>5 DEF DidChange, Msg
    <3> HIDE DEF m
    <3>2. Current'
      BY <3>1 DEF Current
    <3>3. docs' = After(docs, m)
      BY <2>2, <2>5, <3>1 DEF After
    <3> QED
      BY <2>2, <2>4, <3>2, <3>3 DEF Takes, m
  <2>6. CASE docs[m.uri] # NULL
    <3>1. Store(m.uri, Changed(docs[m.uri].content, m.changes), m.version)
      BY <1>2, <2>6 DEF DidChange, Msg
    <3> HIDE DEF m
    <3>2. docs[m.uri] \in Documents
      BY <2>3, <2>6 DEF Types, Stores
    <3>3. docs[m.uri].content \in Content
      BY <3>2 DEF Documents, Content
    <3>4. Changed(docs[m.uri].content, m.changes) \in Content
      BY <2>3, <3>3, EditIs, ChangedType
    <3>5. /\ docs' = [docs EXCEPT ![m.uri] = Analyzed(Changed(docs[m.uri].content, m.changes), m.version)]
             \/ (docs' = docs /\ ended' # NULL)
          /\ Current'
      BY <2>3, <3>1, <3>4, StoreIs
    <3>6. docs' = After(docs, m) \/ (docs' = docs /\ ended' # NULL)
      BY <2>2, <2>6, <3>5 DEF After
    <3> QED
      BY <2>2, <2>4, <3>5, <3>6 DEF Takes, m
  <2> QED
    BY <2>5, <2>6
<1>3. CASE DidClose
  <2>1. /\ Receive({"didClose"}) /\ UNCHANGED <<editor, shutdown_, answered>>
        /\ docs' = [docs EXCEPT ![m.uri] = NULL]
        /\ index' = [index EXCEPT ![m.uri] = NULL]
        /\ shown' = [shown EXCEPT ![m.uri] = {}]
    BY <1>3 DEF DidClose, Msg, Removed
  <2>2. /\ ended = NULL /\ pipe # << >> /\ pipe' = Tail(pipe) /\ m \in Messages /\ m.kind = "didClose"
    BY <1>0, <2>1
  <2>3. m.uri \in Uri
    BY <2>2, KindOf
  <2> HIDE DEF m
  <2>4. answered' = AnswerTo(m) /\ UNCHANGED editor
    BY <2>1, <2>2 DEF AnswerTo, Asking
  <2>5. docs \in [Uri -> Documents \cup {NULL}]
    BY DEF Types, Stores
  <2>6. docs'[m.uri] = NULL /\ \A w \in Uri : w # m.uri => docs'[w] = docs[w]
    BY <2>1, <2>3, <2>5
  <2>7. EntryOf(NULL) = NULL /\ ShownOf(NULL) = {}
    BY DEF EntryOf, ShownOf
  <2>8. Current'
    BY <2>1, <2>3, <2>6, <2>7 DEF Current
  <2>9. docs' = After(docs, m)
    BY <2>1, <2>2 DEF After
  <2> QED
    BY <2>2, <2>4, <2>8, <2>9 DEF Takes, m
<1>4. ASSUME NEW kinds, Receive(kinds), UNCHANGED <<editor, docs, index, shown>>,
             kinds \cap {"didOpen", "didChange", "didClose"} = {}, answered' = AnswerTo(m)
      PROVE  Takes
  <2>1. /\ ended = NULL /\ pipe # << >> /\ pipe' = Tail(pipe) /\ m \in Messages
        /\ m.kind # "didOpen" /\ m.kind # "didChange" /\ m.kind # "didClose"
    BY <1>0, <1>4
  <2> HIDE DEF m
  <2>2. Current' /\ docs' = After(docs, m)
    BY <1>4, <2>1 DEF Current, After
  <2> QED
    BY <1>4, <2>1, <2>2 DEF Takes, m
<1>5. CASE Answer
  <2>1. /\ Receive({"hover", "unknown", "shutdown"}) /\ UNCHANGED <<editor, docs, index, shown>>
        /\ answered' = Append(answered, m.id)
    BY <1>5 DEF Answer, Msg
  <2>2. m.kind \in {"hover", "unknown", "shutdown"}
    BY <1>0, <2>1
  <2>3. answered' = AnswerTo(m)
    BY <2>1, <2>2 DEF AnswerTo, Asking
  <2> QED
    BY <1>4, <2>1, <2>3
<1>6. CASE Exit
  <2>1. Receive({"exit"}) /\ UNCHANGED <<editor, docs, index, shown, answered>>
    BY <1>6 DEF Exit
  <2>2. m.kind = "exit"
    BY <1>0, <2>1
  <2>3. answered' = AnswerTo(m)
    BY <2>1, <2>2 DEF AnswerTo, Asking
  <2> QED
    BY <1>4, <2>1, <2>3
<1>7. CASE Malformed
  <2>1. /\ Receive({"no JSON", "no object"}) /\ UNCHANGED <<editor, docs, index, shown>>
        /\ answered' = IF m.kind = "no JSON" THEN Append(answered, NULL) ELSE answered
    BY <1>7 DEF Malformed, Msg
  <2>2. m.kind \in {"no JSON", "no object"}
    BY <1>0, <2>1
  <2>3. answered' = AnswerTo(m)
    BY <2>1, <2>2 DEF AnswerTo, Asking
  <2> QED
    BY <1>4, <2>1, <2>3
<1>8. CASE EndOfInput
  <2>1. Receive({"eof"}) /\ UNCHANGED <<editor, docs, index, shown, answered>>
    BY <1>8 DEF EndOfInput
  <2>2. m.kind = "eof"
    BY <1>0, <2>1
  <2>3. answered' = AnswerTo(m)
    BY <2>1, <2>2 DEF AnswerTo, Asking
  <2> QED
    BY <1>4, <2>1, <2>3
<1> QED
  BY <1>1, <1>2, <1>3, <1>5, <1>6, <1>7, <1>8 DEF HandleMessage

(* The editor's part of the types. *)
EditorTypes ==
  /\ text \in [Uri -> Content \cup {NULL}] /\ version \in [Uri -> Nat]
  /\ batch \in Seq(Edits)
  /\ \A i \in 1 .. Len(batch) : batch[i].uri = batch[1].uri /\ text[batch[1].uri] # NULL
  /\ asked \in Nat

LEMMA TypesTaken ==
  ASSUME Types, Takes
  PROVE  Types'
<1>1. pipe' \in Seq(Messages)
  BY HeadTailProperties DEF Types, Takes
<1>2. docs' \in Stores
  BY AfterType DEF Types, Takes
<1>3. answered' \in Seq(Nat \cup {NULL})
  <2>1. Head(pipe).kind \in Asking => Head(pipe).id \in Nat
    BY KindOf DEF Takes
  <2>2. \A x \in Nat \cup {NULL} : Append(answered, x) \in Seq(Nat \cup {NULL})
    BY AppendProperties DEF Types
  <2> QED
    BY <2>1, <2>2 DEF Takes, AnswerTo, Types
<1>4. UNCHANGED <<text, version, batch, asked>>
  BY DEF Takes, editor
<1> QED
  BY <1>1, <1>2, <1>3, <1>4 DEF Types

(* The steps of the editor: it sends a message, or has an edit more. *)
Sends(m) == m \in Messages /\ pipe' = Append(pipe, m) /\ UNCHANGED server

LEMMA TypesSent ==
  ASSUME Types, Current, NEW m, Sends(m), EditorTypes'
  PROVE  Types' /\ Current'
<1>1. pipe' \in Seq(Messages)
  BY AppendProperties DEF Types, Sends
<1>2. UNCHANGED <<docs, index, shown, answered>>
  BY DEF Sends, server
<1> QED
  BY <1>1, <1>2 DEF Types, Current, EditorTypes

LEMMA WrittenIs ==
  /\ \A t \in Written \cup Inserted : t \in Content /\ t # NULL
  /\ \A t \in Content : t # NULL
<1>1. ASSUME NEW t \in Written \cup Inserted PROVE t \in Content
  <2>1. ToSet(t) \subseteq Char
    BY DEF Char
  <2>2. t \in Seq(ToSet(t))
    BY SessionAssumption
  <2> QED
    BY <2>1, <2>2, SeqMonotonic DEF Content
<1> QED
  BY <1>1, SessionAssumption DEF Content

LEMMA Opens ==
  ASSUME Types, NEW u \in Uri, NEW t \in Written, EditorOpens(u, t)
  PROVE  /\ Sends([kind |-> "didOpen", uri |-> u, text |-> Bytes(t), version |-> version[u] + 1])
         /\ EditorTypes'
<1>1. /\ pipe' = Append(pipe, [kind |-> "didOpen", uri |-> u, text |-> Bytes(t), version |-> version[u] + 1])
      /\ text' = [text EXCEPT ![u] = t] /\ version' = [version EXCEPT ![u] = @ + 1]
      /\ UNCHANGED <<batch, asked, server>> /\ batch = << >>
  BY DEF EditorOpens, Send
<1>2. t \in Content /\ version[u] + 1 \in Nat
  BY WrittenIs DEF Types
<1>3. [kind |-> "didOpen", uri |-> u, text |-> Bytes(t), version |-> version[u] + 1] \in Messages
  BY <1>2, BytesType DEF Messages
<1>4. EditorTypes'
  BY <1>1, <1>2 DEF EditorTypes, Types
<1> QED
  BY <1>1, <1>3, <1>4 DEF Sends

LEMMA SendsBatch ==
  ASSUME Types, EditorSends
  PROVE  /\ Sends([kind |-> "didChange", uri |-> batch[1].uri,
                   version |-> version[batch[1].uri] + 1, changes |-> batch])
         /\ batch[1].uri \in Uri /\ text[batch[1].uri] # NULL
         /\ EditorTypes'
<1>1. PICK u : u = batch[1].uri
  OBVIOUS
<1>2. /\ pipe' = Append(pipe, [kind |-> "didChange", uri |-> u, version |-> version[u] + 1, changes |-> batch])
      /\ version' = [version EXCEPT ![u] = @ + 1] /\ batch' = << >>
      /\ UNCHANGED <<text, asked, server>> /\ batch # << >>
  BY <1>1 DEF EditorSends, Send
<1>3. u \in Uri /\ text[u] # NULL
  <2>1. 1 \in 1 .. Len(batch) /\ batch[1] \in Edits
    BY <1>2 DEF Types
  <2> QED
    BY <1>1, <2>1, EditIs DEF Types, IsEdit
<1>4. [kind |-> "didChange", uri |-> u, version |-> version[u] + 1, changes |-> batch] \in Messages
  <2>1. version[u] + 1 \in Nat /\ batch \in Seq(Edits)
    BY <1>3 DEF Types
  <2> QED
    BY <1>3, <2>1 DEF Messages
<1>5. EditorTypes'
  BY <1>2, <1>3 DEF EditorTypes, Types
<1> QED
  BY <1>1, <1>2, <1>3, <1>4, <1>5 DEF Sends

LEMMA Closes ==
  ASSUME Types, NEW u \in Uri, EditorCloses(u)
  PROVE  Sends([kind |-> "didClose", uri |-> u]) /\ EditorTypes'
<1>1. /\ pipe' = Append(pipe, [kind |-> "didClose", uri |-> u])
      /\ text' = [text EXCEPT ![u] = NULL]
      /\ UNCHANGED <<version, batch, asked, server>> /\ batch = << >>
  BY DEF EditorCloses, Send
<1>2. [kind |-> "didClose", uri |-> u] \in Messages
  BY DEF Messages
<1>3. EditorTypes'
  BY <1>1 DEF EditorTypes, Types
<1> QED
  BY <1>1, <1>2, <1>3 DEF Sends

LEMMA Asks ==
  ASSUME Types, NEW kind \in {"hover", "unknown", "shutdown"}, EditorAsks(kind)
  PROVE  Sends([kind |-> kind, id |-> asked + 1]) /\ EditorTypes'
<1>1. /\ pipe' = Append(pipe, [kind |-> kind, id |-> asked + 1])
      /\ asked' = asked + 1 /\ UNCHANGED <<text, version, batch, server>>
  BY DEF EditorAsks, Send
<1>2. [kind |-> kind, id |-> asked + 1] \in Messages
  <2>1. asked + 1 \in Nat /\ kind \in Asking
    BY DEF Asking, Types
  <2> QED
    BY <2>1, Zenon DEF Messages
<1>3. EditorTypes'
  BY <1>1 DEF EditorTypes, Types
<1> QED
  BY <1>1, <1>2, <1>3 DEF Sends

LEMMA Says ==
  ASSUME Types, NEW kind \in {"exit", "no JSON", "no object", "eof"}, EditorSays(kind)
  PROVE  Sends([kind |-> kind]) /\ EditorTypes'
<1>1. pipe' = Append(pipe, [kind |-> kind]) /\ UNCHANGED <<text, version, batch, asked, server>>
  BY DEF EditorSays, Send
<1>2. [kind |-> kind] \in Messages
  BY DEF Messages
<1>3. EditorTypes'
  BY <1>1 DEF EditorTypes, Types
<1> QED
  BY <1>1, <1>2, <1>3 DEF Sends

(* An edit more, of a document whose text becomes t. *)
Adds(u, e, t) ==
  /\ e \in Edits /\ e.uri = u /\ u \in Uri /\ text[u] \in Content /\ t \in Content
  /\ \A i \in 1 .. Len(batch) : batch[i].uri = u
  /\ batch' = Append(batch, e) /\ text' = [text EXCEPT ![u] = t]
  /\ UNCHANGED <<version, asked, pipe, server>>
  /\ \A w \in Uri : w # u /\ w \notin skewed' => w \notin skewed
  /\ u \notin skewed' => \A c \in Content : (u \notin skewed => c = Bytes(text[u])) => Applied(c, e) = Bytes(t)

LEMMA AddsEdit ==
  ASSUME Types, NEW u \in Uri, NEW i \in 0 .. MaxText, NEW j \in 0 .. MaxText, NEW new \in Inserted,
         EditorEdits(u, i, j, new)
  PROVE  \E e, t : Adds(u, e, t)
<1>1. PICK t : t = text[u]
  OBVIOUS
<1>2. PICK e : e = [uri |-> u, start |-> Position(t, i), end |-> Position(t, j), text |-> Bytes(new)]
  OBVIOUS
<1>3. PICK r : r = Edited(t, i, j, new)
  OBVIOUS
<1>4. /\ t # NULL /\ (\A d \in ToSet(batch) : d.uri = u) /\ i <= j /\ j <= Len(t)
      /\ batch' = Append(batch, e) /\ text' = [text EXCEPT ![u] = r]
      /\ skewed' = IF \E k \in {i, j} : "wide" \in ToSet(SubSeq(t, LineStart(t, k) + 1, k))
                   THEN skewed \cup {u} ELSE skewed
      /\ UNCHANGED <<version, asked, pipe, server>>
  BY <1>1, <1>2, <1>3 DEF EditorEdits
<1>5. t \in Content /\ new \in Content /\ i \in 0 .. Len(t) /\ j \in 0 .. Len(t)
  <2>1. t \in Content /\ new \in Content
    BY <1>1, <1>4, WrittenIs DEF Types
  <2> QED
    BY <1>4, <2>1 DEF Content
<1>6. e \in Edits /\ e.uri = u
  <2>1. Position(t, i) \in TextPlaces /\ Position(t, j) \in TextPlaces /\ Bytes(new) \in Content
    BY <1>5, PositionType, BytesType
  <2> QED
    BY <1>2, <2>1 DEF Edits
<1>7. r \in Content
  BY <1>3, <1>5, EditedType
<1>8. \A k \in 1 .. Len(batch) : batch[k].uri = u
  BY <1>4 DEF ToSet, Types
<1>9. ASSUME u \notin skewed' PROVE u \notin skewed /\ Straight(t, i) /\ Straight(t, j)
  <2>1. ~ \E k \in {i, j} : "wide" \in ToSet(SubSeq(t, LineStart(t, k) + 1, k))
    BY <1>4, <1>9
  <2> QED
    BY <1>4, <1>9, <2>1 DEF Straight
<1>10. ASSUME u \notin skewed', NEW c \in Content, u \notin skewed => c = Bytes(text[u])
       PROVE  Applied(c, e) = Bytes(r)
  <2>1. c = Bytes(t) /\ Straight(t, i) /\ Straight(t, j)
    BY <1>1, <1>9, <1>10
  <2>2. e.start = Position(t, i) /\ e.end = Position(t, j) /\ e.text = Bytes(new)
    BY <1>2
  <2>3. Applied(Bytes(t), e) = Bytes(Edited(t, i, j, new))
    BY <1>4, <1>5, <2>1, <2>2, EditedBytes
  <2> QED
    BY <1>3, <2>1, <2>3
<1>11. \A w \in Uri : w # u /\ w \notin skewed' => w \notin skewed
  BY <1>4
<1> QED
  BY <1>1, <1>4, <1>5, <1>6, <1>7, <1>8, <1>10, <1>11, Zenon DEF Adds

LEMMA AddsText ==
  ASSUME Types, NEW u \in Uri, NEW new \in Inserted, EditorReplaces(u, new)
  PROVE  \E e, t : Adds(u, e, t)
<1>1. PICK e : e = [uri |-> u, start |-> NULL, text |-> Bytes(new)]
  OBVIOUS
<1>2. /\ text[u] # NULL /\ (\A d \in ToSet(batch) : d.uri = u)
      /\ batch' = Append(batch, e) /\ text' = [text EXCEPT ![u] = new] /\ skewed' = skewed \ {u}
      /\ UNCHANGED <<version, asked, pipe, server>>
  BY <1>1 DEF EditorReplaces
<1>3. text[u] \in Content /\ new \in Content /\ Bytes(new) \in Content
  BY <1>2, WrittenIs, BytesType DEF Types
<1>4. e \in Edits /\ e.uri = u
  BY <1>1, <1>3 DEF Edits
<1>5. \A k \in 1 .. Len(batch) : batch[k].uri = u
  BY <1>2 DEF ToSet, Types
<1>6. \A c : Applied(c, e) = Bytes(new)
  BY <1>1 DEF Applied
<1>7. \A w \in Uri : w # u /\ w \notin skewed' => w \notin skewed
  BY <1>2
<1> QED
  BY <1>2, <1>3, <1>4, <1>5, <1>6, <1>7, Zenon DEF Adds

LEMMA TypesAdded ==
  ASSUME Types, Current, NEW u, NEW e, NEW t, Adds(u, e, t)
  PROVE  Types' /\ Current'
<1>1. UNCHANGED <<version, asked, pipe, docs, index, shown, answered>>
  BY DEF Adds, server
<1>2. PICK b : b = Append(batch, e)
  OBVIOUS
<1>3. /\ batch \in Seq(Edits) /\ e \in Edits /\ e.uri = u /\ u \in Uri /\ t \in Content
      /\ \A i \in 1 .. Len(batch) : batch[i].uri = u
      /\ batch' = b /\ text' = [text EXCEPT ![u] = t] /\ text \in [Uri -> Content \cup {NULL}]
  BY <1>2 DEF Adds, Types
<1>4. /\ b \in Seq(Edits) /\ Len(b) = Len(batch) + 1 /\ Len(batch) \in Nat
      /\ \A i \in 1 .. Len(batch) : b[i] = batch[i]
      /\ b[Len(batch) + 1] = e
  BY <1>2, <1>3, AppendProperties
<1>5. \A i \in 1 .. Len(b) : b[i].uri = u
  <2> TAKE i \in 1 .. Len(b)
  <2>1. i \in 1 .. Len(batch) \/ i = Len(batch) + 1
    BY <1>4
  <2> QED
    BY <1>3, <1>4, <2>1
<1>6. 1 \in 1 .. Len(b)
  BY <1>4
<1>7. text'[u] = t /\ t # NULL /\ text' \in [Uri -> Content \cup {NULL}]
  BY <1>3, WrittenIs
<1>8. \A i \in 1 .. Len(batch') : batch'[i].uri = batch'[1].uri /\ text'[batch'[1].uri] # NULL
  BY <1>3, <1>5, <1>6, <1>7
<1> QED
  BY <1>1, <1>3, <1>4, <1>7, <1>8 DEF Types, Current

-----------------------------------------------------------------------------
(* The documents of the server, followed through the messages on their way,*)
(* end as those that the editor has, but for the edits it has not sent.    *)
Unsent(u) == IF batch # << >> /\ batch[1].uri = u THEN batch ELSE << >>

AgreeOn(d, u) ==
  IF text[u] = NULL THEN d = NULL
  ELSE /\ d # NULL /\ d.version = version[u]
       /\ u \notin skewed => Changed(d.content, Unsent(u)) = Bytes(text[u])

Agree(s) == \A u \in Uri : AgreeOn(s[u], u)

Traced(E, s, msgs) ==
  /\ E[0] = s /\ \A i \in 0 .. Len(msgs) : E[i] \in Stores
  /\ \A i \in 1 .. Len(msgs) : E[i] = After(E[i - 1], msgs[i])

Followed == \E E : Traced(E, docs, pipe) /\ Agree(E[Len(pipe)])

LEMMA FollowedTaken ==
  ASSUME Types, Takes, ended' = NULL, Followed
  PROVE  Followed'
<1>1. PICK E : Traced(E, docs, pipe) /\ Agree(E[Len(pipe)])
  BY DEF Followed
<1>2. PICK n : n = Len(pipe) - 1
  OBVIOUS
<1>3. /\ pipe # << >> /\ pipe \in Seq(Messages) /\ pipe' = Tail(pipe) /\ docs' = After(docs, Head(pipe))
  BY DEF Types, Takes
<1>4. /\ n \in Nat /\ Len(pipe) = n + 1 /\ Len(pipe') = n /\ Head(pipe) = pipe[1]
      /\ \A i \in 1 .. n : pipe'[i] = pipe[i + 1]
  <2>1. Len(pipe') = Len(pipe) - 1 /\ \A i \in 1 .. Len(pipe') : pipe'[i] = pipe[i + 1]
    BY <1>3, HeadTailProperties
  <2>2. Len(pipe) \in Nat \ {0} /\ Head(pipe) = pipe[1]
    BY <1>3, EmptySeq
  <2> QED
    BY <1>2, <2>1, <2>2
<1> DEFINE F == [i \in 0 .. n |-> E[i + 1]]
<1>5. \A i \in 0 .. n : i + 1 \in 1 .. Len(pipe) /\ i + 1 \in 0 .. Len(pipe)
  BY <1>4
<1>6. F[0] = docs'
  <2>1. 0 \in 0 .. n /\ 1 \in 1 .. Len(pipe) /\ 0 + 1 = 1 /\ 1 - 1 = 0
    BY <1>4
  <2>2. E[1] = After(E[0], pipe[1]) /\ E[0] = docs
    BY <1>1, <2>1 DEF Traced
  <2> QED
    BY <1>3, <1>4, <2>1, <2>2
<1>7. \A i \in 0 .. n : F[i] \in Stores
  BY <1>1, <1>5 DEF Traced
<1>8. ASSUME NEW i \in 1 .. n PROVE F[i] = After(F[i - 1], pipe'[i])
  <2>1. i \in 0 .. n /\ i - 1 \in 0 .. n /\ (i - 1) + 1 = i /\ (i + 1) - 1 = i /\ i + 1 \in 1 .. Len(pipe)
    BY <1>4
  <2>2. E[i + 1] = After(E[i], pipe[i + 1])
    BY <1>1, <2>1 DEF Traced
  <2> QED
    BY <1>4, <2>1, <2>2
<1>9. F[n] = E[Len(pipe)]
  BY <1>4
<1>10. PICK s : s = F[n] /\ Agree(s)
  BY <1>1, <1>9
<1>11. Agree(s)'
  <2>1. UNCHANGED <<text, version, batch, skewed>>
    BY DEF Takes, editor
  <2> QED
    BY <1>10, <2>1 DEF Agree, AgreeOn, Unsent
<1> HIDE DEF F
<1>12. Traced(F, docs', pipe')
  BY <1>4, <1>6, <1>7, <1>8 DEF Traced
<1>13. F[Len(pipe')] = s
  BY <1>4, <1>10
<1>14. Agree(F[Len(pipe)])'
  BY <1>11, <1>13
<1> QED
  BY <1>12, <1>14 DEF Followed

(* What the editor sends must make of documents that agree such as agree   *)
(* after it.                                                               *)
LEMMA FollowedSent ==
  ASSUME Types, NEW m, Sends(m), Followed,
         \A s \in Stores : Agree(s) => Agree(After(s, m))'
  PROVE  Followed'
<1>1. PICK E : Traced(E, docs, pipe) /\ Agree(E[Len(pipe)])
  BY DEF Followed
<1>2. PICK n : n = Len(pipe)
  OBVIOUS
<1>3. pipe \in Seq(Messages) /\ m \in Messages /\ pipe' = Append(pipe, m) /\ docs' = docs
  BY DEF Types, Sends, server
<1>4. /\ n \in Nat /\ Len(pipe') = n + 1 /\ pipe'[n + 1] = m
      /\ \A i \in 1 .. n : pipe'[i] = pipe[i]
  BY <1>2, <1>3, AppendProperties
<1> DEFINE F == [i \in 0 .. n + 1 |-> IF i \in 0 .. n THEN E[i] ELSE After(E[n], m)]
<1>5. E[n] \in Stores /\ Agree(E[n])
  BY <1>1, <1>2, <1>4 DEF Traced
<1>6. F[n + 1] = After(E[n], m) /\ \A i \in 0 .. n : F[i] = E[i]
  BY <1>4
<1> HIDE DEF F
<1>7. F[0] = docs'
  BY <1>1, <1>3, <1>4, <1>6 DEF Traced
<1>8. ASSUME NEW i \in 0 .. n + 1 PROVE F[i] \in Stores
  <2>1. CASE i \in 0 .. n
    BY <1>1, <1>2, <1>6, <2>1 DEF Traced
  <2>2. CASE i \notin 0 .. n
    <3>1. i = n + 1
      BY <1>4, <2>2
    <3> QED
      BY <1>3, <1>5, <1>6, <3>1, AfterType
  <2> QED
    BY <2>1, <2>2
<1>9. ASSUME NEW i \in 1 .. n + 1 PROVE F[i] = After(F[i - 1], pipe'[i])
  <2>1. CASE i \in 1 .. n
    <3>1. i \in 0 .. n /\ i - 1 \in 0 .. n
      BY <1>4, <2>1
    <3>2. E[i] = After(E[i - 1], pipe[i])
      BY <1>1, <1>2, <2>1 DEF Traced
    <3> QED
      BY <1>4, <1>6, <2>1, <3>1, <3>2
  <2>2. CASE i \notin 1 .. n
    <3>1. i = n + 1 /\ i - 1 = n /\ n \in 0 .. n
      BY <1>4, <2>2
    <3> QED
      BY <1>4, <1>6, <3>1
  <2> QED
    BY <2>1, <2>2
<1>10. Traced(F, docs', pipe')
  BY <1>4, <1>7, <1>8, <1>9 DEF Traced
<1>11. PICK s : s = E[n] /\ s \in Stores /\ Agree(s)
  BY <1>5
<1>12. Agree(After(s, m))'
  BY <1>11
<1>13. F[Len(pipe')] = After(s, m)
  BY <1>4, <1>6, <1>11
<1>14. Agree(F[Len(pipe)])'
  BY <1>12, <1>13
<1> QED
  BY <1>10, <1>14 DEF Followed

LEMMA FollowedKept ==
  ASSUME UNCHANGED <<docs, pipe>>, Followed, \A s \in Stores : Agree(s) => Agree(s)', Types
  PROVE  Followed'
<1>1. PICK E : Traced(E, docs, pipe) /\ Agree(E[Len(pipe)])
  BY DEF Followed
<1>2. E[Len(pipe)] \in Stores
  BY <1>1 DEF Traced, Types
<1>3. Traced(E, docs', pipe')
  BY <1>1
<1>4. PICK s : s = E[Len(pipe)] /\ s \in Stores /\ Agree(s)
  BY <1>1, <1>2
<1>5. Agree(s)' /\ E[Len(pipe')] = s
  BY <1>4
<1>6. Agree(E[Len(pipe)])'
  BY <1>5
<1> QED
  BY <1>3, <1>6 DEF Followed

LEMMA AgreeOpened ==
  ASSUME Types, NEW u \in Uri, NEW t \in Written, EditorOpens(u, t), NEW s \in Stores, Agree(s),
         NEW m, m = [kind |-> "didOpen", uri |-> u, text |-> Bytes(t), version |-> version[u] + 1]
  PROVE  Agree(After(s, m))'
<1>1. PICK v : v = version[u] + 1
  OBVIOUS
<1>2. m = [kind |-> "didOpen", uri |-> u, text |-> Bytes(t), version |-> v]
  BY <1>1
<1>3. PICK r : r = After(s, m)
  OBVIOUS
<1>4. /\ text' = [text EXCEPT ![u] = t] /\ version' = [version EXCEPT ![u] = @ + 1]
      /\ skewed' = skewed \ {u} /\ batch = << >> /\ batch' = << >>
      /\ text \in [Uri -> Content \cup {NULL}] /\ version \in [Uri -> Nat] /\ t \in Content /\ t # NULL
  BY WrittenIs DEF EditorOpens, Types
<1>5. r = [s EXCEPT ![u] = Analyzed(Bytes(t), v)]
  BY <1>2, <1>3 DEF After
<1>6. Bytes(t) \in Content /\ v \in Nat
  BY <1>1, <1>4, BytesType
<1>7. \A w \in Uri : Unsent(w) = << >> /\ Unsent(w)' = << >>
  BY <1>4 DEF Unsent
<1>8. AgreeOn(r[u], u)'
  <2>1. r[u] # NULL /\ r[u].content = Bytes(t) /\ r[u].version = v
    BY <1>5, <1>6, AnalyzedType DEF Stores
  <2>2. Changed(Bytes(t), << >>) = Bytes(t)
    BY <1>6, ChangedAppend
  <2> QED
    BY <1>1, <1>4, <1>7, <2>1, <2>2 DEF AgreeOn
<1>9. ASSUME NEW w \in Uri, w # u PROVE AgreeOn(r[w], w)'
  <2>1. r[w] = s[w]
    BY <1>5, <1>9 DEF Stores
  <2>2. text'[w] = text[w] /\ version'[w] = version[w] /\ (w \notin skewed' => w \notin skewed)
    BY <1>4, <1>9
  <2>3. AgreeOn(s[w], w)
    BY DEF Agree
  <2> QED
    BY <1>7, <2>1, <2>2, <2>3 DEF AgreeOn
<1> QED
  <2>1. Agree(r)'
    BY <1>8, <1>9 DEF Agree
  <2> QED
    BY <1>3, <2>1

LEMMA AgreeSent ==
  ASSUME Types, EditorSends, NEW s \in Stores, Agree(s),
         NEW m, m = [kind |-> "didChange", uri |-> batch[1].uri,
                     version |-> version[batch[1].uri] + 1, changes |-> batch]
  PROVE  Agree(After(s, m))'
<1>1. PICK u, b : u = batch[1].uri /\ b = batch
  OBVIOUS
<1>2. PICK v : v = version[u] + 1
  OBVIOUS
<1>3. m = [kind |-> "didChange", uri |-> u, version |-> v, changes |-> b]
  BY <1>1, <1>2
<1>4. PICK r : r = After(s, m)
  OBVIOUS
<1>5. u \in Uri /\ text[u] # NULL
  BY <1>1, SendsBatch
<1>6. /\ version' = [version EXCEPT ![u] = @ + 1] /\ batch' = << >> /\ batch # << >>
      /\ UNCHANGED <<text, skewed>> /\ b \in Seq(Edits) /\ version \in [Uri -> Nat]
  BY <1>1 DEF EditorSends, Types
<1>7. s[u] \in Documents /\ s[u] # NULL /\ AgreeOn(s[u], u) /\ s[u].content \in Content
  <2>1. AgreeOn(s[u], u)
    BY <1>5 DEF Agree
  <2>2. s[u] # NULL /\ s[u] \in Documents \cup {NULL}
    BY <1>5, <2>1 DEF AgreeOn, Stores
  <2> QED
    BY <2>1, <2>2 DEF Documents, Content
<1>8. PICK c : c = Changed(s[u].content, b)
  OBVIOUS
<1>9. c \in Content /\ v \in Nat
  BY <1>2, <1>5, <1>6, <1>7, <1>8, EditIs, ChangedType
<1>10. r = [s EXCEPT ![u] = Analyzed(c, v)]
  BY <1>3, <1>4, <1>7, <1>8 DEF After
<1>11. Unsent(u) = b /\ \A w \in Uri : Unsent(w)' = << >> /\ (w # u => Unsent(w) = << >>)
  BY <1>1, <1>6 DEF Unsent
<1>12. AgreeOn(r[u], u)'
  <2>1. r[u] # NULL /\ r[u].content = c /\ r[u].version = v
    BY <1>5, <1>9, <1>10, AnalyzedType DEF Stores
  <2>2. Changed(c, << >>) = c
    BY <1>9, ChangedAppend
  <2>3. u \notin skewed => c = Bytes(text[u])
    BY <1>5, <1>7, <1>8, <1>11 DEF AgreeOn
  <2> QED
    BY <1>2, <1>5, <1>6, <1>11, <2>1, <2>2, <2>3 DEF AgreeOn
<1>13. ASSUME NEW w \in Uri, w # u PROVE AgreeOn(r[w], w)'
  <2>1. r[w] = s[w]
    BY <1>10, <1>13 DEF Stores
  <2>2. version'[w] = version[w]
    BY <1>6, <1>13
  <2>3. AgreeOn(s[w], w)
    BY DEF Agree
  <2> QED
    BY <1>6, <1>11, <1>13, <2>1, <2>2, <2>3 DEF AgreeOn
<1> QED
  <2>1. Agree(r)'
    BY <1>12, <1>13 DEF Agree
  <2> QED
    BY <1>4, <2>1

LEMMA AgreeClosed ==
  ASSUME Types, NEW u \in Uri, EditorCloses(u), NEW s \in Stores, Agree(s),
         NEW m, m = [kind |-> "didClose", uri |-> u]
  PROVE  Agree(After(s, m))'
<1>1. PICK r : r = After(s, m)
  OBVIOUS
<1>2. r = [s EXCEPT ![u] = NULL]
  BY <1>1 DEF After
<1>3. /\ text' = [text EXCEPT ![u] = NULL] /\ text \in [Uri -> Content \cup {NULL}]
      /\ UNCHANGED <<version, batch, skewed>>
  BY DEF EditorCloses, Types
<1>4. AgreeOn(r[u], u)'
  BY <1>2, <1>3 DEF AgreeOn, Stores
<1>5. ASSUME NEW w \in Uri, w # u PROVE AgreeOn(r[w], w)'
  <2>1. r[w] = s[w] /\ text'[w] = text[w]
    BY <1>2, <1>3, <1>5 DEF Stores
  <2>2. AgreeOn(s[w], w)
    BY DEF Agree
  <2> QED
    BY <1>3, <2>1, <2>2 DEF AgreeOn, Unsent
<1> QED
  BY <1>1, <1>4, <1>5 DEF Agree

LEMMA AgreeAdded ==
  ASSUME Types, NEW u, NEW e, NEW t, Adds(u, e, t), NEW s \in Stores, Agree(s)
  PROVE  Agree(s)'
<1>1. /\ e \in Edits /\ e.uri = u /\ u \in Uri /\ text[u] \in Content /\ t \in Content
      /\ \A i \in 1 .. Len(batch) : batch[i].uri = u
      /\ batch' = Append(batch, e) /\ text' = [text EXCEPT ![u] = t]
      /\ UNCHANGED version
      /\ \A w \in Uri : w # u /\ w \notin skewed' => w \notin skewed
      /\ batch \in Seq(Edits) /\ text \in [Uri -> Content \cup {NULL}]
  BY DEF Adds, Types
<1>2. t # NULL /\ text[u] # NULL
  BY <1>1, WrittenIs
<1>3. PICK b, c : b = batch /\ c = Append(b, e)
  OBVIOUS
<1>4. c # << >> /\ c[1].uri = u
  <2>1. CASE b = << >>
    BY <1>1, <1>3, <2>1
  <2>2. CASE b # << >>
    <3>1. 1 \in 1 .. Len(b) /\ c[1] = b[1]
      BY <1>1, <1>3, <2>2
    <3>2. c # << >>
      BY <1>1, <1>3, AppendProperties
    <3> QED
      BY <1>1, <1>3, <3>1, <3>2
  <2> QED
    BY <2>1, <2>2
<1>5. Unsent(u) = b /\ Unsent(u)' = c /\ \A w \in Uri : w # u => Unsent(w) = << >> /\ Unsent(w)' = << >>
  <2>1. b = << >> \/ b[1].uri = u
    <3>1. b # << >> => 1 \in 1 .. Len(b)
      BY <1>1, <1>3
    <3> QED
      BY <1>1, <1>3, <3>1
  <2> QED
    BY <1>1, <1>3, <1>4, <2>1 DEF Unsent
<1>6. AgreeOn(s[u], u)'
  <2>1. AgreeOn(s[u], u)
    BY <1>1 DEF Agree
  <2>2. s[u] # NULL /\ s[u] \in Documents \cup {NULL} /\ s[u].version = version[u]
    BY <1>1, <1>2, <2>1 DEF AgreeOn, Stores
  <2>3. s[u].content \in Content
    BY <2>2 DEF Documents, Content
  <2>4. IsEdits(b) /\ IsEdit(e)
    BY <1>1, <1>3, EditIs
  <2>5. Changed(s[u].content, c) = Applied(Changed(s[u].content, b), e)
    BY <1>3, <2>3, <2>4, ChangedAppend
  <2>6. Changed(s[u].content, b) \in Content /\ (u \notin skewed => Changed(s[u].content, b) = Bytes(text[u]))
    BY <1>2, <1>5, <2>1, <2>3, <2>4, ChangedType DEF AgreeOn
  <2>7. u \notin skewed' => Applied(Changed(s[u].content, b), e) = Bytes(t)
    BY <2>6 DEF Adds
  <2>8. text'[u] = t
    BY <1>1
  <2> QED
    BY <1>1, <1>2, <1>5, <2>2, <2>5, <2>7, <2>8 DEF AgreeOn
<1>7. ASSUME NEW w \in Uri, w # u PROVE AgreeOn(s[w], w)'
  <2>1. text'[w] = text[w]
    BY <1>1, <1>7
  <2>2. AgreeOn(s[w], w)
    BY DEF Agree
  <2> QED
    BY <1>1, <1>5, <1>7, <2>1, <2>2 DEF AgreeOn
<1> QED
  BY <1>6, <1>7 DEF Agree

-----------------------------------------------------------------------------
(* The requests: those answered come before those on their way, each in the*)
(* order of the ids, and every id is in one place or the other.            *)
InOrder(ids) ==
  \A i, j \in DOMAIN ids : i < j /\ ids[i] # NULL /\ ids[j] # NULL => ids[i] < ids[j]
Below(ids, n) == \A i \in DOMAIN ids : ids[i] # NULL => ids[i] \in 1 .. n

AnswersGiven == InOrder(answered) /\ Below(answered, asked)

Awaited(k) == pipe[k].kind \in Asking

AnswersDue ==
  /\ \A k \in DOMAIN pipe : Awaited(k) => pipe[k].id \in 1 .. asked /\ Below(answered, pipe[k].id - 1)
  /\ \A k, l \in DOMAIN pipe : k < l /\ Awaited(k) /\ Awaited(l) => pipe[k].id < pipe[l].id

EachOnce ==
  \A n \in 1 .. asked : \/ \E i \in DOMAIN answered : answered[i] = n
                        \/ \E k \in DOMAIN pipe : Awaited(k) /\ pipe[k].id = n

Requests == AnswersGiven /\ AnswersDue /\ EachOnce

(* One answer more. *)
Adding(ids, x, n, r) ==
  /\ ids \in Seq(Nat \cup {NULL}) /\ InOrder(ids) /\ Below(ids, n) /\ r = Append(ids, x)
  /\ x \in Nat \cup {NULL} /\ n \in Nat
  /\ x # NULL => x \in 1 .. n /\ Below(ids, x - 1)

Added(ids, x, n, r) ==
  /\ InOrder(r) /\ Below(r, n) /\ (x # NULL => Below(r, x))
  /\ \A i \in DOMAIN ids : i \in DOMAIN r /\ r[i] = ids[i]
  /\ \E i \in DOMAIN r : r[i] = x

LEMMA AnswerMore ==
  ASSUME NEW ids, NEW x, NEW n, NEW r, Adding(ids, x, n, r)
  PROVE  Added(ids, x, n, r)
<1>0. /\ ids \in Seq(Nat \cup {NULL}) /\ InOrder(ids) /\ Below(ids, n) /\ r = Append(ids, x)
      /\ x \in Nat \cup {NULL} /\ n \in Nat
      /\ x # NULL => x \in 1 .. n /\ Below(ids, x - 1)
  BY DEF Adding
<1>1. PICK c : c = Len(ids)
  OBVIOUS
<1>2. /\ c \in Nat /\ DOMAIN ids = 1 .. c /\ DOMAIN r = 1 .. c + 1
      /\ r[c + 1] = x /\ \A i \in 1 .. c : r[i] = ids[i] /\ ids[i] \in Nat \cup {NULL}
  BY <1>0, <1>1, AppendProperties
<1>3. \A i \in 1 .. c + 1 : i \in 1 .. c \/ i = c + 1
  BY <1>2
<1>4. ASSUME NEW i \in 1 .. c, ids[i] # NULL
      PROVE  ids[i] \in 1 .. n /\ (x # NULL => ids[i] < x /\ ids[i] \in 1 .. x)
  <2>1. ids[i] \in 1 .. n
    BY <1>0, <1>2, <1>4 DEF Below
  <2>2. ASSUME x # NULL PROVE ids[i] < x /\ ids[i] \in 1 .. x
    <3>1. ids[i] \in 1 .. x - 1 /\ x \in 1 .. n /\ n \in Nat
      BY <1>0, <1>2, <1>4, <2>2 DEF Below
    <3> QED
      BY <3>1
  <2> QED
    BY <2>1, <2>2
<1>5. InOrder(r)
  <2> SUFFICES ASSUME NEW i \in 1 .. c + 1, NEW j \in 1 .. c + 1, i < j, r[i] # NULL, r[j] # NULL
               PROVE  r[i] < r[j]
    BY <1>2, Zenon DEF InOrder
  <2>1. i \in 1 .. c /\ (j \in 1 .. c \/ j = c + 1)
    BY <1>2
  <2>2. CASE j \in 1 .. c
    <3>1. r[i] = ids[i] /\ r[j] = ids[j] /\ i \in DOMAIN ids /\ j \in DOMAIN ids
      BY <1>2, <2>1, <2>2
    <3> QED
      BY <1>0, <3>1 DEF InOrder
  <2>3. CASE j = c + 1
    BY <1>0, <1>2, <1>4, <2>1, <2>3
  <2> QED
    BY <2>1, <2>2, <2>3
<1>6. Below(r, n)
  <2> SUFFICES ASSUME NEW i \in 1 .. c + 1, r[i] # NULL PROVE r[i] \in 1 .. n
    BY <1>2, Zenon DEF Below
  <2>1. x # NULL => x \in 1 .. n
    BY <1>0
  <2> QED
    BY <1>2, <1>3, <1>4, <2>1
<1>7. x # NULL => Below(r, x)
  <2> SUFFICES ASSUME x # NULL, NEW i \in 1 .. c + 1, r[i] # NULL PROVE r[i] \in 1 .. x
    BY <1>2, Zenon DEF Below
  <2>1. x \in 1 .. x
    BY <1>0
  <2> QED
    BY <1>0, <1>2, <1>3, <1>4, <2>1
<1>8. c + 1 \in DOMAIN r /\ r[c + 1] = x /\ \A i \in DOMAIN ids : i \in DOMAIN r /\ r[i] = ids[i]
  BY <1>2
<1> QED
  BY <1>5, <1>6, <1>7, <1>8 DEF Added

LEMMA BelowMore ==
  ASSUME NEW ids, NEW m \in Int, NEW n \in Int, m <= n, Below(ids, m)
  PROVE  Below(ids, n)
<1>1. 1 .. m \subseteq 1 .. n
  OBVIOUS
<1> QED
  BY <1>1 DEF Below

LEMMA RequestsTaken ==
  ASSUME Types, Takes, Requests
  PROVE  Requests'
<1>1. PICK h, p, q, n : h = Head(pipe) /\ p = pipe /\ q = Tail(p) /\ n = Len(p) - 1
  OBVIOUS
<1>2. p \in Seq(Messages) /\ p # << >> /\ pipe' = q /\ asked' = asked /\ asked \in Nat /\ h \in Messages
      /\ answered' = AnswerTo(h)
  BY <1>1 DEF Types, Takes, editor
<1>3. /\ n \in Nat /\ DOMAIN p = 1 .. n + 1 /\ DOMAIN q = 1 .. n /\ h = p[1]
      /\ \A k \in 1 .. n : q[k] = p[k + 1] /\ k + 1 \in 1 .. n + 1
  <2>1. q \in Seq(Messages) /\ Len(q) = n /\ \A k \in 1 .. Len(q) : q[k] = p[k + 1]
    BY <1>1, <1>2, HeadTailProperties
  <2>2. n \in Nat /\ Len(p) = n + 1 /\ h = p[1]
    BY <1>1, <1>2, EmptySeq
  <2> QED
    BY <1>2, <2>1, <2>2
<1>4. /\ InOrder(answered) /\ Below(answered, asked) /\ answered \in Seq(Nat \cup {NULL})
      /\ \A k \in 1 .. n + 1 : p[k].kind \in Asking => p[k].id \in 1 .. asked /\ Below(answered, p[k].id - 1)
      /\ \A k, l \in 1 .. n + 1 : k < l /\ p[k].kind \in Asking /\ p[l].kind \in Asking => p[k].id < p[l].id
      /\ \A i \in 1 .. asked : \/ \E j \in DOMAIN answered : answered[j] = i
                               \/ \E k \in 1 .. n + 1 : p[k].kind \in Asking /\ p[k].id = i
  BY <1>1, <1>3 DEF Requests, AnswersGiven, AnswersDue, EachOnce, Awaited, Types
<1>5. 1 \in 1 .. n + 1 /\ (\A k \in 1 .. n : 1 < k + 1) /\ \A k \in 1 .. n + 1 : k = 1 \/ k - 1 \in 1 .. n
  BY <1>3
(* What an answer, with or without an id, or none leaves. *)
<1>6. /\ InOrder(answered') /\ Below(answered', asked)
      /\ \A i \in DOMAIN answered : i \in DOMAIN answered' /\ answered'[i] = answered[i]
      /\ h.kind \in Asking => /\ Below(answered', h.id) /\ h.id \in 1 .. asked
                              /\ \E i \in DOMAIN answered' : answered'[i] = h.id
      /\ h.kind \notin Asking => \A m \in Nat : Below(answered, m) => Below(answered', m)
  <2>1. CASE h.kind \in Asking
    <3>1. h.id \in 1 .. asked /\ h.id \in Nat \cup {NULL} /\ Below(answered, h.id - 1) /\ h.id # NULL
      BY <1>3, <1>4, <1>5, <2>1, SessionAssumption
    <3>2. answered' = Append(answered, h.id)
      BY <1>2, <2>1 DEF AnswerTo
    <3>3. PICK a, r, x, c : a = answered /\ r = answered' /\ x = h.id /\ c = asked
      OBVIOUS
    <3>4. Adding(a, x, c, r) /\ x # NULL /\ x \in 1 .. c
      BY <1>2, <1>4, <3>1, <3>2, <3>3 DEF Adding
    <3>5. /\ InOrder(r) /\ Below(r, c) /\ (x # NULL => Below(r, x))
          /\ \A i \in DOMAIN a : i \in DOMAIN r /\ r[i] = a[i]
          /\ \E i \in DOMAIN r : r[i] = x
      BY <3>4, AnswerMore DEF Added
    <3> QED
      BY <2>1, <3>3, <3>4, <3>5
  <2>2. CASE h.kind = "no JSON"
    <3>1. h.kind \notin Asking
      BY <2>2 DEF Asking
    <3>2. answered' = Append(answered, NULL)
      BY <1>2, <2>2, <3>1 DEF AnswerTo
    <3>3. PICK r : r = Append(answered, NULL)
      OBVIOUS
    <3>4. NULL \in Nat \cup {NULL}
      OBVIOUS
    <3>5. ASSUME NEW m \in Nat, Below(answered, m)
          PROVE  InOrder(r) /\ Below(r, m) /\ \A i \in DOMAIN answered : i \in DOMAIN r /\ r[i] = answered[i]
      <4>1. PICK a, x : a = answered /\ x = NULL
        OBVIOUS
      <4>2. Adding(a, x, m, r)
        BY <1>4, <3>3, <3>4, <3>5, <4>1 DEF Adding
      <4>3. InOrder(r) /\ Below(r, m) /\ \A i \in DOMAIN a : i \in DOMAIN r /\ r[i] = a[i]
        BY <4>2, AnswerMore DEF Added
      <4> QED
        BY <4>1, <4>3
    <3> QED
      BY <1>2, <1>4, <3>1, <3>2, <3>3, <3>5
  <2>3. CASE h.kind \notin Asking /\ h.kind # "no JSON"
    BY <1>2, <1>4, <2>3 DEF AnswerTo
  <2> QED
    BY <2>1, <2>2, <2>3
<1>7. ASSUME NEW k \in 1 .. n, q[k].kind \in Asking
      PROVE  q[k].id \in 1 .. asked /\ Below(answered', q[k].id - 1)
  <2>1. k + 1 \in 1 .. n + 1 /\ q[k] = p[k + 1] /\ p[k + 1].id \in 1 .. asked /\ Below(answered, p[k + 1].id - 1)
    BY <1>3, <1>4, <1>7
  <2>2. CASE h.kind \in Asking
    <3>1. h.id < q[k].id /\ h.id \in 1 .. asked /\ Below(answered', h.id)
      BY <1>3, <1>4, <1>5, <1>6, <1>7, <2>1, <2>2
    <3>2. h.id \in Int /\ q[k].id - 1 \in Int /\ h.id <= q[k].id - 1
      BY <2>1, <3>1
    <3>3. PICK b : b = answered'
      OBVIOUS
    <3>4. Below(b, q[k].id - 1)
      BY <3>1, <3>2, <3>3, BelowMore
    <3> QED
      BY <2>1, <3>3, <3>4
  <2>3. CASE h.kind \notin Asking
    <3>1. q[k].id - 1 \in Nat
      BY <2>1
    <3> QED
      BY <1>6, <2>1, <2>3, <3>1
  <2> QED
    BY <2>2, <2>3
<1>8. ASSUME NEW k \in 1 .. n, NEW l \in 1 .. n, k < l, q[k].kind \in Asking, q[l].kind \in Asking
      PROVE  q[k].id < q[l].id
  <2>1. k + 1 < l + 1
    BY <1>3, <1>8
  <2> QED
    BY <1>3, <1>4, <1>8, <2>1
<1>9. ASSUME NEW i \in 1 .. asked
      PROVE  \/ \E j \in DOMAIN answered' : answered'[j] = i
             \/ \E k \in 1 .. n : q[k].kind \in Asking /\ q[k].id = i
  <2>1. CASE \E j \in DOMAIN answered : answered[j] = i
    BY <1>6, <2>1
  <2>2. CASE \E k \in 1 .. n + 1 : p[k].kind \in Asking /\ p[k].id = i
    <3>1. PICK k \in 1 .. n + 1 : p[k].kind \in Asking /\ p[k].id = i
      BY <2>2
    <3>2. CASE k = 1
      BY <1>3, <1>6, <3>1, <3>2
    <3>3. CASE k - 1 \in 1 .. n
      <4>1. (k - 1) + 1 = k
        OBVIOUS
      <4>2. q[k - 1] = p[k]
        BY <1>3, <3>3, <4>1
      <4> QED
        BY <3>1, <3>3, <4>2
    <3> QED
      BY <1>5, <3>2, <3>3
  <2> QED
    BY <1>4, <2>1, <2>2
<1>10. AnswersGiven'
  BY <1>2, <1>6 DEF AnswersGiven, InOrder, Below
<1>11. AnswersDue'
  BY <1>2, <1>3, <1>7, <1>8 DEF AnswersDue, Below, Awaited
<1>12. EachOnce'
  BY <1>2, <1>3, <1>9 DEF EachOnce, Awaited
<1> QED
  BY <1>10, <1>11, <1>12 DEF Requests

LEMMA RequestsSent ==
  ASSUME Types, Requests, NEW m, Sends(m),
         IF m.kind \in Asking THEN m.id = asked + 1 /\ asked' = asked + 1 ELSE asked' = asked
  PROVE  Requests'
<1>1. PICK p, q, n, c, a : p = pipe /\ q = Append(p, m) /\ n = Len(p) /\ c = asked /\ a = answered
  OBVIOUS
<1>2. p \in Seq(Messages) /\ m \in Messages /\ pipe' = q /\ answered' = a /\ c \in Nat /\ a \in Seq(Nat \cup {NULL})
  BY <1>1 DEF Types, Sends, server
<1>3. n \in Nat /\ DOMAIN p = 1 .. n /\ DOMAIN q = 1 .. n + 1 /\ q[n + 1] = m /\ \A k \in 1 .. n : q[k] = p[k] /\ k \in 1 .. n + 1
  BY <1>1, <1>2, AppendProperties
<1>4. /\ InOrder(a) /\ Below(a, c)
      /\ \A k \in 1 .. n : p[k].kind \in Asking => p[k].id \in 1 .. c /\ Below(a, p[k].id - 1)
      /\ \A k, l \in 1 .. n : k < l /\ p[k].kind \in Asking /\ p[l].kind \in Asking => p[k].id < p[l].id
      /\ \A i \in 1 .. c : \/ \E j \in DOMAIN a : a[j] = i
                           \/ \E k \in 1 .. n : p[k].kind \in Asking /\ p[k].id = i
  BY <1>1, <1>3 DEF Requests, AnswersGiven, AnswersDue, EachOnce, Awaited
<1>5. PICK d : d = asked'
  OBVIOUS
<1>6. /\ m.kind \in Asking => m.id = c + 1 /\ d = c + 1
      /\ m.kind \notin Asking => d = c
  BY <1>1, <1>5
<1>7. d \in Nat /\ c <= d /\ \A i \in 1 .. c : i \in 1 .. d
  BY <1>2, <1>6
<1>8. InOrder(a) /\ Below(a, d)
  BY <1>2, <1>4, <1>7, BelowMore
<1>9. \A k \in 1 .. n + 1 : k \in 1 .. n \/ k = n + 1
  BY <1>3
<1>10. ASSUME NEW k \in 1 .. n + 1, q[k].kind \in Asking
       PROVE  q[k].id \in 1 .. d /\ Below(a, q[k].id - 1)
  <2>1. CASE k \in 1 .. n
    BY <1>3, <1>4, <1>7, <1>10, <2>1
  <2>2. CASE k = n + 1
    <3>1. q[k].id = c + 1 /\ d = c + 1
      BY <1>3, <1>6, <1>10, <2>2
    <3>2. (c + 1) - 1 = c /\ c + 1 \in 1 .. d
      BY <1>2, <3>1
    <3> QED
      BY <1>4, <3>1, <3>2
  <2> QED
    BY <1>9, <2>1, <2>2
<1>11. ASSUME NEW k \in 1 .. n + 1, NEW l \in 1 .. n + 1, k < l, q[k].kind \in Asking, q[l].kind \in Asking
       PROVE  q[k].id < q[l].id
  <2>1. k \in 1 .. n
    BY <1>3, <1>11
  <2>2. CASE l \in 1 .. n
    BY <1>3, <1>4, <1>11, <2>1, <2>2
  <2>3. CASE l = n + 1
    <3>1. q[l].id = c + 1
      BY <1>3, <1>6, <1>11, <2>3
    <3>2. q[k].id \in 1 .. c
      BY <1>3, <1>4, <1>11, <2>1
    <3> QED
      BY <1>2, <3>1, <3>2
  <2> QED
    BY <1>9, <2>2, <2>3
<1>12. ASSUME NEW i \in 1 .. d
       PROVE  \/ \E j \in DOMAIN a : a[j] = i
              \/ \E k \in 1 .. n + 1 : q[k].kind \in Asking /\ q[k].id = i
  <2>1. CASE i \in 1 .. c
    BY <1>3, <1>4, <2>1
  <2>2. CASE i \notin 1 .. c
    <3>1. i = c + 1 /\ m.kind \in Asking
      BY <1>2, <1>6, <1>7, <2>2
    <3>2. n + 1 \in 1 .. n + 1 /\ q[n + 1].kind \in Asking /\ q[n + 1].id = i
      BY <1>3, <1>6, <3>1
    <3> QED
      BY <3>2
  <2> QED
    BY <2>1, <2>2
<1>13. AnswersGiven'
  BY <1>2, <1>5, <1>8 DEF AnswersGiven, InOrder, Below
<1>14. AnswersDue'
  BY <1>2, <1>3, <1>5, <1>10, <1>11 DEF AnswersDue, Below, Awaited
<1>15. EachOnce'
  BY <1>2, <1>3, <1>5, <1>12 DEF EachOnce, Awaited
<1> QED
  BY <1>13, <1>14, <1>15 DEF Requests

-----------------------------------------------------------------------------
(* The inductive invariant: while the server runs, it is on its way to the *)
(* editor's documents and answers.                                         *)
SessionInv == Types /\ Current /\ (ended = NULL => Followed /\ Requests)

LEMMA SessionStarts ==
  ASSUME SessionStart
  PROVE  SessionInv
<1>1. Types
  BY DEF SessionStart, Types, Stores
<1>2. Current
  BY DEF SessionStart, Current, EntryOf, ShownOf
<1>3. Requests
  <2>1. answered = << >> /\ pipe = << >> /\ asked = 0 /\ 1 .. 0 = {} /\ DOMAIN << >> = {}
    BY DEF SessionStart
  <2> QED
    BY <2>1 DEF Requests, AnswersGiven, AnswersDue, EachOnce, InOrder, Below
<1>4. Followed
  <2>1. pipe = << >> /\ Len(<< >>) = 0 /\ 1 .. 0 = {} /\ 0 .. 0 = {0}
    BY DEF SessionStart
  <2>2. PICK s : s = docs
    OBVIOUS
  <2>3. Agree(s) /\ s \in Stores
    BY <1>1, <2>2 DEF SessionStart, Agree, AgreeOn, Types
  <2> DEFINE E == [i \in {0} |-> s]
  <2>4. E[0] = s
    OBVIOUS
  <2> HIDE DEF E
  <2>5. Traced(E, docs, pipe) /\ Agree(E[Len(pipe)])
    BY <2>1, <2>2, <2>3, <2>4 DEF Traced
  <2> QED
    BY <2>5 DEF Followed
<1> QED
  BY <1>1, <1>2, <1>3, <1>4 DEF SessionInv

(* A message of the editor that keeps the documents agreeing. *)
LEMMA MessageKeeps ==
  ASSUME SessionInv, NEW m, Sends(m), EditorTypes',
         \A s \in Stores : Agree(s) => Agree(After(s, m))',
         IF m.kind \in Asking THEN m.id = asked + 1 /\ asked' = asked + 1 ELSE asked' = asked
  PROVE  SessionInv'
<1>1. Types' /\ Current' /\ ended' = ended
  BY TypesSent DEF SessionInv, Sends, server
<1>2. ASSUME ended = NULL PROVE Followed' /\ Requests'
  BY <1>2, FollowedSent, RequestsSent DEF SessionInv
<1> QED
  BY <1>1, <1>2 DEF SessionInv

LEMMA EditKeeps ==
  ASSUME SessionInv, NEW u, NEW e, NEW t, Adds(u, e, t)
  PROVE  SessionInv'
<1>1. Types' /\ Current' /\ ended' = ended /\ Types /\ UNCHANGED <<docs, pipe, answered, asked>>
  BY TypesAdded DEF SessionInv, Adds, server
<1>2. ASSUME ended = NULL PROVE Followed'
  <2>1. \A s \in Stores : Agree(s) => Agree(s)'
    BY <1>1, AgreeAdded
  <2> QED
    BY <1>1, <1>2, <2>1, FollowedKept DEF SessionInv
<1>3. ASSUME ended = NULL PROVE Requests'
  BY <1>1, <1>3 DEF SessionInv, Requests, AnswersGiven, AnswersDue, EachOnce, Awaited
<1> QED
  BY <1>1, <1>2, <1>3 DEF SessionInv

LEMMA MessageTaken ==
  ASSUME SessionInv, HandleMessage
  PROVE  SessionInv'
<1>1. Takes /\ Types
  BY Handled DEF SessionInv
<1>2. Types' /\ Current' /\ ended = NULL
  BY <1>1, TypesTaken DEF Takes
<1>3. ASSUME ended' = NULL PROVE Followed' /\ Requests'
  BY <1>1, <1>2, <1>3, FollowedTaken, RequestsTaken DEF SessionInv
<1> QED
  BY <1>2, <1>3 DEF SessionInv

LEMMA SessionSteps ==
  ASSUME SessionInv, [SessionNext]_sessionVars
  PROVE  SessionInv'
<1>0. Types
  BY DEF SessionInv
<1>1. ASSUME NEW u \in Uri, NEW t \in Written, EditorOpens(u, t) PROVE SessionInv'
  <2>1. PICK m : m = [kind |-> "didOpen", uri |-> u, text |-> Bytes(t), version |-> version[u] + 1]
    OBVIOUS
  <2>2. Sends(m) /\ EditorTypes'
    BY <1>0, <1>1, <2>1, Opens
  <2>3. \A s \in Stores : Agree(s) => Agree(After(s, m))'
    BY <1>0, <1>1, <2>1, AgreeOpened
  <2>4. m.kind \notin Asking /\ asked' = asked
    BY <1>1, <2>1 DEF EditorOpens, Asking
  <2> QED
    BY <2>2, <2>3, <2>4, MessageKeeps
<1>2. ASSUME NEW u \in Uri, NEW i \in 0 .. MaxText, NEW j \in 0 .. MaxText, NEW new \in Inserted,
             EditorEdits(u, i, j, new)
      PROVE  SessionInv'
  <2>1. PICK e, t : Adds(u, e, t)
    BY <1>0, <1>2, AddsEdit
  <2> QED
    BY <2>1, EditKeeps
<1>3. ASSUME NEW u \in Uri, NEW new \in Inserted, EditorReplaces(u, new) PROVE SessionInv'
  <2>1. PICK e, t : Adds(u, e, t)
    BY <1>0, <1>3, AddsText
  <2> QED
    BY <2>1, EditKeeps
<1>4. CASE EditorSends
  <2>1. PICK m : m = [kind |-> "didChange", uri |-> batch[1].uri,
                      version |-> version[batch[1].uri] + 1, changes |-> batch]
    OBVIOUS
  <2>2. Sends(m) /\ EditorTypes'
    BY <1>0, <1>4, <2>1, SendsBatch
  <2>3. \A s \in Stores : Agree(s) => Agree(After(s, m))'
    BY <1>0, <1>4, <2>1, AgreeSent
  <2>4. m.kind \notin Asking /\ asked' = asked
    BY <1>4, <2>1 DEF EditorSends, Asking
  <2> QED
    BY <2>2, <2>3, <2>4, MessageKeeps
<1>5. ASSUME NEW u \in Uri, EditorCloses(u) PROVE SessionInv'
  <2>1. PICK m : m = [kind |-> "didClose", uri |-> u]
    OBVIOUS
  <2>2. Sends(m) /\ EditorTypes'
    BY <1>0, <1>5, <2>1, Closes
  <2>3. \A s \in Stores : Agree(s) => Agree(After(s, m))'
    BY <1>0, <1>5, <2>1, AgreeClosed
  <2>4. m.kind \notin Asking /\ asked' = asked
    BY <1>5, <2>1 DEF EditorCloses, Asking
  <2> QED
    BY <2>2, <2>3, <2>4, MessageKeeps
<1>6. ASSUME NEW m, m.kind \notin {"didOpen", "didChange", "didClose"},
             UNCHANGED <<text, version, batch, skewed>>
      PROVE  \A s \in Stores : Agree(s) => Agree(After(s, m))'
  <2>1. \A s : After(s, m) = s
    BY <1>6 DEF After
  <2> QED
    BY <1>6, <2>1 DEF Agree, AgreeOn, Unsent
<1>7. ASSUME NEW kind \in {"hover", "unknown", "shutdown"}, EditorAsks(kind) PROVE SessionInv'
  <2>1. PICK m : m = [kind |-> kind, id |-> asked + 1]
    OBVIOUS
  <2>2. Sends(m) /\ EditorTypes'
    BY <1>0, <1>7, <2>1, Asks
  <2>3. /\ m.kind \in Asking /\ m.id = asked + 1 /\ asked' = asked + 1
        /\ UNCHANGED <<text, version, batch, skewed>>
        /\ m.kind \notin {"didOpen", "didChange", "didClose"}
    BY <1>7, <2>1 DEF EditorAsks, Asking
  <2>4. \A s \in Stores : Agree(s) => Agree(After(s, m))'
    BY <1>6, <2>3
  <2> QED
    BY <2>2, <2>3, <2>4, MessageKeeps
<1>8. ASSUME NEW kind \in {"exit", "no JSON", "no object", "eof"}, EditorSays(kind) PROVE SessionInv'
  <2>1. PICK m : m = [kind |-> kind]
    OBVIOUS
  <2>2. Sends(m) /\ EditorTypes'
    BY <1>0, <1>8, <2>1, Says
  <2>3. /\ m.kind \notin Asking /\ asked' = asked
        /\ UNCHANGED <<text, version, batch, skewed>>
        /\ m.kind \notin {"didOpen", "didChange", "didClose"}
    BY <1>8, <2>1 DEF EditorSays, Asking
  <2>4. \A s \in Stores : Agree(s) => Agree(After(s, m))'
    BY <1>6, <2>3
  <2> QED
    BY <2>2, <2>3, <2>4, MessageKeeps
<1>9. CASE HandleMessage
  BY <1>9, MessageTaken
<1>10. CASE UNCHANGED sessionVars
  <2>1. UNCHANGED <<text, version, batch, skewed, asked, pipe, docs, index, shown, answered, ended>>
    BY <1>10 DEF sessionVars, editor, server
  <2>2. Types' /\ Current'
    BY <2>1 DEF SessionInv, Types, Current
  <2>3. ASSUME ended = NULL PROVE Followed' /\ Requests'
    <3>1. Followed'
      <4>1. \A s \in Stores : Agree(s) => Agree(s)'
        BY <2>1 DEF Agree, AgreeOn, Unsent
      <4> QED
        BY <1>0, <2>1, <2>3, <4>1, FollowedKept DEF SessionInv
    <3>2. Requests'
      BY <2>1, <2>3 DEF SessionInv, Requests, AnswersGiven, AnswersDue, EachOnce, Awaited
    <3> QED
      BY <3>1, <3>2
  <2> QED
    BY <2>1, <2>2, <2>3 DEF SessionInv
<1> QED
  BY <1>1, <1>2, <1>3, <1>4, <1>5, <1>7, <1>8, <1>9, <1>10 DEF SessionNext

LEMMA InvAgrees ==
  ASSUME SessionInv
  PROVE  DocumentsAgree /\ AnalysisIsCurrent
<1> SUFFICES ASSUME Idle PROVE DocumentsAgree /\ AnalysisIsCurrent
  BY DEF DocumentsAgree, AnalysisIsCurrent
<1>1. pipe = << >> /\ batch = << >> /\ ended = NULL /\ Types /\ Current /\ Requests /\ Followed
  BY DEF Idle, SessionInv
<1>2. Agree(docs)
  <2>1. PICK E : Traced(E, docs, pipe) /\ Agree(E[Len(pipe)])
    BY <1>1 DEF Followed
  <2>2. Len(pipe) = 0
    BY <1>1
  <2> QED
    BY <2>1, <2>2 DEF Traced
<1>3. ASSUME NEW u \in Uri
      PROVE  /\ docs[u] = NULL <=> text[u] = NULL
             /\ docs[u] # NULL => /\ docs[u].version = version[u]
                                  /\ u \notin skewed => docs[u].content = Bytes(text[u])
  <2>1. AgreeOn(docs[u], u) /\ docs[u] \in Documents \cup {NULL}
    BY <1>1, <1>2 DEF Agree, Types, Stores
  <2>2. docs[u] # NULL => Changed(docs[u].content, << >>) = docs[u].content
    BY <2>1, ChangedAppend DEF Documents, Content
  <2>3. Unsent(u) = << >>
    BY <1>1 DEF Unsent
  <2> QED
    BY <2>1, <2>2, <2>3 DEF AgreeOn
<1>4. DocumentsAgree
  BY <1>3 DEF DocumentsAgree
<1>5. ASSUME NEW u \in Uri
      PROVE  /\ shown[u] = IF docs[u] = NULL THEN {} ELSE Analyzed(docs[u].content, 0).diagnostics
             /\ index[u] = IF text[u] = NULL THEN NULL ELSE Symbols(docs[u].content)
  BY <1>1, <1>3 DEF Current, EntryOf, ShownOf
<1>6. ToSet(answered) \ {NULL} = 1 .. asked
  <2>1. \A i \in DOMAIN answered : answered[i] # NULL => answered[i] \in 1 .. asked
    BY <1>1 DEF Requests, AnswersGiven, Below
  <2>2. \A n \in 1 .. asked : n # NULL /\ \E i \in DOMAIN answered : answered[i] = n
    <3> TAKE n \in 1 .. asked
    <3>1. DOMAIN pipe = {}
      BY <1>1
    <3>2. n # NULL
      BY <1>1, SessionAssumption DEF Types
    <3> QED
      BY <1>1, <3>1, <3>2 DEF Requests, EachOnce
  <2> QED
    BY <2>1, <2>2 DEF ToSet
<1>7. \A i, j \in DOMAIN answered :
        i < j /\ answered[i] # NULL /\ answered[j] # NULL => answered[i] < answered[j]
  BY <1>1 DEF Requests, AnswersGiven, InOrder
<1> QED
  BY <1>4, <1>5, <1>6, <1>7 DEF AnalysisIsCurrent

(* However a session goes: when the server has handled all it was sent, it *)
(* has the documents the editor has open, with their last version and their*)
(* text byte for byte, but for those edited behind a character of two bytes*)
(* (DocumentStore::change, offsetOf).                                      *)
THEOREM DocumentsAlwaysAgree == SessionSpec => []DocumentsAgree
<1>1. SessionStart => SessionInv
  BY SessionStarts
<1>2. SessionInv /\ [SessionNext]_sessionVars => SessionInv'
  BY SessionSteps
<1>3. SessionInv => DocumentsAgree
  BY InvAgrees
<1> QED
  BY <1>1, <1>2, <1>3, PTL DEF SessionSpec

(* What is shown of a document and found in it is computed from the text   *)
(* the server has last, nothing is left of a closed document, and each     *)
(* request has had one answer, in their order (reanalyze, dispatch).       *)
THEOREM AnalysisAlwaysCurrent == SessionSpec => []AnalysisIsCurrent
<1>1. SessionStart => SessionInv
  BY SessionStarts
<1>2. SessionInv /\ [SessionNext]_sessionVars => SessionInv'
  BY SessionSteps
<1>3. SessionInv => AnalysisIsCurrent
  BY InvAgrees
<1> QED
  BY <1>1, <1>2, <1>3, PTL DEF SessionSpec

=============================================================================
