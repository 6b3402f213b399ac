-------------------------- MODULE ServiceCacheProofs --------------------------
(***************************************************************************)
(* Proofs about module ServiceCache, for files of any length with any       *)
(* announcements in them: whatever DoScan indexes is an announcement of the *)
(* file, under its own ident and under actions it provides, and with        *)
(* verification on it is one that MarshalText wrote and nobody changed; and *)
(* the indexes are exactly those that the reference definition (ByIdent,    *)
(* ByAction) gives for the file.                                            *)
(***************************************************************************)
EXTENDS ServiceCache, WellFoundedInduction, FiniteSetTheorems, SequenceTheorems, TLAPS

-----------------------------------------------------------------------------
(* Induction over natural numbers, for a set of them *)

(* The order of natural numbers.                                             *)
LEMMA LessWellFounded == IsWellFoundedOn({mn \in Nat \X Nat : mn[1] < mn[2]}, Nat)
  BY NatLessThanWellFounded DEF OpToRel

(* A set with 0 and with the successor of each of its members.               *)
LEMMA SetInduction ==
  ASSUME NEW T, 0 \in T, \A n \in Nat : n \in T => n + 1 \in T
  PROVE  Nat \subseteq T
<1> SUFFICES ASSUME Nat \ T # {} PROVE FALSE
  OBVIOUS
<1> DEFINE Less == {mn \in Nat \X Nat : mn[1] < mn[2]}
<1>1. \E m \in Nat \ T : \A k \in Nat \ T : ~(<<k, m>> \in Less)
  <2>1. IsWellFoundedOn(Less, Nat)
    BY LessWellFounded
  <2> HIDE DEF Less
  <2> QED
    BY <2>1, WFMin
<1>2. PICK m \in Nat \ T : \A k \in Nat \ T : ~(k < m)
  BY <1>1
<1>3. m # 0 /\ m - 1 \in Nat /\ m - 1 \in T
  BY <1>2
<1> QED
  BY <1>3

-----------------------------------------------------------------------------
(* The two loops: what their recursive functions compute *)

(* The text of the first announcements grows by one of them at a time.       *)
LEMMA TextSteps ==
  ASSUME NEW recs \in Seq(Announcement)
  PROVE  \E f : /\ f = [p \in 0..Len(recs) |-> IF p = 0 THEN <<>> ELSE AddLines(f[p - 1], recs, p)]
                /\ Text(recs) = f[Len(recs)]
<1> DEFINE Steps(f, n) == f = [p \in 0..n |-> IF p = 0 THEN <<>> ELSE AddLines(f[p - 1], recs, p)]
           T == {n \in Nat : \E f : Steps(f, n)}
<1>1. 0 \in T
  <2>1. Steps([p \in 0..0 |-> <<>>], 0)
    OBVIOUS
  <2> QED
    BY <2>1
<1>2. ASSUME NEW n \in Nat, n \in T PROVE n + 1 \in T
  <2>1. PICK f : Steps(f, n)
    BY <1>2
  <2> DEFINE g == [p \in 0..(n + 1) |-> IF p \in 0..n THEN f[p] ELSE AddLines(f[n], recs, n + 1)]
  <2>2. ASSUME NEW p \in 0..(n + 1)
        PROVE  g[p] = IF p = 0 THEN <<>> ELSE AddLines(g[p - 1], recs, p)
    <3>1. CASE p = 0
      BY <2>1, <3>1
    <3>2. CASE p \in 1..n
      <4>1. f[p] = AddLines(f[p - 1], recs, p)
        BY <2>1, <3>2
      <4>2. g[p] = f[p] /\ g[p - 1] = f[p - 1]
        BY <3>2
      <4> QED
        BY <3>2, <4>1, <4>2
    <3>3. CASE p = n + 1
      <4>1. g[p] = AddLines(f[n], recs, p) /\ g[p - 1] = f[n]
        BY <3>3
      <4> QED
        BY <3>3, <4>1
    <3> QED
      BY <3>1, <3>2, <3>3
  <2>3. Steps(g, n + 1)
    BY <2>2
  <2> HIDE DEF g
  <2>4. \E h : Steps(h, n + 1)
    BY <2>3
  <2> QED
    BY <2>4
<1>3. Len(recs) \in T
  <2> HIDE DEF T
  <2>1. Nat \subseteq T
    BY <1>1, <1>2, SetInduction
  <2> QED
    BY <2>1
<1>4. PICK f : Steps(f, Len(recs))
  BY <1>3
<1> DEFINE text == CHOOSE g : Steps(g, Len(recs))
<1>5. Steps(text, Len(recs))
  BY <1>4
<1>6. Text(recs) = text[Len(recs)]
  BY DEF Text
<1> QED
  BY <1>5, <1>6

(* So does the state of the scan, by one line at a time.                     *)
LEMMA ScanSteps ==
  ASSUME NEW recs, NEW verify, NEW lines, Len(lines) \in Nat
  PROVE  LET Steps(f) == f = [n \in 0..Len(lines) |->
                                IF n = 0 THEN Cleared ELSE ScanLine(f[n - 1], recs, verify, lines[n])]
         IN  Steps(CHOOSE f : Steps(f))
<1> DEFINE Steps(f, m) == f = [n \in 0..m |->
                                IF n = 0 THEN Cleared ELSE ScanLine(f[n - 1], recs, verify, lines[n])]
           T == {m \in Nat : \E f : Steps(f, m)}
<1>1. 0 \in T
  <2>1. Steps([n \in 0..0 |-> Cleared], 0)
    OBVIOUS
  <2> QED
    BY <2>1
<1>2. ASSUME NEW m \in Nat, m \in T PROVE m + 1 \in T
  <2>1. PICK f : Steps(f, m)
    BY <1>2
  <2> DEFINE g == [n \in 0..(m + 1) |->
                     IF n \in 0..m THEN f[n] ELSE ScanLine(f[m], recs, verify, lines[m + 1])]
  <2>2. ASSUME NEW n \in 0..(m + 1)
        PROVE  g[n] = IF n = 0 THEN Cleared ELSE ScanLine(g[n - 1], recs, verify, lines[n])
    <3>1. CASE n = 0
      BY <2>1, <3>1
    <3>2. CASE n \in 1..m
      <4>1. f[n] = ScanLine(f[n - 1], recs, verify, lines[n])
        BY <2>1, <3>2
      <4>2. g[n] = f[n] /\ g[n - 1] = f[n - 1]
        BY <3>2
      <4> QED
        BY <3>2, <4>1, <4>2
    <3>3. CASE n = m + 1
      <4>1. g[n] = ScanLine(f[m], recs, verify, lines[n]) /\ g[n - 1] = f[m]
        BY <3>3
      <4> QED
        BY <3>3, <4>1
    <3> QED
      BY <3>1, <3>2, <3>3
  <2>3. Steps(g, m + 1)
    BY <2>2
  <2> HIDE DEF g
  <2>4. \E h : Steps(h, m + 1)
    BY <2>3
  <2> QED
    BY <2>4
<1>3. Len(lines) \in T
  <2> HIDE DEF T
  <2>1. Nat \subseteq T
    BY <1>1, <1>2, SetInduction
  <2> QED
    BY <2>1
<1>4. PICK f : Steps(f, Len(lines))
  BY <1>3
<1> QED
  BY <1>4

-----------------------------------------------------------------------------
(* The lines of a file *)

LineKinds == {"sep", "empty", "record", "cert", "sig"}
LineType == [is : LineKinds, of : Nat, row : Nat \X Nat]

Rows == Len(StringToRows(SigLen))

(* A line that stands in the file, by what its announcement is.              *)
LineOK(recs, l) ==
  /\ l.is \in {"record", "cert", "sig"} => l.of \in DOMAIN recs
  /\ l.is = "cert" => recs[l.of].kind # "nocert"
  /\ l.is = "sig" => recs[l.of].kind # "nosig"
  /\ l.is = "sig" /\ l.row = StringToRows(SigLen)[Rows] => recs[l.of].kind # "cut"

(* Two lines that follow each other.                                         *)
PairOK(recs, l, m) ==
  /\ l.is = "sep" /\ m.is = "record" => recs[m.of].kind # "blank"
  /\ l.is = "record" /\ m.is = "empty" => recs[l.of].kind # "nogap"

LinesOK(recs, s) ==
  /\ s \in Seq(LineType)
  /\ \A i \in 1..Len(s) : LineOK(recs, s[i])
  /\ \A i \in 1..(Len(s) - 1) : PairOK(recs, s[i], s[i + 1])

(* What a concatenation consists of.                                         *)
LEMMA JoinFacts ==
  ASSUME NEW S, NEW s \in Seq(S), NEW t \in Seq(S)
  PROVE  /\ s \o t \in Seq(S) /\ Len(s) \in Nat /\ Len(t) \in Nat
         /\ Len(s \o t) = Len(s) + Len(t)
         /\ \A i \in 1..Len(s) : (s \o t)[i] = s[i]
         /\ \A i \in 1..Len(t) : (s \o t)[Len(s) + i] = t[i]
  OBVIOUS

(* And a prefix, of which the front of a sequence is one.                    *)
LEMMA PrefixFacts ==
  ASSUME NEW S, NEW s \in Seq(S), NEW k \in 0..Len(s)
  PROVE  /\ SubSeq(s, 1, k) \in Seq(S) /\ Len(s) \in Nat
         /\ Len(SubSeq(s, 1, k)) = k
         /\ \A i \in 1..k : SubSeq(s, 1, k)[i] = s[i] /\ i \in 1..Len(s)
  OBVIOUS

LEMMA FrontFacts ==
  ASSUME NEW S, NEW s \in Seq(S), s # <<>>
  PROVE  /\ Front(s) \in Seq(S) /\ Len(s) \in Nat \ {0}
         /\ Len(Front(s)) = Len(s) - 1
         /\ \A i \in 1..(Len(s) - 1) : Front(s)[i] = s[i] /\ i \in 1..Len(s)
<1>1. Len(s) - 1 \in 0..Len(s) /\ Len(s) \in Nat \ {0}
  OBVIOUS
<1>2. PICK k \in 0..Len(s) : k = Len(s) - 1
  BY <1>1
<1>3. Front(s) = SubSeq(s, 1, k)
  BY <1>2 DEF Front
<1>4. /\ Front(s) \in Seq(S) /\ Len(Front(s)) = k
      /\ \A i \in 1..k : Front(s)[i] = s[i] /\ i \in 1..Len(s)
  BY <1>3, PrefixFacts
<1> QED
  BY <1>1, <1>2, <1>4

(* Texts that are put together.                                              *)
LEMMA JoinLines ==
  ASSUME NEW recs, NEW s, NEW t, LinesOK(recs, s), LinesOK(recs, t),
         s # <<>> /\ t # <<>> => PairOK(recs, s[Len(s)], t[1])
  PROVE  LinesOK(recs, s \o t)
<1>1. s \in Seq(LineType) /\ t \in Seq(LineType)
  BY DEF LinesOK
<1> DEFINE u == s \o t
<1>2. /\ u \in Seq(LineType) /\ Len(s) \in Nat /\ Len(t) \in Nat
      /\ Len(u) = Len(s) + Len(t)
      /\ \A i \in 1..Len(s) : u[i] = s[i]
      /\ \A i \in 1..Len(t) : u[Len(s) + i] = t[i]
  BY <1>1, JoinFacts
<1> HIDE DEF u
<1>3. ASSUME NEW i \in 1..Len(u) PROVE LineOK(recs, u[i])
  <2>1. CASE i \in 1..Len(s)
    BY <1>2, <2>1 DEF LinesOK
  <2>2. CASE i - Len(s) \in 1..Len(t)
    <3>1. u[Len(s) + (i - Len(s))] = t[i - Len(s)] /\ Len(s) + (i - Len(s)) = i
      BY <1>2, <2>2
    <3> QED
      BY <2>2, <3>1 DEF LinesOK
  <2> QED
    BY <1>2, <2>1, <2>2
<1>4. ASSUME NEW i \in 1..(Len(u) - 1) PROVE PairOK(recs, u[i], u[i + 1])
  <2>1. CASE i \in 1..(Len(s) - 1)
    <3>1. u[i] = s[i] /\ u[i + 1] = s[i + 1]
      BY <1>2, <2>1
    <3> QED
      BY <2>1, <3>1 DEF LinesOK
  <2>2. CASE i - Len(s) \in 1..(Len(t) - 1)
    <3>0. i = Len(s) + (i - Len(s))
      BY <1>2
    <3>1. PICK j \in 1..(Len(t) - 1) : i = Len(s) + j
      BY <2>2, <3>0
    <3>2. j \in 1..Len(t) /\ j + 1 \in 1..Len(t) /\ i + 1 = Len(s) + (j + 1)
      BY <1>2, <3>1
    <3>3. u[i] = t[j] /\ u[i + 1] = t[j + 1]
      BY <1>2, <3>1, <3>2
    <3> QED
      BY <3>3 DEF LinesOK
  <2>3. CASE i = Len(s)
    <3>1. /\ i \in 1..Len(s) /\ 1 \in 1..Len(t)
      BY <1>2, <2>3
    <3>2. u[i] = s[Len(s)] /\ u[i + 1] = t[1]
      BY <1>2, <2>3, <3>1
    <3>3. s # <<>> /\ t # <<>>
      BY <3>1
    <3> QED
      BY <3>2, <3>3
  <2> QED
    BY <1>2, <2>1, <2>2, <2>3
<1>5. LinesOK(recs, u)
  BY <1>2, <1>3, <1>4 DEF LinesOK
<1> QED
  BY <1>5 DEF u

(* A text that is cut short.                                                 *)
LEMMA FrontLines ==
  ASSUME NEW recs, NEW s, LinesOK(recs, s), s # <<>>
  PROVE  LinesOK(recs, Front(s))
<1>1. s \in Seq(LineType)
  BY DEF LinesOK
<1> DEFINE u == Front(s)
<1>2. /\ u \in Seq(LineType) /\ Len(s) \in Nat /\ Len(u) = Len(s) - 1 /\ Len(u) \in Nat
      /\ \A i \in 1..Len(u) : i \in 1..Len(s) /\ u[i] = s[i]
  BY <1>1, FrontFacts
<1> HIDE DEF u
<1>3. \A i \in 1..Len(u) : LineOK(recs, u[i])
  BY <1>2 DEF LinesOK
<1>4. ASSUME NEW i \in 1..(Len(u) - 1) PROVE PairOK(recs, u[i], u[i + 1])
  <2>1. i \in 1..Len(u) /\ i + 1 \in 1..Len(u) 
    BY <1>2
  <2>2. u[i] = s[i] /\ u[i + 1] = s[i + 1] /\ i + 1 \in 1..Len(s)
    BY <1>2, <2>1
  <2>3. i \in 1..(Len(s) - 1)
    BY <1>2, <2>2
  <2> QED
    BY <2>2, <2>3 DEF LinesOK
<1>5. LinesOK(recs, u)
  BY <1>2, <1>3, <1>4 DEF LinesOK
<1> QED
  BY <1>5 DEF u

(* The rows of a signature: there are some, and none reads like the last.    *)
LEMMA RowFacts ==
  /\ Rows \in Nat \ {0} /\ DOMAIN StringToRows(SigLen) = 1..Rows
  /\ StringToRows(SigLen) \in Seq(Nat \X Nat)
  /\ \A k \in 1..(Rows - 1) : StringToRows(SigLen)[k] # StringToRows(SigLen)[Rows]
<1> DEFINE K == (SigLen + RowLen - 1) \div RowLen
<1>1. SigLen + RowLen - 1 \in Nat /\ SigLen + RowLen - 1 >= RowLen /\ RowLen \in Nat \ {0}
  BY SignatureAssumption
<1>2. K \in Nat \ {0}
  BY <1>1
<1> HIDE DEF K
<1>3. StringToRows(SigLen) = [k \in 1..K |-> <<(k - 1) * RowLen + 1, IF k * RowLen <= SigLen THEN k * RowLen ELSE SigLen>>]
  BY DEF StringToRows, K
<1>4. ASSUME NEW k \in 1..K
      PROVE  <<(k - 1) * RowLen + 1, IF k * RowLen <= SigLen THEN k * RowLen ELSE SigLen>> \in Nat \X Nat
  <2>1. (k - 1) * RowLen \in Nat /\ k * RowLen \in Nat /\ SigLen \in Nat
    BY <1>1, <1>2, SignatureAssumption
  <2> QED
    BY <2>1
<1>5. StringToRows(SigLen) \in Seq(Nat \X Nat) /\ Rows = K /\ DOMAIN StringToRows(SigLen) = 1..K
  BY <1>2, <1>3, <1>4 DEF Rows
<1>6. ASSUME NEW k \in 1..(K - 1) PROVE StringToRows(SigLen)[k] # StringToRows(SigLen)[K]
  <2>1. (k - 1) * RowLen + 1 # (K - 1) * RowLen + 1
    BY <1>1, <1>2
  <2>2. StringToRows(SigLen)[k][1] = (k - 1) * RowLen + 1 /\ StringToRows(SigLen)[K][1] = (K - 1) * RowLen + 1
    BY <1>2, <1>3
  <2> QED
    BY <2>1, <2>2
<1> QED
  BY <1>2, <1>5, <1>6

-----------------------------------------------------------------------------
(* The lines of one announcement *)

(* Lines other than separators and records, and lines of announcement p.     *)
Plain(recs) == {l \in LineType : LineOK(recs, l) /\ l.is \notin {"sep", "record"}}
Mine(recs, p) == Plain(recs) \cup {Line("record", p)}

(* The rows of the signature of an announcement.                             *)
LEMMA SigFacts ==
  ASSUME NEW p \in Nat
  PROVE  /\ SigRows(p) \in Seq(LineType) /\ Len(SigRows(p)) = Rows /\ SigRows(p) # <<>>
         /\ \A k \in 1..Rows : /\ SigRows(p)[k].is = "sig" /\ SigRows(p)[k].of = p
                              /\ SigRows(p)[k].row = StringToRows(SigLen)[k]
<1>1. SigRows(p) = [k \in 1..Rows |-> [is |-> "sig", of |-> p, row |-> StringToRows(SigLen)[k]]]
  BY RowFacts DEF SigRows
<1>2. ASSUME NEW k \in 1..Rows
      PROVE  /\ StringToRows(SigLen)[k] \in Nat \X Nat
             /\ SigRows(p)[k] = [is |-> "sig", of |-> p, row |-> StringToRows(SigLen)[k]]
  BY <1>1, RowFacts
<1>3. ASSUME NEW k \in 1..Rows
      PROVE  /\ SigRows(p)[k] \in LineType
             /\ SigRows(p)[k].is = "sig" /\ SigRows(p)[k].of = p
             /\ SigRows(p)[k].row = StringToRows(SigLen)[k]
  <2>1. PICK r \in Nat \X Nat : r = StringToRows(SigLen)[k]
    BY <1>2
  <2>2. [is |-> "sig", of |-> p, row |-> r] \in LineType
    BY DEF LineType, LineKinds
  <2>3. SigRows(p)[k] = [is |-> "sig", of |-> p, row |-> r]
    BY <1>2, <2>1
  <2> QED
    BY <2>1, <2>2, <2>3
<1>4. Rows \in Nat \ {0}
  BY RowFacts
<1>5. SigRows(p) \in [1..Rows -> LineType]
  BY <1>1, <1>3
<1>6. SigRows(p) \in Seq(LineType) /\ Len(SigRows(p)) = Rows /\ SigRows(p) # <<>>
  BY <1>4, <1>5
<1> QED
  BY <1>3, <1>6

(* The parts an announcement is put together of.                             *)
LEMMA PartFacts ==
  ASSUME NEW recs \in Seq(Announcement), NEW p \in DOMAIN recs
  PROVE  /\ Empty \in Plain(recs)
         /\ recs[p].kind # "nocert" => Line("cert", p) \in Plain(recs)
         /\ recs[p].kind \notin {"nosig", "cut"} => SigRows(p) \in Seq(Plain(recs))
         /\ recs[p].kind # "nosig" => Front(SigRows(p)) \in Seq(Plain(recs))
<1>1. p \in Nat
  OBVIOUS
<1>2. Empty \in Plain(recs)
  BY <1>1 DEF Plain, Line, Empty, LineType, LineKinds, LineOK
<1>3. recs[p].kind # "nocert" => Line("cert", p) \in Plain(recs)
  BY <1>1 DEF Plain, Line, LineType, LineKinds, LineOK
<1>4. Rows \in Nat \ {0}
  BY RowFacts
<1>5. /\ SigRows(p) \in Seq(LineType) /\ Len(SigRows(p)) = Rows /\ SigRows(p) # <<>>
      /\ \A k \in 1..Rows : /\ SigRows(p)[k].is = "sig" /\ SigRows(p)[k].of = p
                           /\ SigRows(p)[k].row = StringToRows(SigLen)[k]
  BY <1>1, SigFacts
<1>6. \A k \in 1..Rows : SigRows(p)[k] \in LineType
  BY <1>5
<1>7. ASSUME recs[p].kind # "nosig", NEW k \in 1..Rows, recs[p].kind # "cut" \/ k # Rows
      PROVE  SigRows(p)[k] \in Plain(recs)
  <2>1. recs[p].kind # "cut" \/ StringToRows(SigLen)[k] # StringToRows(SigLen)[Rows]
    BY <1>4, <1>7, RowFacts
  <2>2. LineOK(recs, SigRows(p)[k])
    BY <1>5, <1>7, <2>1 DEF LineOK
  <2> QED
    BY <1>5, <1>6, <2>2 DEF Plain
<1>8. ASSUME recs[p].kind \notin {"nosig", "cut"} PROVE SigRows(p) \in Seq(Plain(recs))
  <2>1. \A k \in 1..Rows : SigRows(p)[k] \in Plain(recs)
    BY <1>7, <1>8
  <2>2. SigRows(p) \in [1..Rows -> Plain(recs)]
    BY <1>5, <2>1
  <2> QED
    BY <1>4, <2>2
<1>9. ASSUME recs[p].kind # "nosig" PROVE Front(SigRows(p)) \in Seq(Plain(recs))
  <2>1. /\ Front(SigRows(p)) \in Seq(LineType) /\ Len(Front(SigRows(p))) = Rows - 1
        /\ \A k \in 1..(Rows - 1) : Front(SigRows(p))[k] = SigRows(p)[k] /\ k \in 1..Rows
    BY <1>5, FrontFacts
  <2>2. \A k \in 1..(Rows - 1) : Front(SigRows(p))[k] \in Plain(recs)
    BY <1>4, <1>7, <1>9, <2>1
  <2>3. Front(SigRows(p)) \in [1..(Rows - 1) -> Plain(recs)]
    BY <1>4, <2>1, <2>2
  <2> QED
    BY <1>4, <2>3
<1> QED
  BY <1>2, <1>3, <1>8, <1>9

(* Lines of one announcement are in order, unless it is without a gap and    *)
(* its record is one of them.                                                *)
LEMMA MineLines ==
  ASSUME NEW recs \in Seq(Announcement), NEW p \in DOMAIN recs, NEW s,
         IF recs[p].kind = "nogap" THEN s \in Seq(Plain(recs)) ELSE s \in Seq(Mine(recs, p))
  PROVE  LinesOK(recs, s)
<1>1. Line("record", p) \in LineType /\ Line("record", p).is = "record" /\ Line("record", p).of = p
  BY DEF Line, LineType, LineKinds
<1>2. LineOK(recs, Line("record", p))
  BY <1>1 DEF LineOK
<1>3. Plain(recs) \subseteq Mine(recs, p) /\ Mine(recs, p) \subseteq LineType
  BY <1>1 DEF Mine, Plain
<1>4. s \in Seq(Mine(recs, p))
  BY <1>3, SeqMonotonic
<1>5. s \in Seq(LineType)
  BY <1>3, <1>4, SeqMonotonic
<1>6. \A i \in 1..Len(s) : s[i] \in Mine(recs, p) /\ (recs[p].kind = "nogap" => s[i] \in Plain(recs))
  BY <1>4
<1>7. \A i \in 1..Len(s) : LineOK(recs, s[i])
  BY <1>2, <1>6 DEF Mine, Plain
<1>8. ASSUME NEW i \in 1..(Len(s) - 1) PROVE PairOK(recs, s[i], s[i + 1])
  <2>1. i \in 1..Len(s)
    BY <1>5
  <2>2. s[i] \in Plain(recs) \/ (s[i] = Line("record", p) /\ recs[p].kind # "nogap")
    BY <1>6, <2>1 DEF Mine
  <2>3. s[i].is \notin {"sep", "record"} \/ (s[i].is = "record" /\ s[i].of = p /\ recs[p].kind # "nogap")
    BY <1>1, <2>2 DEF Plain
  <2> QED
    BY <2>3 DEF PairOK
<1> QED
  BY <1>5, <1>7, <1>8 DEF LinesOK

(* The front of two sequences is the first and the front of the second.      *)
LEMMA FrontOfJoin ==
  ASSUME NEW S, NEW s \in Seq(S), NEW t \in Seq(S), t # <<>>
  PROVE  Front(s \o t) = s \o Front(t)
<1> DEFINE u == s \o t
           v == s \o Front(t)
<1>1. /\ u \in Seq(S) /\ Len(s) \in Nat /\ Len(t) \in Nat /\ Len(u) = Len(s) + Len(t)
      /\ \A i \in 1..Len(s) : u[i] = s[i]
      /\ \A i \in 1..Len(t) : u[Len(s) + i] = t[i]
  BY JoinFacts
<1>2. /\ Front(t) \in Seq(S) /\ Len(t) # 0 /\ Len(Front(t)) = Len(t) - 1
      /\ \A i \in 1..(Len(t) - 1) : Front(t)[i] = t[i]
  BY FrontFacts
<1>3. /\ v \in Seq(S) /\ Len(v) = Len(s) + Len(Front(t))
      /\ \A i \in 1..Len(s) : v[i] = s[i]
      /\ \A i \in 1..Len(Front(t)) : v[Len(s) + i] = Front(t)[i]
  <2>1. PICK w \in Seq(S) : w = Front(t)
    BY <1>2
  <2>2. /\ s \o w \in Seq(S) /\ Len(s \o w) = Len(s) + Len(w)
        /\ \A i \in 1..Len(s) : (s \o w)[i] = s[i]
        /\ \A i \in 1..Len(w) : (s \o w)[Len(s) + i] = w[i]
    BY JoinFacts
  <2> QED
    BY <2>1, <2>2
<1> HIDE DEF u, v
<1>4. u # <<>>
  BY <1>1, <1>2
<1>5. /\ Front(u) \in Seq(S) /\ Len(Front(u)) = Len(u) - 1
      /\ \A i \in 1..(Len(u) - 1) : Front(u)[i] = u[i]
  BY <1>1, <1>4, FrontFacts
<1>6. Len(Front(u)) = Len(v)
  BY <1>1, <1>2, <1>3, <1>5
<1>7. ASSUME NEW i \in 1..Len(v) PROVE Front(u)[i] = v[i]
  <2>1. Front(u)[i] = u[i]
    BY <1>5, <1>6, <1>7
  <2>2. CASE i \in 1..Len(s)
    BY <1>1, <1>3, <2>1, <2>2
  <2>3. CASE i \notin 1..Len(s)
    <3>1. i = Len(s) + (i - Len(s)) /\ i - Len(s) \in 1..(Len(t) - 1)
      BY <1>1, <1>2, <1>3, <2>3
    <3>2. PICK j \in 1..(Len(t) - 1) : i = Len(s) + j
      BY <3>1
    <3>3. j \in 1..Len(t) /\ j \in 1..Len(Front(t))
      BY <1>1, <1>2
    <3> QED
      BY <1>1, <1>2, <1>3, <2>1, <3>2, <3>3
  <2> QED
    BY <2>2, <2>3
<1>8. Front(u) = v
  BY <1>3, <1>5, <1>6, <1>7, SeqEqual
<1> QED
  BY <1>8 DEF u, v

(* The first of two sequences comes first.                                   *)
LEMMA JoinFirst ==
  ASSUME NEW S, NEW s \in Seq(S), NEW t \in Seq(S), s # <<>>
  PROVE  /\ s \o t \in Seq(S) /\ s \o t # <<>> /\ (s \o t)[1] = s[1]
         /\ Len(s \o t) >= Len(s) /\ Len(s \o t) \in Nat
<1>1. /\ s \o t \in Seq(S) /\ Len(s) \in Nat /\ Len(t) \in Nat
      /\ Len(s \o t) = Len(s) + Len(t)
      /\ \A i \in 1..Len(s) : (s \o t)[i] = s[i]
  BY JoinFacts
<1>2. Len(s) >= 1
  BY <1>1
<1>3. (s \o t)[1] = s[1]
  BY <1>1, <1>2
<1>4. Len(s \o t) # 0
  BY <1>1, <1>2
<1> QED
  BY <1>1, <1>3, <1>4

(* Without its first two lines a text is what follows them.                  *)
LEMMA TailTail ==
  ASSUME NEW S, NEW a \in S, NEW b \in S, NEW r \in Seq(S)
  PROVE  Tail(Tail(<<a, b>> \o r)) = r
<1> DEFINE u == <<a, b>> \o r
<1>1. /\ u \in Seq(S) /\ Len(u) = Len(r) + 2 /\ Len(r) \in Nat
      /\ \A i \in 1..Len(r) : u[2 + i] = r[i]
  <2>0. <<a, b>> \in Seq(S) /\ Len(<<a, b>>) = 2
    OBVIOUS
  <2>1. PICK w \in Seq(S) : w = <<a, b>> /\ Len(w) = 2
    BY <2>0
  <2>2. /\ w \o r \in Seq(S) /\ Len(w \o r) = Len(w) + Len(r) /\ Len(r) \in Nat
        /\ \A i \in 1..Len(r) : (w \o r)[Len(w) + i] = r[i]
    BY JoinFacts
  <2> QED
    BY <2>1, <2>2
<1> HIDE DEF u
<1>2. /\ Tail(u) \in Seq(S) /\ Len(Tail(u)) = Len(r) + 1
      /\ \A i \in 1..(Len(r) + 1) : Tail(u)[i] = u[i + 1]
  BY <1>1
<1>3. PICK v \in Seq(S) : v = Tail(u)
  BY <1>2
<1>4. /\ Tail(v) \in Seq(S) /\ Len(Tail(v)) = Len(r)
      /\ \A i \in 1..Len(r) : Tail(v)[i] = v[i + 1]
  BY <1>1, <1>2, <1>3
<1>5. ASSUME NEW i \in 1..Len(r) PROVE Tail(v)[i] = r[i]
  <2>1. i + 1 \in 1..(Len(r) + 1) /\ (i + 1) + 1 = 2 + i
    BY <1>1
  <2> QED
    BY <1>1, <1>2, <1>3, <1>4, <2>1
<1>6. Tail(v) = r
  BY <1>4, <1>5, SeqEqual
<1> QED
  BY <1>3, <1>6 DEF u

(* A line put before a text.                                                 *)
LEMMA ConsFacts ==
  ASSUME NEW a, NEW S, NEW t \in Seq(S), t # <<>>
  PROVE  /\ <<a>> \o t # <<>> /\ Len(<<a>> \o t) > 1 /\ (<<a>> \o t)[1] = a
         /\ a \in S => <<a>> \o t \in Seq(S)
<1>1. PICK U : U = S \cup {a}
  OBVIOUS
<1>2. <<a>> \in Seq(U) /\ t \in Seq(U) /\ Len(t) >= 1 /\ Len(<<a>>) = 1 /\ <<a>>[1] = a
  <2>1. t \in Seq(U)
    BY <1>1, SeqMonotonic
  <2> QED
    BY <1>1, <2>1
<1>3. /\ Len(<<a>> \o t) = 1 + Len(t) /\ (<<a>> \o t)[1] = a /\ Len(t) \in Nat
      /\ <<a>> \o t \in Seq(U)
  BY <1>2, JoinFacts
<1>4. a \in S => U = S
  BY <1>1
<1>5. Len(<<a>> \o t) # 0 /\ Len(<<a>> \o t) > 1
  BY <1>2, <1>3
<1> QED
  BY <1>3, <1>4, <1>5

(* A text of one record.                                                     *)
LEMMA RecordLine ==
  ASSUME NEW recs \in Seq(Announcement), NEW p \in DOMAIN recs
  PROVE  LET s == <<Line("record", p)>>
         IN  LinesOK(recs, s) /\ s # <<>> /\ s[Len(s)] = Line("record", p)
<1>1. Line("record", p) \in LineType /\ LineOK(recs, Line("record", p))
  BY DEF Line, LineType, LineKinds, LineOK
<1> QED
  BY <1>1 DEF LinesOK

(* What stands before the signature, and after the empty line of the record. *)
Lead(p) == <<Line("record", p), Empty>> \o Cert(p) \o <<Empty>>
Rest(p) == Cert(p) \o <<Empty>> \o SigRows(p) \o <<Empty>>

(* MarshalText by its parts, whichever part is cut off.                      *)
LEMMA MarshalFacts ==
  ASSUME NEW p \in Nat
  PROVE  /\ MarshalText(p) = Lead(p) \o SigRows(p) \o <<Empty>>
         /\ Lead(p) \in Seq(LineType) /\ SigRows(p) \in Seq(LineType) /\ SigRows(p) # <<>>
         /\ Front(Front(MarshalText(p))) = Lead(p) \o Front(SigRows(p))
         /\ MarshalText(p) = <<Line("record", p), Empty>> \o Rest(p)
         /\ Rest(p) \in Seq(LineType) /\ Rest(p) # <<>> /\ Rest(p)[1] = Line("cert", p)
         /\ Tail(Tail(MarshalText(p))) = Rest(p)
<1>1. MarshalText(p) = Lead(p) \o SigRows(p) \o <<Empty>>
  BY DEF MarshalText, Lead
<1>2. Line("record", p) \in LineType /\ Line("cert", p) \in LineType /\ Empty \in LineType
  BY DEF Line, Empty, LineType, LineKinds
<1>3. SigRows(p) \in Seq(LineType) /\ SigRows(p) # <<>>
  BY SigFacts
<1>4. /\ <<Line("record", p), Empty>> \in Seq(LineType) /\ Cert(p) \in Seq(LineType)
      /\ <<Empty>> \in Seq(LineType) /\ <<Empty>> # <<>>
      /\ Len(Cert(p)) = 2 /\ Cert(p)[1] = Line("cert", p)
  BY <1>2 DEF Cert
<1>5. Lead(p) \in Seq(LineType)
  BY <1>4 DEF Lead
<1>6. Lead(p) \o SigRows(p) \in Seq(LineType)
  BY <1>3, <1>5
<1>7. Front(MarshalText(p)) = Lead(p) \o SigRows(p)
  <2>1. Front(MarshalText(p)) = (Lead(p) \o SigRows(p)) \o Front(<<Empty>>)
    BY <1>1, <1>4, <1>6, FrontOfJoin
  <2>2. Front(<<Empty>>) = <<>>
    BY <1>2 DEF Front
  <2> QED
    BY <1>6, <2>1, <2>2, ConcatEmptySeq
<1>8. Front(Front(MarshalText(p))) = Lead(p) \o Front(SigRows(p))
  BY <1>3, <1>5, <1>7, FrontOfJoin
<1>9. Rest(p) \in Seq(LineType)
  BY <1>3, <1>4 DEF Rest
<1>10. MarshalText(p) = <<Line("record", p), Empty>> \o Rest(p)
  <2> DEFINE a == <<Line("record", p), Empty>>
             c == Cert(p)
             e == <<Empty>>
             g == SigRows(p)
  <2>1. a \in Seq(LineType) /\ c \in Seq(LineType) /\ e \in Seq(LineType) /\ g \in Seq(LineType)
    BY <1>3, <1>4
  <2>2. MarshalText(p) = a \o c \o e \o g \o e /\ Rest(p) = c \o e \o g \o e
    BY DEF MarshalText, Rest
  <2> HIDE DEF a, c, e, g
  <2>3. a \o c \o e = a \o (c \o e) /\ c \o e \in Seq(LineType)
    BY <2>1, ConcatAssociative
  <2>4. PICK d \in Seq(LineType) : d = c \o e
    BY <2>3
  <2>5. a \o d \o g = a \o (d \o g) /\ d \o g \in Seq(LineType)
    BY SMTT(30), <2>1, ConcatAssociative
  <2>6. PICK h \in Seq(LineType) : h = d \o g
    BY <2>5
  <2>7. a \o h \o e = a \o (h \o e)
    BY SMTT(30), <2>1, ConcatAssociative
  <2>8. MarshalText(p) = a \o Rest(p)
    BY <2>2, <2>3, <2>4, <2>5, <2>6, <2>7
  <2> QED
    BY <2>8 DEF a
<1>11. Rest(p) # <<>> /\ Rest(p)[1] = Line("cert", p)
  <2> DEFINE ce == Cert(p) \o <<Empty>>
             ceg == ce \o SigRows(p)
  <2>1. ce \in Seq(LineType) /\ Len(ce) = 3 /\ ce[1] = Line("cert", p)
    BY <1>4, JoinFacts
  <2> HIDE DEF ce
  <2>2. ceg \in Seq(LineType) /\ Len(ceg) \in Nat /\ Len(ceg) >= 3 /\ ceg[1] = Line("cert", p)
    BY <1>3, <2>1, JoinFacts
  <2> HIDE DEF ceg
  <2>3. Len(ceg \o <<Empty>>) # 0 /\ (ceg \o <<Empty>>)[1] = Line("cert", p)
    BY <1>4, <2>2, JoinFacts
  <2>4. Rest(p) = ceg \o <<Empty>>
    BY DEF Rest, ce, ceg
  <2> QED
    BY <2>3, <2>4
<1>12. Tail(Tail(MarshalText(p))) = Rest(p)
  BY SMTT(30), <1>2, <1>9, <1>10, TailTail
<1> QED
  BY <1>1, <1>3, <1>5, <1>8, <1>9, <1>10, <1>11, <1>12

(* The lines of an announcement of any kind are in order; the first one is   *)
(* not the record if it is blank.                                            *)
LEMMA BodyLines ==
  ASSUME NEW recs \in Seq(Announcement), NEW p \in DOMAIN recs
  PROVE  /\ LinesOK(recs, Body(recs[p], p))
         /\ Body(recs[p], p) # <<>> /\ Len(Body(recs[p], p)) > 1
         /\ PairOK(recs, Sep, Body(recs[p], p)[1])
<1> DEFINE M == Mine(recs, p)
           rec == Line("record", p)
           body == Body(recs[p], p)
           First(s) == s # <<>> /\ Len(s) > 1 /\ s[1] = rec
<1>1. p \in Nat /\ recs[p].kind \in Kinds
  <2>1. recs[p] \in Announcement
    OBVIOUS
  <2> QED
    BY <2>1 DEF Announcement
<1>2. /\ Empty \in Plain(recs)
      /\ recs[p].kind # "nocert" => Line("cert", p) \in Plain(recs)
      /\ recs[p].kind \notin {"nosig", "cut"} => SigRows(p) \in Seq(Plain(recs))
      /\ recs[p].kind # "nosig" => Front(SigRows(p)) \in Seq(Plain(recs))
  BY PartFacts
<1>3. recs[p].kind # "nocert" => Cert(p) \in Seq(Plain(recs))
  BY <1>2 DEF Cert
<1>4. /\ Empty \in M /\ rec \in M
      /\ recs[p].kind # "nocert" => Cert(p) \in Seq(M)
      /\ recs[p].kind \notin {"nosig", "cut"} => SigRows(p) \in Seq(M)
      /\ recs[p].kind # "nosig" => Front(SigRows(p)) \in Seq(M)
  <2>1. Plain(recs) \subseteq M /\ rec \in M
    BY DEF Mine
  <2>2. Seq(Plain(recs)) \subseteq Seq(M)
    BY <2>1, SeqMonotonic
  <2> QED
    BY <1>2, <1>3, <2>1, <2>2
<1>5. /\ rec.is = "record" /\ rec.of = p /\ Sep.is = "sep" /\ Empty.is = "empty"
      /\ Line("cert", p).is = "cert"
  BY DEF Line, Sep, Empty
<1>6. /\ MarshalText(p) = Lead(p) \o SigRows(p) \o <<Empty>>
      /\ Front(Front(MarshalText(p))) = Lead(p) \o Front(SigRows(p))
      /\ Rest(p)[1] = Line("cert", p) /\ Rest(p) # <<>>
      /\ Tail(Tail(MarshalText(p))) = Rest(p)
  BY <1>1, MarshalFacts
<1> HIDE DEF M, rec, body
<1>7. /\ <<Empty>> \in Seq(M) /\ <<Empty, Empty>> \in Seq(M) /\ <<rec>> \in Seq(M)
      /\ <<rec, Empty>> \in Seq(M) /\ First(<<rec, Empty>>)
      /\ <<rec, Empty, Empty>> \in Seq(M) /\ First(<<rec, Empty, Empty>>)
  BY <1>4
<1>8. ASSUME NEW s \in Seq(M), NEW t \in Seq(M), First(s)
      PROVE  s \o t \in Seq(M) /\ First(s \o t)
  BY <1>8, JoinFirst
<1>9. ASSUME recs[p].kind # "nocert" PROVE Lead(p) \in Seq(M) /\ First(Lead(p))
  <2>1. Lead(p) = <<rec, Empty>> \o Cert(p) \o <<Empty>>
    BY DEF Lead, rec
  <2>2. <<rec, Empty>> \o Cert(p) \in Seq(M) /\ First(<<rec, Empty>> \o Cert(p))
    BY <1>4, <1>7, <1>8, <1>9
  <2> QED
    BY <1>7, <1>8, <2>1, <2>2
<1>10. ASSUME recs[p].kind \notin {"nocert", "nosig", "cut"}
       PROVE  MarshalText(p) \in Seq(M) /\ First(MarshalText(p))
  <2>1. Lead(p) \o SigRows(p) \in Seq(M) /\ First(Lead(p) \o SigRows(p))
    BY <1>4, <1>8, <1>9, <1>10
  <2> QED
    BY <1>6, <1>7, <1>8, <2>1
<1>11. ASSUME recs[p].kind \notin {"nogap", "blank"}, body \in Seq(M), First(body)
       PROVE  LinesOK(recs, body) /\ First(body) /\ PairOK(recs, Sep, body[1])
  <2>1. LinesOK(recs, body)
    BY <1>11, MineLines DEF M
  <2> QED
    BY <1>5, <1>11, <2>1 DEF PairOK
<1>12. CASE recs[p].kind \in {"good", "invalid", "malformed"}
  <2>1. body = MarshalText(p)
    BY <1>12 DEF body, Body
  <2> QED
    BY <1>10, <1>11, <1>12, <2>1 DEF body
<1>13. CASE recs[p].kind = "cut"
  <2>1. body = Lead(p) \o Front(SigRows(p)) \o <<Empty>>
    BY <1>6, <1>13 DEF body, Body
  <2>2. Lead(p) \o Front(SigRows(p)) \in Seq(M) /\ First(Lead(p) \o Front(SigRows(p)))
    BY <1>4, <1>8, <1>9, <1>13
  <2>3. body \in Seq(M) /\ First(body)
    BY <1>7, <1>8, <2>1, <2>2
  <2> QED
    BY <1>11, <1>13, <2>3 DEF body
<1>14. CASE recs[p].kind = "nocert"
  <2>1. body = <<rec, Empty, Empty>> \o SigRows(p) \o <<Empty>>
    BY <1>14 DEF body, Body, rec
  <2>2. <<rec, Empty, Empty>> \o SigRows(p) \in Seq(M) /\ First(<<rec, Empty, Empty>> \o SigRows(p))
    BY <1>4, <1>7, <1>8, <1>14
  <2>3. body \in Seq(M) /\ First(body)
    BY <1>7, <1>8, <2>1, <2>2
  <2> QED
    BY <1>11, <1>14, <2>3 DEF body
<1>15. CASE recs[p].kind = "nosig"
  <2>1. body = <<rec, Empty>> \o Cert(p) \o <<Empty, Empty>>
    BY <1>15 DEF body, Body, rec
  <2>2. <<rec, Empty>> \o Cert(p) \in Seq(M) /\ First(<<rec, Empty>> \o Cert(p))
    BY <1>4, <1>7, <1>8, <1>15
  <2>3. body \in Seq(M) /\ First(body)
    BY <1>7, <1>8, <2>1, <2>2
  <2> QED
    BY <1>11, <1>15, <2>3 DEF body
<1>16. CASE recs[p].kind = "nogap"
  <2>1. body = <<rec>> \o Rest(p)
    BY <1>6, <1>16 DEF body, Body, rec
  <2>2. Rest(p) \in Seq(Plain(recs))
    <3>1. PICK c \in Seq(Plain(recs)) : c = Cert(p)
      BY <1>3, <1>16
    <3>0. <<Empty>> \in Seq(Plain(recs))
      BY <1>2
    <3>2. PICK e \in Seq(Plain(recs)) : e = <<Empty>>
      BY <3>0
    <3>3. PICK g \in Seq(Plain(recs)) : g = SigRows(p)
      BY <1>2, <1>16
    <3>4. c \o e \o g \o e \in Seq(Plain(recs))
      OBVIOUS
    <3> QED
      BY <3>1, <3>2, <3>3, <3>4 DEF Rest
  <2>3. LinesOK(recs, Rest(p))
    BY <1>16, <2>2, MineLines
  <2>4. LinesOK(recs, <<rec>>) /\ <<rec>> # <<>> /\ <<rec>>[Len(<<rec>>)] = rec
    BY <1>1, RecordLine DEF rec
  <2>5. PairOK(recs, rec, Rest(p)[1])
    BY <1>5, <1>6 DEF PairOK
  <2>6. LinesOK(recs, <<rec>> \o Rest(p))
    BY <2>3, <2>4, <2>5, JoinLines
  <2>7. First(<<rec>> \o Rest(p))
    BY <1>6, <2>3, ConsFacts DEF LinesOK
  <2>8. PairOK(recs, Sep, rec)
    BY <1>5, <1>16 DEF PairOK
  <2> QED
    BY <2>1, <2>6, <2>7, <2>8 DEF body
<1>17. CASE recs[p].kind = "blank"
  <2>1. body = <<Empty>> \o MarshalText(p)
    BY <1>17 DEF body, Body
  <2>2. MarshalText(p) \in Seq(M) /\ MarshalText(p) # <<>>
    BY <1>10, <1>17
  <2>3. /\ body \in Seq(M) /\ body # <<>> /\ Len(body) > 1 /\ body[1] = Empty
    BY <1>4, <2>1, <2>2, ConsFacts
  <2>4. LinesOK(recs, body)
    BY <1>17, <2>3, MineLines DEF M
  <2>5. PairOK(recs, Sep, Empty)
    BY <1>5 DEF PairOK
  <2> QED
    BY <2>3, <2>4, <2>5 DEF body
<1> QED
  BY <1>1, <1>12, <1>13, <1>14, <1>15, <1>16, <1>17 DEF Kinds, body

-----------------------------------------------------------------------------
(* The text of a whole file *)

(* One more announcement.                                                    *)
LEMMA AddedLines ==
  ASSUME NEW recs \in Seq(Announcement), NEW p \in DOMAIN recs, NEW lines, LinesOK(recs, lines)
  PROVE  LinesOK(recs, AddLines(lines, recs, p))
<1> DEFINE body == Body(recs[p], p)
           part == IF recs[p].runOn THEN Front(body) ELSE body
           s == lines \o <<Sep>>
<1>1. LinesOK(recs, body) /\ body # <<>> /\ Len(body) > 1 /\ PairOK(recs, Sep, body[1])
  BY BodyLines
<1> HIDE DEF body
<1>2. LinesOK(recs, part) /\ part[1] = body[1]
  <2>1. LinesOK(recs, Front(body))
    BY <1>1, FrontLines
  <2>2. body \in Seq(LineType)
    BY <1>1 DEF LinesOK
  <2>3. Front(body)[1] = body[1]
    <3>1. /\ Len(body) \in Nat
          /\ \A i \in 1..(Len(body) - 1) : Front(body)[i] = body[i]
      BY <1>1, <2>2, FrontFacts
    <3> QED
      BY <1>1, <3>1
  <2> QED
    BY <1>1, <2>1, <2>3
<1>3. Sep \in LineType /\ Sep.is = "sep"
  BY DEF Sep, Line, LineType, LineKinds
<1>4. LinesOK(recs, <<Sep>>) /\ <<Sep>> # <<>> /\ <<Sep>>[1] = Sep
  BY <1>3 DEF LinesOK, LineOK
<1>5. \A l : PairOK(recs, l, Sep)
  BY <1>3 DEF PairOK
<1>6. LinesOK(recs, s)
  BY <1>4, <1>5, JoinLines
<1>7. s # <<>> /\ s[Len(s)] = Sep
  <2>1. /\ lines \in Seq(LineType) /\ <<Sep>> \in Seq(LineType) /\ Len(<<Sep>>) = 1
    BY <1>3 DEF LinesOK
  <2>2. /\ Len(s) = Len(lines) + 1 /\ Len(lines) \in Nat
        /\ \A i \in 1..1 : s[Len(lines) + i] = <<Sep>>[i]
    BY <2>1, JoinFacts
  <2>3. s[Len(lines) + 1] = Sep
    BY <1>4, <2>2
  <2>4. Len(s) # 0
    BY <2>2
  <2> QED
    BY <2>2, <2>3, <2>4
<1>8. AddLines(lines, recs, p) = s \o part
  BY DEF AddLines, body
<1> HIDE DEF s, part
<1>9. LinesOK(recs, s \o part)
  BY <1>1, <1>2, <1>6, <1>7, JoinLines
<1> QED
  BY <1>8, <1>9

(* The lines of any file are in order.                                       *)
LEMMA TextLines ==
  ASSUME NEW recs \in Seq(Announcement)
  PROVE  LinesOK(recs, Text(recs))
<1>1. PICK f : /\ f = [p \in 0..Len(recs) |-> IF p = 0 THEN <<>> ELSE AddLines(f[p - 1], recs, p)]
               /\ Text(recs) = f[Len(recs)]
  BY TextSteps
<1> DEFINE T == {n \in Nat : n <= Len(recs) => LinesOK(recs, f[n])}
<1>2. Len(recs) \in Nat
  OBVIOUS
<1>3. 0 \in T
  <2>1. f[0] = <<>>
    BY <1>1, <1>2
  <2>2. LinesOK(recs, <<>>)
    <3>1. <<>> \in Seq(LineType) /\ Len(<<>>) = 0
      OBVIOUS
    <3> QED
      BY <3>1 DEF LinesOK
  <2> QED
    BY <2>1, <2>2
<1>4. ASSUME NEW n \in Nat, n \in T PROVE n + 1 \in T
  <2> SUFFICES ASSUME n + 1 <= Len(recs) PROVE LinesOK(recs, f[n + 1])
    OBVIOUS
  <2>1. LinesOK(recs, f[n])
    BY <1>2, <1>4
  <2>2. f[n + 1] = AddLines(f[n], recs, n + 1) /\ n + 1 \in DOMAIN recs
    BY <1>1, <1>2
  <2> QED
    BY <2>1, <2>2, AddedLines
<1>5. Len(recs) \in T
  <2> HIDE DEF T
  <2>1. Nat \subseteq T
    BY <1>3, <1>4, SetInduction
  <2> QED
    BY <1>2, <2>1
<1> QED
  BY <1>1, <1>5

-----------------------------------------------------------------------------
(* The scan *)

Places == {"slop", "record", "gap", "cert", "sig", "ended", "failed"}

ScanType(recs) ==
  [identIndex : [Idents -> Nat], actionIndex : [Actions -> Seq(DOMAIN recs)],
   at : Places, record : LineType, cert : Seq(LineType), sig : Seq(LineType)]

(* An announcement the scan may index: its record can be parsed and it is    *)
(* where a record should be; with verification on nothing else is wrong with *)
(* it either.                                                                *)
Indexable(recs, verify, p) ==
  /\ p \in DOMAIN recs
  /\ recs[p].kind \notin {"malformed", "blank", "nogap"}
  /\ verify => recs[p].kind = "good"

(* What is indexed is an announcement of that ident, or one that provides    *)
(* that action.                                                              *)
IndexOK(recs, verify, cache) ==
  /\ \A i \in Idents : cache.identIndex[i] # 0 =>
       /\ Indexable(recs, verify, cache.identIndex[i])
       /\ recs[cache.identIndex[i]].ident = i
  /\ \A a \in Actions : \A k \in 1..Len(cache.actionIndex[a]) :
       /\ Indexable(recs, verify, cache.actionIndex[a][k])
       /\ \E n \in recs[cache.actionIndex[a][k]].provides : ToLower[n] = a

(* What was read of the announcement at hand.                                *)
ReadOK(recs, scan) ==
  /\ LineOK(recs, scan.record)
  /\ \A k \in 1..Len(scan.cert) : LineOK(recs, scan.cert[k])
  /\ \A k \in 1..Len(scan.sig) : LineOK(recs, scan.sig[k])

(* Where the scan is after a line.                                           *)
AtOK(recs, scan, line) ==
  /\ scan.at = "record" => line = Sep
  /\ scan.at = "gap" => line = scan.record
  /\ scan.at \in {"gap", "cert", "sig"} /\ scan.record.is = "record" =>
       recs[scan.record.of].kind # "blank"
  /\ scan.at \in {"cert", "sig"} /\ scan.record.is = "record" =>
       recs[scan.record.of].kind # "nogap"

(* A step of the scan that only changes where it is.                         *)
LEMMA AtFacts ==
  ASSUME NEW recs, NEW scan \in ScanType(recs), NEW place \in Places
  PROVE  LET next == [scan EXCEPT !.at = place]
         IN  /\ next \in ScanType(recs)
             /\ next.at = place /\ next.record = scan.record
             /\ next.cert = scan.cert /\ next.sig = scan.sig
             /\ next.identIndex = scan.identIndex /\ next.actionIndex = scan.actionIndex
  BY DEF ScanType

(* An announcement that validates was written by MarshalText.                *)
LEMMA ValidatedIsGood ==
  ASSUME NEW recs \in Seq(Announcement), NEW p \in DOMAIN recs, NEW cert, NEW sig,
         \A k \in 1..Len(cert) : LineOK(recs, cert[k]),
         \A k \in 1..Len(sig) : LineOK(recs, sig[k]),
         Validate(recs, p, cert, sig),
         recs[p].kind \notin {"malformed", "blank", "nogap"}
  PROVE  recs[p].kind = "good"
<1>1. cert = Cert(p) /\ sig = SigRows(p) /\ recs[p].kind # "invalid"
  BY DEF Validate
<1>2. recs[p].kind # "nocert"
  <2>1. Len(cert) = 2 /\ cert[1] = Line("cert", p)
    BY <1>1 DEF Cert
  <2>2. LineOK(recs, Line("cert", p))
    BY <2>1
  <2> QED
    BY <2>2 DEF LineOK, Line
<1>3. recs[p].kind \notin {"nosig", "cut"}
  <2>1. Rows \in Nat \ {0}
    BY RowFacts
  <2>2. Rows \in 1..Rows /\ p \in Nat
    BY <2>1
  <2>3. /\ Len(sig) = Rows /\ sig[Rows].is = "sig" /\ sig[Rows].of = p
        /\ sig[Rows].row = StringToRows(SigLen)[Rows]
    BY <1>1, <2>2, SigFacts
  <2>4. LineOK(recs, sig[Rows])
    BY <2>2, <2>3
  <2> QED
    BY <2>3, <2>4 DEF LineOK
<1>4. recs[p].kind \in Kinds
  <2>1. recs[p] \in Announcement
    OBVIOUS
  <2> QED
    BY <2>1 DEF Announcement
<1> QED
  BY <1>1, <1>2, <1>3, <1>4 DEF Kinds

(* storeNoLock indexes an announcement under its ident and what it provides. *)
LEMMA StoredIsIndexed ==
  ASSUME NEW recs \in Seq(Announcement), NEW verify, NEW p, NEW scan \in ScanType(recs),
         IndexOK(recs, verify, scan), Indexable(recs, verify, p)
  PROVE  LET next == StoreNoLock(scan, recs, p)
         IN  next \in ScanType(recs) /\ next.at = scan.at /\ IndexOK(recs, verify, next)
<1> DEFINE next == StoreNoLock(scan, recs, p)
           Mines(a) == {n \in recs[p].provides : ToLower[n] = a}
           new == [a \in Actions |-> scan.actionIndex[a] \o [k \in 1..Cardinality(Mines(a)) |-> p]]
           idents == [scan.identIndex EXCEPT ![recs[p].ident] = p]
<1>1. p \in DOMAIN recs /\ p \in Nat
  BY DEF Indexable
<1>2. recs[p].ident \in Idents /\ recs[p].provides \subseteq Names
  <2>1. recs[p] \in Announcement
    BY <1>1
  <2> QED
    BY <2>1 DEF Announcement
<1>3. /\ scan.identIndex \in [Idents -> Nat] /\ scan.actionIndex \in [Actions -> Seq(DOMAIN recs)]
      /\ scan.at \in Places /\ scan.record \in LineType
      /\ scan.cert \in Seq(LineType) /\ scan.sig \in Seq(LineType)
      /\ scan = [identIndex |-> scan.identIndex, actionIndex |-> scan.actionIndex, at |-> scan.at,
                 record |-> scan.record, cert |-> scan.cert, sig |-> scan.sig]
  BY DEF ScanType
<1>4. \A a \in Actions : Cardinality(Mines(a)) \in Nat /\ (Cardinality(Mines(a)) # 0 => Mines(a) # {})
  <2> SUFFICES ASSUME NEW a \in Actions
               PROVE  Cardinality(Mines(a)) \in Nat /\ (Cardinality(Mines(a)) # 0 => Mines(a) # {})
    OBVIOUS
  <2>1. Mines(a) \subseteq Names
    BY <1>2
  <2>2. IsFiniteSet(Mines(a))
    BY <2>1, NamesAssumption, FS_Subset
  <2> QED
    BY <2>2, FS_CardinalityType, FS_EmptySet
<1>5. next = [identIndex |-> idents, actionIndex |-> new, at |-> scan.at,
              record |-> scan.record, cert |-> scan.cert, sig |-> scan.sig]
  <2>1. PICK d : d = [scan EXCEPT !.identIndex[recs[p].ident] = p]
    OBVIOUS
  <2>2. d = [identIndex |-> idents, actionIndex |-> scan.actionIndex, at |-> scan.at,
             record |-> scan.record, cert |-> scan.cert, sig |-> scan.sig]
    BY <1>3, <2>1
  <2>3. next = [d EXCEPT !.actionIndex = new]
    BY <1>2, <1>3, <2>1, <2>2 DEF StoreNoLock
  <2> HIDE DEF idents, new, next
  <2> QED
    BY <2>2, <2>3
<1>6. idents \in [Idents -> Nat] /\ \A i \in Idents : idents[i] = IF i = recs[p].ident THEN p ELSE scan.identIndex[i]
  BY <1>1, <1>2, <1>3
<1>7. ASSUME NEW a \in Actions
      PROVE  /\ new[a] \in Seq(DOMAIN recs)
             /\ \A k \in 1..Len(new[a]) : \/ k \in 1..Len(scan.actionIndex[a]) /\ new[a][k] = scan.actionIndex[a][k]
                                          \/ new[a][k] = p /\ Mines(a) # {}
  <2> DEFINE c == Cardinality(Mines(a))
             t == [k \in 1..c |-> p]
             s == scan.actionIndex[a]
             u == s \o t
  <2>1. c \in Nat /\ (c # 0 => Mines(a) # {})
    BY <1>4
  <2>2. new[a] = u
    OBVIOUS
  <2> HIDE DEF c, new, Mines
  <2>3. t \in Seq(DOMAIN recs) /\ Len(t) = c /\ \A k \in 1..c : t[k] = p
    BY <1>1, <2>1
  <2>4. s \in Seq(DOMAIN recs) /\ t \in Seq(DOMAIN recs)
    BY <1>3, <2>3
  <2> HIDE DEF s, t
  <2>5. /\ u \in Seq(DOMAIN recs) /\ Len(s) \in Nat
        /\ Len(u) = Len(s) + Len(t)
        /\ \A i \in 1..Len(s) : u[i] = s[i]
        /\ \A i \in 1..Len(t) : u[Len(s) + i] = t[i]
    BY <2>4, JoinFacts
  <2> HIDE DEF u
  <2>6. ASSUME NEW k \in 1..Len(u), k \notin 1..Len(s) PROVE u[k] = p /\ c # 0
    <3>1. k = Len(s) + (k - Len(s)) /\ k - Len(s) \in 1..c
      BY <2>1, <2>3, <2>5, <2>6
    <3>2. PICK j \in 1..c : k = Len(s) + j
      BY <3>1
    <3>3. u[Len(s) + j] = t[j] /\ t[j] = p /\ c # 0
      BY <2>1, <2>3, <2>5
    <3> QED
      BY <3>2, <3>3
  <2>7. ASSUME NEW k \in 1..Len(u)
        PROVE  \/ k \in 1..Len(s) /\ u[k] = s[k]
               \/ u[k] = p /\ Mines(a) # {}
    <3>1. CASE k \in 1..Len(s)
      BY <2>5, <3>1
    <3>2. CASE k \notin 1..Len(s)
      BY <2>1, <2>6, <3>2
    <3> QED
      BY <3>1, <3>2
  <2> QED
    BY <2>2, <2>5, <2>7 DEF s
<1> HIDE DEF idents
<1>8. new \in [Actions -> Seq(DOMAIN recs)]
  BY <1>7
<1>9. ASSUME NEW i \in Idents, idents[i] # 0
      PROVE  Indexable(recs, verify, idents[i]) /\ recs[idents[i]].ident = i
  BY <1>6, <1>9 DEF IndexOK
<1>10. ASSUME NEW a \in Actions, NEW k \in 1..Len(new[a])
       PROVE  Indexable(recs, verify, new[a][k]) /\ \E n \in recs[new[a][k]].provides : ToLower[n] = a
  <2>1. CASE k \in 1..Len(scan.actionIndex[a]) /\ new[a][k] = scan.actionIndex[a][k]
    BY <2>1 DEF IndexOK
  <2>2. CASE new[a][k] = p /\ Mines(a) # {}
    BY <2>2
  <2> HIDE DEF new, Mines
  <2> QED
    BY <1>7, <2>1, <2>2
<1> HIDE DEF new, next
<1>11. /\ next.identIndex = idents /\ next.actionIndex = new /\ next.at = scan.at
       /\ next \in ScanType(recs)
  BY <1>3, <1>5, <1>6, <1>8 DEF ScanType
<1>12. IndexOK(recs, verify, next)
  BY <1>9, <1>10, <1>11 DEF IndexOK
<1> QED
  BY <1>11, <1>12 DEF next

(* removeNoLock takes an ident out of the index, and nothing else.           *)
LEMMA RemovedIsGone ==
  ASSUME NEW recs \in Seq(Announcement), NEW verify, NEW p \in DOMAIN recs, NEW scan \in ScanType(recs),
         IndexOK(recs, verify, scan)
  PROVE  LET next == RemoveNoLock(scan, recs, p)
         IN  next \in ScanType(recs) /\ next.at = scan.at /\ IndexOK(recs, verify, next)
<1> DEFINE next == RemoveNoLock(scan, recs, p)
           idents == [scan.identIndex EXCEPT ![recs[p].ident] = 0]
<1>1. recs[p].ident \in Idents
  <2>1. recs[p] \in Announcement
    OBVIOUS
  <2> QED
    BY <2>1 DEF Announcement
<1>2. /\ scan.identIndex \in [Idents -> Nat] /\ scan.actionIndex \in [Actions -> Seq(DOMAIN recs)]
      /\ scan.at \in Places /\ scan.record \in LineType
      /\ scan.cert \in Seq(LineType) /\ scan.sig \in Seq(LineType)
      /\ scan = [identIndex |-> scan.identIndex, actionIndex |-> scan.actionIndex, at |-> scan.at,
                 record |-> scan.record, cert |-> scan.cert, sig |-> scan.sig]
  BY DEF ScanType
<1>3. idents \in [Idents -> Nat] /\ \A i \in Idents : idents[i] \in {0, scan.identIndex[i]}
  BY <1>1, <1>2
<1>4. next = [identIndex |-> idents, actionIndex |-> scan.actionIndex, at |-> scan.at,
              record |-> scan.record, cert |-> scan.cert, sig |-> scan.sig]
  <2>1. PICK d : d = [scan EXCEPT !.identIndex[recs[p].ident] = 0]
    OBVIOUS
  <2>2. d = [identIndex |-> idents, actionIndex |-> scan.actionIndex, at |-> scan.at,
             record |-> scan.record, cert |-> scan.cert, sig |-> scan.sig]
    BY <1>2, <2>1
  <2>3. next = d
    BY <2>1 DEF RemoveNoLock
  <2> QED
    BY <2>2, <2>3
<1> HIDE DEF next, idents
<1>5. /\ next.identIndex = idents /\ next.actionIndex = scan.actionIndex /\ next.at = scan.at
      /\ next \in ScanType(recs)
  BY <1>2, <1>3, <1>4 DEF ScanType
<1>6. ASSUME NEW i \in Idents, idents[i] # 0
      PROVE  Indexable(recs, verify, idents[i]) /\ recs[idents[i]].ident = i
  <2>1. idents[i] = scan.identIndex[i]
    BY <1>3, <1>6
  <2> QED
    BY <1>6, <2>1 DEF IndexOK
<1>7. IndexOK(recs, verify, next)
  BY <1>5, <1>6 DEF IndexOK
<1> QED
  BY <1>5, <1>7 DEF next

(* The end of an announcement keeps the indexes sound.                       *)
LEMMA EndedIsIndexed ==
  ASSUME NEW recs \in Seq(Announcement), NEW verify \in BOOLEAN, NEW scan \in ScanType(recs),
         IndexOK(recs, verify, scan), ReadOK(recs, scan),
         scan.record.is = "record" => recs[scan.record.of].kind \notin {"blank", "nogap"}
  PROVE  LET next == EndSig(scan, recs, verify)
         IN  next \in ScanType(recs) /\ next.at \in {"slop", "failed"} /\ IndexOK(recs, verify, next)
<1> DEFINE p == scan.record.of
           slop == [scan EXCEPT !.at = "slop"]
           failed == [scan EXCEPT !.at = "failed"]
<1>1. "slop" \in Places /\ "failed" \in Places
  BY DEF Places
<1>2. /\ slop \in ScanType(recs) /\ slop.at = "slop"
      /\ slop.identIndex = scan.identIndex /\ slop.actionIndex = scan.actionIndex
  BY <1>1, AtFacts
<1>3. /\ failed \in ScanType(recs) /\ failed.at = "failed"
      /\ failed.identIndex = scan.identIndex /\ failed.actionIndex = scan.actionIndex
  BY <1>1, AtFacts
<1> HIDE DEF slop, failed
<1>4. IndexOK(recs, verify, slop) /\ IndexOK(recs, verify, failed)
  BY <1>2, <1>3 DEF IndexOK
<1>5. CASE scan.sig = <<>>
  BY <1>2, <1>4, <1>5 DEF EndSig, slop
<1>6. CASE scan.sig # <<>> /\ ~Parses(recs, scan.record)
  <2>1. EndSig(scan, recs, verify) = failed
    BY <1>6 DEF EndSig, Keep, failed
  <2> QED
    BY <1>3, <1>4, <2>1
<1>7. CASE scan.sig # <<>> /\ Parses(recs, scan.record)
  <2>1. /\ p \in DOMAIN recs /\ scan.record.is = "record"
        /\ recs[p].kind \notin {"malformed", "blank", "nogap"}
    BY <1>7 DEF Parses, ReadOK, LineOK
  <2>2. CASE verify /\ ~Validate(recs, p, scan.cert, scan.sig)
    <3>1. EndSig(scan, recs, verify) = RemoveNoLock(slop, recs, p)
      BY <1>7, <2>2 DEF EndSig, Keep, slop
    <3> HIDE DEF p
    <3> QED
      BY <1>2, <1>4, <2>1, <3>1, RemovedIsGone
  <2>3. CASE ~(verify /\ ~Validate(recs, p, scan.cert, scan.sig))
    <3>1. EndSig(scan, recs, verify) = StoreNoLock(slop, recs, p)
      BY <1>7, <2>3 DEF EndSig, Keep, slop
    <3>2. verify => recs[p].kind = "good"
      <4> SUFFICES ASSUME verify PROVE recs[p].kind = "good"
        OBVIOUS
      <4>1. Validate(recs, p, scan.cert, scan.sig)
        BY <2>3
      <4> HIDE DEF p
      <4> QED
        BY <2>1, <4>1, ValidatedIsGood DEF ReadOK
    <3>3. Indexable(recs, verify, p)
      BY <2>1, <3>2 DEF Indexable
    <3> HIDE DEF p
    <3> QED
      BY <1>2, <1>4, <3>1, <3>3, StoredIsIndexed
  <2> QED
    BY <2>2, <2>3
<1> QED
  BY <1>5, <1>6, <1>7

(* The state of the scan after a line.                                       *)
ScanOK(recs, verify, scan, line) ==
  /\ scan \in ScanType(recs)
  /\ IndexOK(recs, verify, scan)
  /\ ReadOK(recs, scan)
  /\ AtOK(recs, scan, line)

(* Lines that are read one by one.                                           *)
LEMMA AppendedLines ==
  ASSUME NEW recs, NEW s \in Seq(LineType), NEW l \in LineType,
         \A k \in 1..Len(s) : LineOK(recs, s[k]), LineOK(recs, l)
  PROVE  \A k \in 1..Len(Append(s, l)) : LineOK(recs, Append(s, l)[k])
<1>1. /\ Len(s) \in Nat /\ Len(Append(s, l)) = Len(s) + 1
      /\ \A k \in 1..Len(s) : Append(s, l)[k] = s[k]
      /\ Append(s, l)[Len(s) + 1] = l
  OBVIOUS
<1>2. ASSUME NEW k \in 1..(Len(s) + 1) PROVE LineOK(recs, Append(s, l)[k])
  <2>1. CASE k \in 1..Len(s)
    BY <1>1, <2>1
  <2>2. CASE k = Len(s) + 1
    BY <1>1, <2>2
  <2> QED
    BY <1>1, <2>1, <2>2
<1> QED
  BY <1>1, <1>2

(* What the end of an announcement leaves as it was.                         *)
LEMMA EndKeeps ==
  ASSUME NEW recs, NEW verify, NEW scan \in ScanType(recs)
  PROVE  LET next == EndSig(scan, recs, verify)
         IN  next.record = scan.record /\ next.cert = scan.cert /\ next.sig = scan.sig
  BY DEF EndSig, Keep, StoreNoLock, RemoveNoLock, ScanType

(* Where the scan starts.                                                    *)
LEMMA ClearedIsOK ==
  ASSUME NEW recs \in Seq(Announcement), NEW verify
  PROVE  ScanOK(recs, verify, Cleared, Empty)
<1>1. /\ Cleared.identIndex = [i \in Idents |-> 0] /\ Cleared.actionIndex = [a \in Actions |-> <<>>]
      /\ Cleared.at = "slop" /\ Cleared.record = Empty /\ Cleared.cert = <<>> /\ Cleared.sig = <<>>
  BY DEF Cleared
<1>2. Empty \in LineType /\ Empty.is = "empty" /\ "slop" \in Places
  BY DEF Empty, Line, LineType, LineKinds, Places
<1>3. <<>> \in Seq(LineType) /\ <<>> \in Seq(DOMAIN recs) /\ Len(<<>>) = 0
  OBVIOUS
<1>4. Cleared \in ScanType(recs)
  <2>1. [i \in Idents |-> 0] \in [Idents -> Nat] /\ [a \in Actions |-> <<>>] \in [Actions -> Seq(DOMAIN recs)]
    BY <1>3
  <2> QED
    BY <1>2, <1>3, <2>1 DEF Cleared, ScanType
<1>5. IndexOK(recs, verify, Cleared)
  <2>1. \A a \in Actions : Len(Cleared.actionIndex[a]) = 0
    BY <1>1, <1>3
  <2>2. \A i \in Idents : Cleared.identIndex[i] = 0
    BY <1>1
  <2> QED
    BY <2>1, <2>2 DEF IndexOK
<1>6. ReadOK(recs, Cleared)
  BY <1>1, <1>2, <1>3 DEF ReadOK, LineOK
<1>7. AtOK(recs, Cleared, Empty)
  BY <1>1 DEF AtOK
<1> QED
  BY <1>4, <1>5, <1>6, <1>7 DEF ScanOK

(* A step that only changes where the scan is, to a place where nothing is   *)
(* asked of the line or of the record.                                       *)
LEMMA MovedIsOK ==
  ASSUME NEW recs, NEW verify, NEW scan \in ScanType(recs), NEW line,
         IndexOK(recs, verify, scan), ReadOK(recs, scan), NEW place \in {"slop", "ended", "failed"}
  PROVE  ScanOK(recs, verify, [scan EXCEPT !.at = place], line)
<1> DEFINE next == [scan EXCEPT !.at = place]
<1>1. place \in Places
  BY DEF Places
<1>2. /\ next \in ScanType(recs)
      /\ next.at = place /\ next.record = scan.record
      /\ next.cert = scan.cert /\ next.sig = scan.sig
      /\ next.identIndex = scan.identIndex /\ next.actionIndex = scan.actionIndex
  BY <1>1, AtFacts
<1> HIDE DEF next
<1>3. ReadOK(recs, next) /\ IndexOK(recs, verify, next)
  BY <1>2 DEF ReadOK, IndexOK
<1>4. AtOK(recs, next, line)
  BY <1>2 DEF AtOK
<1>5. ScanOK(recs, verify, next, line)
  BY <1>2, <1>3, <1>4 DEF ScanOK
<1> QED
  BY <1>5 DEF next

(* One line more.                                                            *)
LEMMA ScannedLine ==
  ASSUME NEW recs \in Seq(Announcement), NEW verify \in BOOLEAN, NEW scan, NEW last, NEW line \in LineType,
         ScanOK(recs, verify, scan, last), LineOK(recs, line),
         scan.at \in {"record", "gap"} => PairOK(recs, last, line)
  PROVE  ScanOK(recs, verify, ScanLine(scan, recs, verify, line), line)
<1> DEFINE Go(place) == [scan EXCEPT !.at = place]
           next == ScanLine(scan, recs, verify, line)
<1>1. /\ scan \in ScanType(recs) /\ IndexOK(recs, verify, scan)
      /\ ReadOK(recs, scan) /\ AtOK(recs, scan, last)
  BY DEF ScanOK
<1>2. /\ scan.at \in Places /\ scan.record \in LineType
      /\ scan.cert \in Seq(LineType) /\ scan.sig \in Seq(LineType)
  BY <1>1 DEF ScanType
<1>3. /\ ScanOK(recs, verify, Go("slop"), line) /\ ScanOK(recs, verify, Go("ended"), line)
      /\ ScanOK(recs, verify, Go("failed"), line)
  BY <1>1, MovedIsOK
<1>4. ASSUME NEW place \in {"record", "cert", "sig"}
      PROVE  /\ Go(place) \in ScanType(recs)
             /\ Go(place).at = place /\ Go(place).record = scan.record
             /\ ReadOK(recs, Go(place)) /\ IndexOK(recs, verify, Go(place))
  <2>1. PICK g : g = Go(place)
    OBVIOUS
  <2>2. place \in Places
    BY DEF Places
  <2>3. /\ Go(place) \in ScanType(recs)
        /\ Go(place).at = place /\ Go(place).record = scan.record
        /\ Go(place).cert = scan.cert /\ Go(place).sig = scan.sig
        /\ Go(place).identIndex = scan.identIndex /\ Go(place).actionIndex = scan.actionIndex
    BY <1>1, <2>2, AtFacts
  <2>4. /\ g \in ScanType(recs)
        /\ g.at = place /\ g.record = scan.record
        /\ g.cert = scan.cert /\ g.sig = scan.sig
        /\ g.identIndex = scan.identIndex /\ g.actionIndex = scan.actionIndex
    BY <2>1, <2>3
  <2>5. ReadOK(recs, g) /\ IndexOK(recs, verify, g)
    BY <1>1, <2>4 DEF ReadOK, IndexOK
  <2> QED
    BY <2>1, <2>4, <2>5
<1>5. Sep.is = "sep" /\ Empty.is = "empty" /\ Sep # Empty
  BY DEF Sep, Empty, Line
<1> HIDE DEF Go
<1>6. CASE scan.at = "slop"
  <2>1. CASE line = Sep
    <3>1. next = Go("record")
      BY <1>6, <2>1 DEF ScanLine, Go
    <3>2. AtOK(recs, Go("record"), line)
      BY <1>4, <2>1 DEF AtOK
    <3> QED
      BY <1>4, <3>1, <3>2 DEF ScanOK
  <2>2. CASE line # Sep
    <3>1. next = scan
      BY <1>6, <2>2 DEF ScanLine
    <3>2. AtOK(recs, scan, line)
      BY <1>6 DEF AtOK
    <3> QED
      BY <1>1, <3>1, <3>2 DEF ScanOK
  <2> QED
    BY <2>1, <2>2
<1>7. CASE scan.at = "record" /\ line = Empty
  <2>1. next = Go("ended")
    BY <1>7 DEF ScanLine, Go
  <2> QED
    BY <1>3, <2>1
<1>8. CASE scan.at = "record" /\ line # Empty
  <2>1. next = [scan EXCEPT !.at = "gap", !.record = line, !.cert = <<>>, !.sig = <<>>]
    BY <1>8 DEF ScanLine
  <2>2. <<>> \in Seq(LineType) /\ Len(<<>>) = 0 /\ "gap" \in Places
    BY DEF Places
  <2> HIDE DEF next
  <2>3. /\ next \in ScanType(recs) /\ next.at = "gap" /\ next.record = line
        /\ next.cert = <<>> /\ next.sig = <<>>
        /\ next.identIndex = scan.identIndex /\ next.actionIndex = scan.actionIndex
    BY <1>1, <2>1, <2>2 DEF ScanType
  <2>4. IndexOK(recs, verify, next)
    BY <1>1, <2>3 DEF IndexOK
  <2>5. ReadOK(recs, next)
    BY <2>2, <2>3 DEF ReadOK
  <2>6. last.is = "sep"
    BY <1>1, <1>5, <1>8 DEF AtOK
  <2>7. line.is = "record" => recs[line.of].kind # "blank"
    BY <1>8, <2>6 DEF PairOK
  <2>8. AtOK(recs, next, line)
    BY <2>3, <2>7 DEF AtOK
  <2> QED
    BY <2>3, <2>4, <2>5, <2>8 DEF ScanOK, next
<1>9. CASE scan.at = "gap"
  <2>1. CASE line = Empty
    <3>1. next = Go("cert")
      BY <1>9, <2>1 DEF ScanLine, Go
    <3>2. scan.record.is = "record" => recs[scan.record.of].kind \notin {"blank", "nogap"}
      BY <1>1, <1>5, <1>9, <2>1 DEF AtOK, PairOK
    <3>3. AtOK(recs, Go("cert"), line)
      BY <1>4, <3>2 DEF AtOK
    <3> QED
      BY <1>4, <3>1, <3>3 DEF ScanOK
  <2>2. CASE line # Empty
    <3>1. next = Go("failed")
      BY <1>9, <2>2 DEF ScanLine, Go
    <3> QED
      BY <1>3, <3>1
  <2> QED
    BY <2>1, <2>2
<1>10. CASE scan.at = "cert" /\ line = Empty
  <2>1. CASE scan.cert = <<>>
    <3>1. next = Go("slop")
      BY <1>10, <2>1 DEF ScanLine, Go
    <3> QED
      BY <1>3, <3>1
  <2>2. CASE scan.cert # <<>>
    <3>1. next = Go("sig")
      BY <1>10, <2>2 DEF ScanLine, Go
    <3>2. AtOK(recs, Go("sig"), line)
      BY <1>1, <1>4, <1>10 DEF AtOK
    <3> QED
      BY <1>4, <3>1, <3>2 DEF ScanOK
  <2> QED
    BY <2>1, <2>2
<1>11. CASE scan.at = "cert" /\ line # Empty
  <2>1. next = [scan EXCEPT !.cert = Append(scan.cert, line)]
    BY <1>11 DEF ScanLine
  <2>0. Append(scan.cert, line) \in Seq(LineType)
    BY <1>2
  <2>2. PICK c \in Seq(LineType) : c = Append(scan.cert, line)
    BY <2>0
  <2>3. \A k \in 1..Len(c) : LineOK(recs, c[k])
    BY <1>1, <1>2, <2>2, AppendedLines DEF ReadOK
  <2> HIDE DEF next
  <2>4. /\ next \in ScanType(recs) /\ next.at = "cert" /\ next.record = scan.record
        /\ next.cert = c /\ next.sig = scan.sig
        /\ next.identIndex = scan.identIndex /\ next.actionIndex = scan.actionIndex
    BY <1>1, <1>11, <2>1, <2>2 DEF ScanType
  <2>5. IndexOK(recs, verify, next) /\ ReadOK(recs, next)
    BY <1>1, <2>3, <2>4 DEF IndexOK, ReadOK
  <2>6. AtOK(recs, next, line)
    BY <1>1, <1>11, <2>4 DEF AtOK
  <2> QED
    BY <2>4, <2>5, <2>6 DEF ScanOK, next
<1>12. CASE scan.at = "sig" /\ line \in {Empty, Sep}
  <2>1. next = EndSig(scan, recs, verify)
    BY <1>12 DEF ScanLine
  <2>2. scan.record.is = "record" => recs[scan.record.of].kind \notin {"blank", "nogap"}
    BY <1>1, <1>12 DEF AtOK
  <2>3. next \in ScanType(recs) /\ next.at \in {"slop", "failed"} /\ IndexOK(recs, verify, next)
    BY <1>1, <2>1, <2>2, EndedIsIndexed
  <2>4. next.record = scan.record /\ next.cert = scan.cert /\ next.sig = scan.sig
    BY <1>1, <2>1, EndKeeps
  <2> HIDE DEF next
  <2>5. ReadOK(recs, next)
    BY <1>1, <2>4 DEF ReadOK
  <2>6. AtOK(recs, next, line)
    BY <2>3 DEF AtOK
  <2> QED
    BY <2>3, <2>5, <2>6 DEF ScanOK, next
<1>13. CASE scan.at = "sig" /\ line \notin {Empty, Sep}
  <2>1. next = [scan EXCEPT !.sig = Append(scan.sig, line)]
    BY <1>13 DEF ScanLine
  <2>0. Append(scan.sig, line) \in Seq(LineType)
    BY <1>2
  <2>2. PICK c \in Seq(LineType) : c = Append(scan.sig, line)
    BY <2>0
  <2>3. \A k \in 1..Len(c) : LineOK(recs, c[k])
    BY <1>1, <1>2, <2>2, AppendedLines DEF ReadOK
  <2> HIDE DEF next
  <2>4. /\ next \in ScanType(recs) /\ next.at = "sig" /\ next.record = scan.record
        /\ next.cert = scan.cert /\ next.sig = c
        /\ next.identIndex = scan.identIndex /\ next.actionIndex = scan.actionIndex
    BY <1>1, <1>13, <2>1, <2>2 DEF ScanType
  <2>5. IndexOK(recs, verify, next) /\ ReadOK(recs, next)
    BY <1>1, <2>3, <2>4 DEF IndexOK, ReadOK
  <2>6. AtOK(recs, next, line)
    BY <1>1, <1>13, <2>4 DEF AtOK
  <2> QED
    BY <2>4, <2>5, <2>6 DEF ScanOK, next
<1>14. CASE scan.at \in {"ended", "failed"}
  <2>1. next = scan
    BY <1>14 DEF ScanLine
  <2>2. AtOK(recs, scan, line)
    BY <1>14 DEF AtOK
  <2> QED
    BY <1>1, <2>1, <2>2 DEF ScanOK
<1> QED
  BY <1>2, <1>6, <1>7, <1>8, <1>9, <1>10, <1>11, <1>12, <1>13, <1>14 DEF Places

-----------------------------------------------------------------------------
(* Whatever DoScan indexes it indexes rightly: under an ident the            *)
(* announcement of the file with that ident, under an action announcements   *)
(* that provide it; and with verification on, only announcements as          *)
(* MarshalText writes them.  So one that was cut short, whose signature is   *)
(* of another or that runs into its neighbour is never found, wherever in    *)
(* the file it stands.                                                       *)
THEOREM ScanIsSound ==
  ASSUME NEW recs \in Seq(Announcement), NEW verify \in BOOLEAN
  PROVE  DoScan(recs, verify) \in ScanType(recs) /\ IndexOK(recs, verify, DoScan(recs, verify))
<1> DEFINE lines == Text(recs)
           Steps(f) == f = [n \in 0..Len(lines) |->
                              IF n = 0 THEN Cleared ELSE ScanLine(f[n - 1], recs, verify, lines[n])]
           scan == CHOOSE f : Steps(f)
           last == scan[Len(lines)]
<1>1. /\ lines \in Seq(LineType) /\ Len(lines) \in Nat
      /\ \A i \in 1..Len(lines) : LineOK(recs, lines[i])
      /\ \A i \in 1..(Len(lines) - 1) : PairOK(recs, lines[i], lines[i + 1])
  BY TextLines DEF LinesOK
<1>2. DoScan(recs, verify) = IF last.at = "sig" THEN EndSig(last, recs, verify) ELSE last
  BY DEF DoScan
<1> HIDE DEF lines
<1>3. Steps(scan)
  BY <1>1, ScanSteps
<1> HIDE DEF scan
<1> DEFINE Prev(n) == IF n = 0 THEN Empty ELSE lines[n]
           T == {n \in Nat : n <= Len(lines) => ScanOK(recs, verify, scan[n], Prev(n))}
<1>4. 0 \in T
  <2>1. scan[0] = Cleared
    BY <1>1, <1>3
  <2>2. ScanOK(recs, verify, Cleared, Empty)
    BY ClearedIsOK
  <2> QED
    BY <2>1, <2>2
<1>5. ASSUME NEW n \in Nat, n \in T PROVE n + 1 \in T
  <2> SUFFICES ASSUME n + 1 <= Len(lines) PROVE ScanOK(recs, verify, scan[n + 1], lines[n + 1])
    OBVIOUS
  <2>1. ScanOK(recs, verify, scan[n], Prev(n))
    BY <1>1, <1>5
  <2>2. scan[n + 1] = ScanLine(scan[n], recs, verify, lines[n + 1])
    BY <1>1, <1>3
  <2>3. lines[n + 1] \in LineType /\ LineOK(recs, lines[n + 1])
    BY <1>1
  <2>4. PairOK(recs, Prev(n), lines[n + 1])
    <3>1. CASE n = 0
      <4>1. Empty.is = "empty"
        BY DEF Empty, Line
      <4> QED
        BY <3>1, <4>1 DEF PairOK
    <3>2. CASE n # 0
      BY <1>1, <3>2
    <3> QED
      BY <3>1, <3>2
  <2> HIDE DEF Prev
  <2>5. ScanOK(recs, verify, ScanLine(scan[n], recs, verify, lines[n + 1]), lines[n + 1])
    BY <2>1, <2>3, <2>4, ScannedLine
  <2> QED
    BY <2>2, <2>5
<1>6. ScanOK(recs, verify, last, Prev(Len(lines)))
  <2> HIDE DEF T
  <2>1. Nat \subseteq T
    BY <1>4, <1>5, SetInduction
  <2> QED
    BY <1>1, <2>1 DEF T
<1> HIDE DEF last, Prev
<1>7. /\ last \in ScanType(recs) /\ IndexOK(recs, verify, last) /\ ReadOK(recs, last)
      /\ AtOK(recs, last, Prev(Len(lines)))
  BY <1>6 DEF ScanOK
<1>8. CASE last.at = "sig"
  <2>1. last.record.is = "record" => recs[last.record.of].kind \notin {"blank", "nogap"}
    BY <1>7, <1>8 DEF AtOK
  <2>2. /\ EndSig(last, recs, verify) \in ScanType(recs)
        /\ IndexOK(recs, verify, EndSig(last, recs, verify))
    BY <1>7, <2>1, EndedIsIndexed
  <2> QED
    BY <1>2, <1>8, <2>2
<1>9. CASE last.at # "sig"
  BY <1>2, <1>7, <1>9
<1> QED
  BY <1>8, <1>9

-----------------------------------------------------------------------------
(* Announcements that run into each other *)

(* The run of k neighbours before p that use up separators, none before it.  *)
RunBefore(recs, p, k) ==
  /\ \A j \in (p - k)..(p - 1) : UsesUpSeparator(recs[j])
  /\ k = p - 1 \/ ~UsesUpSeparator(recs[p - k - 1])

(* Every announcement has one.                                               *)
LEMMA RunExists ==
  ASSUME NEW recs, NEW p \in Nat \ {0}
  PROVE  \E k \in 0..(p - 1) : RunBefore(recs, p, k)
<1> DEFINE T == {n \in Nat : \E k \in 0..n : RunBefore(recs, n + 1, k)}
<1>1. 0 \in T
  <2>1. RunBefore(recs, 0 + 1, 0)
    BY DEF RunBefore
  <2> QED
    BY <2>1
<1>2. ASSUME NEW n \in Nat, n \in T PROVE n + 1 \in T
  <2>1. CASE ~UsesUpSeparator(recs[n + 1])
    <3>1. RunBefore(recs, (n + 1) + 1, 0)
      BY <2>1 DEF RunBefore
    <3> QED
      BY <3>1
  <2>2. CASE UsesUpSeparator(recs[n + 1])
    <3>1. PICK k \in 0..n : RunBefore(recs, n + 1, k)
      BY <1>2
    <3>2. \A j \in (((n + 1) + 1) - (k + 1))..(((n + 1) + 1) - 1) : j = n + 1 \/ j \in ((n + 1) - k)..((n + 1) - 1)
      OBVIOUS
    <3>3. ((n + 1) + 1) - (k + 1) - 1 = (n + 1) - k - 1
      OBVIOUS
    <3>4. k = (n + 1) - 1 => k + 1 = ((n + 1) + 1) - 1
      OBVIOUS
    <3>5. RunBefore(recs, (n + 1) + 1, k + 1)
      BY <2>2, <3>1, <3>2, <3>3, <3>4 DEF RunBefore
    <3>6. k + 1 \in 0..(n + 1)
      OBVIOUS
    <3> QED
      BY <3>5, <3>6
  <2> QED
    BY <2>1, <2>2
<1>3. p - 1 \in Nat /\ (p - 1) + 1 = p
  OBVIOUS
<1>4. p - 1 \in T
  <2> HIDE DEF T
  <2>1. Nat \subseteq T
    BY <1>1, <1>2, SetInduction
  <2> QED
    BY <1>3, <2>1
<1> QED
  BY <1>3, <1>4

(* And only one.                                                             *)
LEMMA RunUnique ==
  ASSUME NEW recs, NEW p \in Nat \ {0}, NEW k \in 0..(p - 1), NEW m \in 0..(p - 1),
         RunBefore(recs, p, k), RunBefore(recs, p, m)
  PROVE  k = m
<1>1. ASSUME NEW x \in 0..(p - 1), NEW y \in 0..(p - 1), x < y,
             RunBefore(recs, p, x), RunBefore(recs, p, y)
      PROVE  FALSE
  <2>1. x # p - 1 /\ p - x - 1 \in (p - y)..(p - 1)
    BY <1>1
  <2> QED
    BY <1>1, <2>1 DEF RunBefore
<1> QED
  BY <1>1

(* The run before the next announcement is one longer, or empty.             *)
LEMMA RunGrows ==
  ASSUME NEW recs, NEW p \in Nat \ {0}, NEW k \in 0..(p - 1), RunBefore(recs, p, k)
  PROVE  /\ UsesUpSeparator(recs[p]) => RunBefore(recs, p + 1, k + 1)
         /\ ~UsesUpSeparator(recs[p]) => RunBefore(recs, p + 1, 0)
<1>1. \A j \in ((p + 1) - (k + 1))..((p + 1) - 1) : j = p \/ j \in (p - k)..(p - 1)
  OBVIOUS
<1>2. (p + 1) - (k + 1) - 1 = p - k - 1 /\ (k = p - 1 => k + 1 = (p + 1) - 1)
  OBVIOUS
<1>3. (p + 1) - 0 - 1 = p /\ \A j \in ((p + 1) - 0)..((p + 1) - 1) : FALSE
  OBVIOUS
<1> QED
  BY <1>1, <1>2, <1>3 DEF RunBefore

(* An announcement is lost when the one before it is read and uses up its    *)
(* separator.                                                                *)
LEMMA LostStep ==
  ASSUME NEW recs, NEW p \in Nat \ {0}
  PROVE  /\ ~Lost(recs, 1)
         /\ Lost(recs, p + 1) <=> UsesUpSeparator(recs[p]) /\ ~Lost(recs, p)
<1>1. ASSUME NEW q \in Nat \ {0}, NEW k \in 0..(q - 1), RunBefore(recs, q, k)
      PROVE  Lost(recs, q) <=> k % 2 = 1
  <2>1. ASSUME Lost(recs, q) PROVE k % 2 = 1
    <3>1. PICK m \in 1..(q - 1) : m % 2 = 1 /\ RunBefore(recs, q, m)
      BY <2>1 DEF Lost, RunBefore
    <3>2. m \in 0..(q - 1)
      OBVIOUS
    <3>3. k = m
      BY <1>1, <3>1, <3>2, RunUnique
    <3> QED
      BY <3>1, <3>3
  <2>2. ASSUME k % 2 = 1 PROVE Lost(recs, q)
    <3>1. k \in 1..(q - 1)
      BY <2>2
    <3> QED
      BY <1>1, <2>2, <3>1 DEF Lost, RunBefore
  <2> QED
    BY <2>1, <2>2
<1>2. ~Lost(recs, 1)
  BY DEF Lost
<1>3. PICK k \in 0..(p - 1) : RunBefore(recs, p, k)
  BY RunExists
<1>4. Lost(recs, p) <=> k % 2 = 1
  BY <1>1, <1>3
<1>5. CASE UsesUpSeparator(recs[p])
  <2>1. RunBefore(recs, p + 1, k + 1) /\ k + 1 \in 0..((p + 1) - 1) /\ p + 1 \in Nat \ {0}
    BY <1>3, <1>5, RunGrows
  <2>2. Lost(recs, p + 1) <=> (k + 1) % 2 = 1
    BY <1>1, <2>1
  <2>3. (k + 1) % 2 = 1 <=> ~(k % 2 = 1)
    OBVIOUS
  <2> QED
    BY <1>2, <1>4, <1>5, <2>2, <2>3
<1>6. CASE ~UsesUpSeparator(recs[p])
  <2>1. RunBefore(recs, p + 1, 0) /\ 0 \in 0..((p + 1) - 1) /\ p + 1 \in Nat \ {0}
    BY <1>3, <1>6, RunGrows
  <2>2. Lost(recs, p + 1) <=> 0 % 2 = 1
    BY <1>1, <2>1
  <2> QED
    BY <1>2, <1>6, <2>2
<1> QED
  BY <1>5, <1>6

-----------------------------------------------------------------------------
(* Reading some lines *)

(* The scan goes from one state to another on these lines.                   *)
StepsOn(recs, verify, from, lines, f) ==
  f = [n \in 0..Len(lines) |-> IF n = 0 THEN from ELSE ScanLine(f[n - 1], recs, verify, lines[n])]
Reads(recs, verify, from, lines, to) ==
  \E f : StepsOn(recs, verify, from, lines, f) /\ to = f[Len(lines)]

LEMMA StepsFacts ==
  ASSUME NEW recs, NEW verify, NEW from, NEW lines, NEW f, Len(lines) \in Nat,
         StepsOn(recs, verify, from, lines, f)
  PROVE  /\ f[0] = from
         /\ \A n \in 1..Len(lines) : f[n] = ScanLine(f[n - 1], recs, verify, lines[n])
<1>1. \A n \in 0..Len(lines) : f[n] = IF n = 0 THEN from ELSE ScanLine(f[n - 1], recs, verify, lines[n])
  BY DEF StepsOn
<1> QED
  BY <1>1

LEMMA ReadsNothing ==
  ASSUME NEW recs, NEW verify, NEW from
  PROVE  Reads(recs, verify, from, <<>>, from)
<1>1. PICK f : f = [n \in 0..0 |-> from]
  OBVIOUS
<1>2. StepsOn(recs, verify, from, <<>>, f) /\ from = f[0]
  BY <1>1 DEF StepsOn
<1> QED
  BY <1>2 DEF Reads

LEMMA ReadsLine ==
  ASSUME NEW recs, NEW verify, NEW from, NEW line
  PROVE  Reads(recs, verify, from, <<line>>, ScanLine(from, recs, verify, line))
<1>1. PICK f : f = [n \in 0..1 |-> IF n = 0 THEN from ELSE ScanLine(from, recs, verify, line)]
  OBVIOUS
<1>2. f[0] = from /\ f[1] = ScanLine(from, recs, verify, line) /\ <<line>>[1] = line /\ Len(<<line>>) = 1
  BY <1>1
<1>3. \A n \in 0..1 : f[n] = IF n = 0 THEN from ELSE ScanLine(f[n - 1], recs, verify, <<line>>[n])
  BY <1>2
<1>4. StepsOn(recs, verify, from, <<line>>, f)
  BY <1>1, <1>2, <1>3 DEF StepsOn
<1> QED
  BY <1>2, <1>4 DEF Reads

(* One text after the other.                                                 *)
LEMMA ReadsJoin ==
  ASSUME NEW recs, NEW verify, NEW from, NEW mid, NEW to, NEW S, NEW s \in Seq(S), NEW t \in Seq(S),
         Reads(recs, verify, from, s, mid), Reads(recs, verify, mid, t, to)
  PROVE  Reads(recs, verify, from, s \o t, to)
<1>1. PICK f : StepsOn(recs, verify, from, s, f) /\ mid = f[Len(s)]
  BY DEF Reads
<1>2. PICK g : StepsOn(recs, verify, mid, t, g) /\ to = g[Len(t)]
  BY DEF Reads
<1>3. PICK a \in Nat : a = Len(s)
  OBVIOUS
<1>4. PICK b \in Nat : b = Len(t)
  OBVIOUS
<1>0. s \o t \in Seq(S)
  BY JoinFacts
<1>5. PICK u \in Seq(S) : u = s \o t
  BY <1>0
<1>6. /\ Len(u) = a + b
      /\ \A i \in 1..a : u[i] = s[i]
      /\ \A i \in 1..b : u[a + i] = t[i]
  BY <1>3, <1>4, <1>5, JoinFacts
<1>7. /\ f[0] = from /\ \A n \in 1..a : f[n] = ScanLine(f[n - 1], recs, verify, s[n])
      /\ f[a] = mid
  BY <1>1, <1>3, StepsFacts
<1>8. /\ g[0] = mid /\ \A n \in 1..b : g[n] = ScanLine(g[n - 1], recs, verify, t[n])
      /\ g[b] = to
  BY <1>2, <1>4, StepsFacts
<1>9. PICK h : h = [n \in 0..(a + b) |-> IF n <= a THEN f[n] ELSE g[n - a]]
  OBVIOUS
<1>10. \A n \in 0..a : h[n] = f[n]
  BY <1>9
<1>11. \A n \in 0..b : h[a + n] = g[n]
  <2> SUFFICES ASSUME NEW n \in 0..b PROVE h[a + n] = g[n]
    OBVIOUS
  <2>1. CASE n = 0
    BY <1>7, <1>8, <1>9, <2>1
  <2>2. CASE n # 0
    <3>1. ~(a + n <= a) /\ a + n \in 0..(a + b) /\ (a + n) - a = n
      BY <2>2
    <3> QED
      BY <1>9, <3>1
  <2> QED
    BY <2>1, <2>2
<1>12. ASSUME NEW n \in 0..(a + b)
       PROVE  h[n] = IF n = 0 THEN from ELSE ScanLine(h[n - 1], recs, verify, u[n])
  <2>1. CASE n = 0
    BY <1>7, <1>10, <2>1
  <2>2. CASE n \in 1..a
    <3>1. n \in 0..a /\ n - 1 \in 0..a
      BY <2>2
    <3>2. h[n] = f[n] /\ h[n - 1] = f[n - 1] /\ u[n] = s[n]
      BY <1>6, <1>10, <2>2, <3>1
    <3> QED
      BY <1>7, <2>2, <3>2
  <2>3. CASE n > a
    <3>1. n - a \in 1..b /\ n = a + (n - a)
      BY <2>3
    <3>2. PICK k \in 1..b : n = a + k
      BY <3>1
    <3>3. n - 1 = a + (k - 1) /\ k \in 0..b /\ k - 1 \in 0..b
      BY <3>2
    <3>4. h[n] = g[k] /\ h[n - 1] = g[k - 1] /\ u[n] = t[k]
      BY <1>6, <1>11, <3>2, <3>3
    <3> QED
      BY <1>8, <2>3, <3>4
  <2> QED
    BY <2>1, <2>2, <2>3
<1>13. StepsOn(recs, verify, from, u, h)
  BY <1>6, <1>9, <1>12 DEF StepsOn
<1>14. to = h[Len(u)]
  BY <1>6, <1>8, <1>11
<1> QED
  BY <1>5, <1>13, <1>14 DEF Reads

(* Where it gets to is determined.                                           *)
LEMMA ReadsUnique ==
  ASSUME NEW recs, NEW verify, NEW from, NEW S, NEW lines \in Seq(S), NEW to, NEW other,
         Reads(recs, verify, from, lines, to), Reads(recs, verify, from, lines, other)
  PROVE  to = other
<1>1. PICK f : StepsOn(recs, verify, from, lines, f) /\ to = f[Len(lines)]
  BY DEF Reads
<1>2. PICK g : StepsOn(recs, verify, from, lines, g) /\ other = g[Len(lines)]
  BY DEF Reads
<1>3. PICK a \in Nat : a = Len(lines)
  OBVIOUS
<1>4. /\ f[0] = from /\ \A n \in 1..a : f[n] = ScanLine(f[n - 1], recs, verify, lines[n])
      /\ g[0] = from /\ \A n \in 1..a : g[n] = ScanLine(g[n - 1], recs, verify, lines[n])
  BY <1>1, <1>2, <1>3, StepsFacts
<1> DEFINE T == {n \in Nat : n <= a => f[n] = g[n]}
<1>5. 0 \in T
  BY <1>4
<1>6. ASSUME NEW n \in Nat, n \in T PROVE n + 1 \in T
  <2> SUFFICES ASSUME n + 1 <= a PROVE f[n + 1] = g[n + 1]
    OBVIOUS
  <2>1. n + 1 \in 1..a /\ (n + 1) - 1 = n /\ f[n] = g[n]
    BY <1>6
  <2> QED
    BY <1>4, <2>1
<1>7. a \in T
  <2> HIDE DEF T
  <2> QED
    BY <1>5, <1>6, SetInduction
<1> QED
  BY <1>1, <1>2, <1>3, <1>7

(* Lines that change nothing: all of them once the scan is over, those that  *)
(* are no separators before a separator.                                     *)
LEMMA ReadsOver ==
  ASSUME NEW recs, NEW verify, NEW from, NEW S, NEW lines \in Seq(S),
         \/ from.at \in {"ended", "failed"}
         \/ from.at = "slop" /\ \A k \in 1..Len(lines) : lines[k] # Sep
  PROVE  Reads(recs, verify, from, lines, from)
<1>1. \A k \in 1..Len(lines) : ScanLine(from, recs, verify, lines[k]) = from
  BY DEF ScanLine
<1>2. PICK a \in Nat : a = Len(lines)
  OBVIOUS
<1>3. PICK f : f = [n \in 0..a |-> from]
  OBVIOUS
<1>4. \A n \in 0..a : f[n] = IF n = 0 THEN from ELSE ScanLine(f[n - 1], recs, verify, lines[n])
  BY <1>1, <1>2, <1>3
<1>5. StepsOn(recs, verify, from, lines, f) /\ f[a] = from
  BY <1>2, <1>3, <1>4 DEF StepsOn
<1> QED
  BY <1>2, <1>5 DEF Reads

-----------------------------------------------------------------------------
(* The indexes after some announcements of the file *)

(* The announcements up to n that were found with this ident.                *)
FoundFor(recs, n, i) == {q \in Found(recs) : q <= n /\ recs[q].ident = i}

IdentExact(recs, verify, cache, n) == \A i \in Idents :
  \/ /\ cache.identIndex[i] = 0
     /\ \A q \in FoundFor(recs, n, i) :
          q \notin Accepted(recs, verify) \/ \E r \in FoundFor(recs, n, i) : r > q
  \/ /\ cache.identIndex[i] \in FoundFor(recs, n, i) \cap Accepted(recs, verify)
     /\ \A q \in FoundFor(recs, n, i) : q <= cache.identIndex[i]

(* How often p is in an index of an action.                                  *)
Occurs(s, p) == Cardinality({k \in 1..Len(s) : s[k] = p})

ListExact(recs, verify, s, a, n) ==
  /\ \A q \in DOMAIN recs : q <= n => Occurs(s, q) = ByAction(recs, verify, a, q)
  /\ \A k \in 1..Len(s) : s[k] <= n
  /\ \A j, k \in 1..Len(s) : j < k => s[j] <= s[k]

Exact(recs, verify, cache, n) ==
  /\ IdentExact(recs, verify, cache, n)
  /\ \A a \in Actions : ListExact(recs, verify, cache.actionIndex[a], a, n)

(* One announcement more: whether it was found.                              *)
LEMMA FoundGrows ==
  ASSUME NEW recs \in Seq(Announcement), NEW p \in DOMAIN recs, NEW i
  PROVE  /\ p \notin Found(recs) => FoundFor(recs, p, i) = FoundFor(recs, p - 1, i)
         /\ recs[p].ident # i => FoundFor(recs, p, i) = FoundFor(recs, p - 1, i)
         /\ p \in Found(recs) /\ recs[p].ident = i =>
              FoundFor(recs, p, i) = FoundFor(recs, p - 1, i) \cup {p}
         /\ FoundFor(recs, p - 1, i) \subseteq Nat
         /\ \A q \in FoundFor(recs, p - 1, i) : q < p
<1>1. Found(recs) \subseteq Nat /\ p \in Nat
  BY DEF Found
<1>2. \A q \in Nat : q <= p <=> q <= p - 1 \/ q = p
  BY <1>1
<1>3. \A q \in Nat : q <= p - 1 <=> q < p
  BY <1>1
<1> QED
  BY <1>1, <1>2, <1>3 DEF FoundFor

(* An announcement that is not found leaves the indexes right.               *)
LEMMA ExactSkips ==
  ASSUME NEW recs \in Seq(Announcement), NEW verify, NEW p \in DOMAIN recs,
         NEW cache, NEW next, \A a \in Actions : cache.actionIndex[a] \in Seq(DOMAIN recs),
         next.identIndex = cache.identIndex, next.actionIndex = cache.actionIndex,
         Exact(recs, verify, cache, p - 1), p \notin Found(recs)
  PROVE  Exact(recs, verify, next, p)
<1>1. IdentExact(recs, verify, next, p)
  BY FoundGrows DEF IdentExact, Exact
<1>2. ASSUME NEW a \in Actions PROVE ListExact(recs, verify, next.actionIndex[a], a, p)
  <2>1. PICK s \in Seq(DOMAIN recs) : s = next.actionIndex[a] /\ s = cache.actionIndex[a]
    OBVIOUS
  <2>2. ListExact(recs, verify, s, a, p - 1)
    BY <2>1 DEF Exact
  <2>3. \A k \in 1..Len(s) : s[k] \in Nat /\ s[k] <= p - 1
    BY <2>2 DEF ListExact
  <2>4. {k \in 1..Len(s) : s[k] = p} = {}
    BY <2>3
  <2>5. Occurs(s, p) = 0
    BY <2>4, FS_EmptySet DEF Occurs
  <2>6. ByAction(recs, verify, a, p) = 0
    BY DEF ByAction, Accepted
  <2>7. ASSUME NEW q \in DOMAIN recs, q <= p PROVE Occurs(s, q) = ByAction(recs, verify, a, q)
    <3>1. q = p \/ q <= p - 1
      BY <2>7
    <3> QED
      BY <2>2, <2>5, <2>6, <3>1 DEF ListExact
  <2>8. \A k \in 1..Len(s) : s[k] <= p
    BY <2>3
  <2> QED
    BY <2>1, <2>2, <2>7, <2>8 DEF ListExact
<1> QED
  BY <1>1, <1>2 DEF Exact

(* One that does not validate takes its ident out of the index.              *)
LEMMA ExactRemoves ==
  ASSUME NEW recs \in Seq(Announcement), NEW verify, NEW p \in DOMAIN recs,
         NEW cache, NEW next, \A a \in Actions : cache.actionIndex[a] \in Seq(DOMAIN recs),
         next.actionIndex = cache.actionIndex,
         \A i \in Idents : next.identIndex[i] = IF i = recs[p].ident THEN 0 ELSE cache.identIndex[i],
         Exact(recs, verify, cache, p - 1), p \in Found(recs), p \notin Accepted(recs, verify)
  PROVE  Exact(recs, verify, next, p)
<1>1. IdentExact(recs, verify, next, p)
  <2> SUFFICES ASSUME NEW i \in Idents
               PROVE  \/ /\ next.identIndex[i] = 0
                         /\ \A q \in FoundFor(recs, p, i) :
                              q \notin Accepted(recs, verify) \/ \E r \in FoundFor(recs, p, i) : r > q
                      \/ /\ next.identIndex[i] \in FoundFor(recs, p, i) \cap Accepted(recs, verify)
                         /\ \A q \in FoundFor(recs, p, i) : q <= next.identIndex[i]
    BY DEF IdentExact
  <2>1. CASE i = recs[p].ident
    <3>1. next.identIndex[i] = 0
      BY <2>1
    <3>a. FoundFor(recs, p, i) = FoundFor(recs, p - 1, i) \cup {p}
      BY <2>1, FoundGrows
    <3>b. FoundFor(recs, p - 1, i) \subseteq Nat
      BY FoundGrows
    <3>c. \A q \in FoundFor(recs, p - 1, i) : q < p
      BY FoundGrows
    <3>2. /\ FoundFor(recs, p, i) = FoundFor(recs, p - 1, i) \cup {p}
          /\ \A q \in FoundFor(recs, p - 1, i) : q < p /\ q \in Nat
      BY <3>a, <3>b, <3>c
    <3>3. \A q \in FoundFor(recs, p, i) : q \notin Accepted(recs, verify) \/ \E r \in FoundFor(recs, p, i) : r > q
      BY <3>2
    <3> QED
      BY <3>1, <3>3
  <2>2. CASE i # recs[p].ident
    <3>1. next.identIndex[i] = cache.identIndex[i]
      BY <2>2
    <3>2. FoundFor(recs, p, i) = FoundFor(recs, p - 1, i)
      BY <2>2, FoundGrows
    <3> QED
      BY <3>1, <3>2 DEF Exact, IdentExact
  <2> QED
    BY <2>1, <2>2
<1>2. ASSUME NEW a \in Actions PROVE ListExact(recs, verify, next.actionIndex[a], a, p)
  <2>1. PICK s \in Seq(DOMAIN recs) : s = next.actionIndex[a] /\ s = cache.actionIndex[a]
    OBVIOUS
  <2>2. ListExact(recs, verify, s, a, p - 1)
    BY <2>1 DEF Exact
  <2>3. \A k \in 1..Len(s) : s[k] \in Nat /\ s[k] <= p - 1
    BY <2>2 DEF ListExact
  <2>4. {k \in 1..Len(s) : s[k] = p} = {}
    BY <2>3
  <2>5. Occurs(s, p) = 0
    BY <2>4, FS_EmptySet DEF Occurs
  <2>6. ByAction(recs, verify, a, p) = 0
    BY DEF ByAction
  <2>7. ASSUME NEW q \in DOMAIN recs, q <= p PROVE Occurs(s, q) = ByAction(recs, verify, a, q)
    <3>1. q = p \/ q <= p - 1
      BY <2>7
    <3> QED
      BY <2>2, <2>5, <2>6, <3>1 DEF ListExact
  <2>8. \A k \in 1..Len(s) : s[k] <= p
    BY <2>3
  <2> QED
    BY <2>1, <2>2, <2>7, <2>8 DEF ListExact
<1> QED
  BY <1>1, <1>2 DEF Exact

(* What is put at the end of a list c times is in it c times.                *)
LEMMA ListGrows ==
  ASSUME NEW recs \in Seq(Announcement), NEW verify, NEW p \in DOMAIN recs, NEW a,
         NEW s \in Seq(DOMAIN recs), NEW c \in Nat, c = ByAction(recs, verify, a, p),
         ListExact(recs, verify, s, a, p - 1)
  PROVE  ListExact(recs, verify, s \o [k \in 1..c |-> p], a, p)
<1>1. [k \in 1..c |-> p] \in Seq(DOMAIN recs) /\ Len([k \in 1..c |-> p]) = c
  OBVIOUS
<1>2. PICK t \in Seq(DOMAIN recs) : t = [k \in 1..c |-> p] /\ Len(t) = c
  BY <1>1
<1>3. \A k \in 1..c : t[k] = p
  BY <1>2
<1>4. s \o t \in Seq(DOMAIN recs)
  BY JoinFacts
<1>5. PICK u \in Seq(DOMAIN recs) : u = s \o t
  BY <1>4
<1>6. PICK l \in Nat : l = Len(s)
  OBVIOUS
<1>7. /\ Len(u) = l + c
      /\ \A i \in 1..l : u[i] = s[i]
      /\ \A i \in 1..c : u[l + i] = t[i]
  BY <1>2, <1>5, <1>6, JoinFacts
<1>8. \A k \in 1..l : s[k] \in Nat /\ s[k] <= p - 1
  BY <1>6 DEF ListExact
<1>9. ASSUME NEW k \in 1..(l + c), k > l PROVE u[k] = p
  <2>1. k - l \in 1..c /\ k = l + (k - l)
    BY <1>9
  <2>2. PICK j \in 1..c : k = l + j
    BY <2>1
  <2> QED
    BY <1>3, <1>7, <2>2
<1>10. ASSUME NEW k \in 1..(l + c), k <= l PROVE k \in 1..l /\ u[k] = s[k] /\ u[k] \in Nat /\ u[k] <= p - 1
  <2>1. k \in 1..l
    BY <1>10
  <2> QED
    BY <1>7, <1>8, <2>1
<1>11. Occurs(u, p) = c
  <2>1. {k \in 1..Len(u) : u[k] = p} = (l + 1)..(l + c)
    <3>1. ASSUME NEW k \in 1..(l + c), u[k] = p PROVE k \in (l + 1)..(l + c)
      <4>1. ~(k <= l)
        BY <1>10, <3>1
      <4> QED
        BY <4>1
    <3>2. ASSUME NEW k \in (l + 1)..(l + c) PROVE k \in 1..(l + c) /\ u[k] = p
      <4>1. k \in 1..(l + c) /\ k > l
        OBVIOUS
      <4> QED
        BY <1>9, <4>1
    <3> QED
      BY <1>7, <3>1, <3>2
  <2>p. l + 1 \in Nat /\ l + c \in Nat
    OBVIOUS
  <2>2. PICK x \in Nat, y \in Nat : x = l + 1 /\ y = l + c
    BY <2>p
  <2>a. x \in Int /\ y \in Int
    OBVIOUS
  <2>b. Cardinality(x..y) = IF x > y THEN 0 ELSE y - x + 1
    BY <2>a, FS_Interval
  <2>c. (IF x > y THEN 0 ELSE y - x + 1) = c
    BY <2>2
  <2>3. Cardinality((l + 1)..(l + c)) = c
    BY <2>2, <2>b, <2>c
  <2> QED
    BY <2>1, <2>3 DEF Occurs
<1>12. ASSUME NEW q \in DOMAIN recs, q <= p, q # p PROVE Occurs(u, q) = ByAction(recs, verify, a, q)
  <2>1. q <= p - 1
    BY <1>12
  <2>2. {k \in 1..Len(u) : u[k] = q} = {k \in 1..Len(s) : s[k] = q}
    <3>1. ASSUME NEW k \in 1..(l + c), u[k] = q PROVE k \in 1..l /\ s[k] = q
      <4>1. k <= l
        BY <1>9, <1>12, <3>1
      <4> QED
        BY <1>10, <3>1, <4>1
    <3>2. ASSUME NEW k \in 1..l, s[k] = q PROVE k \in 1..(l + c) /\ u[k] = q
      BY <1>7, <3>2
    <3> QED
      BY <1>6, <1>7, <3>1, <3>2
  <2>3. Occurs(u, q) = Occurs(s, q)
    BY <2>2 DEF Occurs
  <2> QED
    BY <2>1, <2>3 DEF ListExact
<1>13. ASSUME NEW k \in 1..(l + c) PROVE u[k] <= p
  <2>1. CASE k <= l
    <3>1. u[k] \in Nat /\ u[k] <= p - 1
      BY <1>10, <2>1
    <3>2. p \in Nat
      OBVIOUS
    <3> QED
      BY <3>1, <3>2
  <2>2. CASE k > l
    <3>1. u[k] = p
      BY <1>9, <2>2
    <3>2. p \in Nat
      OBVIOUS
    <3> QED
      BY <3>1, <3>2
  <2> QED
    BY <2>1, <2>2
<1>14. ASSUME NEW j \in 1..(l + c), NEW k \in 1..(l + c), j < k PROVE u[j] <= u[k]
  <2>1. CASE k <= l
    <3>1. j <= l
      BY <1>14, <2>1
    <3>2. j \in 1..l /\ k \in 1..l /\ u[j] = s[j] /\ u[k] = s[k]
      BY <1>10, <2>1, <3>1
    <3> QED
      BY <1>6, <1>14, <3>2 DEF ListExact
  <2>2. CASE k > l
    BY <1>9, <1>13, <2>2
  <2> QED
    BY <2>1, <2>2
<1>15. ListExact(recs, verify, u, a, p)
  BY <1>7, <1>11, <1>12, <1>13, <1>14 DEF ListExact
<1> QED
  BY <1>2, <1>5, <1>15

(* One that is accepted is indexed, and nothing else of its ident is.        *)
LEMMA ExactStores ==
  ASSUME NEW recs \in Seq(Announcement), NEW verify, NEW p \in DOMAIN recs,
         NEW cache, NEW next, \A a \in Actions : cache.actionIndex[a] \in Seq(DOMAIN recs),
         \A a \in Actions : next.actionIndex[a] = cache.actionIndex[a] \o [k \in 1..ByAction(recs, verify, a, p) |-> p],
         \A a \in Actions : ByAction(recs, verify, a, p) \in Nat,
         \A i \in Idents : next.identIndex[i] = IF i = recs[p].ident THEN p ELSE cache.identIndex[i],
         Exact(recs, verify, cache, p - 1), p \in Accepted(recs, verify)
  PROVE  Exact(recs, verify, next, p)
<1>0. p \in Found(recs)
  BY DEF Accepted
<1>1. IdentExact(recs, verify, next, p)
  <2> SUFFICES ASSUME NEW i \in Idents
               PROVE  \/ /\ next.identIndex[i] = 0
                         /\ \A q \in FoundFor(recs, p, i) :
                              q \notin Accepted(recs, verify) \/ \E r \in FoundFor(recs, p, i) : r > q
                      \/ /\ next.identIndex[i] \in FoundFor(recs, p, i) \cap Accepted(recs, verify)
                         /\ \A q \in FoundFor(recs, p, i) : q <= next.identIndex[i]
    BY DEF IdentExact
  <2>1. CASE i = recs[p].ident
    <3>1. next.identIndex[i] = p
      BY <2>1
    <3>a. FoundFor(recs, p, i) = FoundFor(recs, p - 1, i) \cup {p}
      BY <1>0, <2>1, FoundGrows
    <3>b. FoundFor(recs, p - 1, i) \subseteq Nat
      BY FoundGrows
    <3>c. \A q \in FoundFor(recs, p - 1, i) : q < p
      BY FoundGrows
    <3>2. /\ FoundFor(recs, p, i) = FoundFor(recs, p - 1, i) \cup {p}
          /\ \A q \in FoundFor(recs, p - 1, i) : q < p /\ q \in Nat
      BY <3>a, <3>b, <3>c
    <3>3. \A q \in FoundFor(recs, p, i) : q <= p
      BY <3>2
    <3> QED
      BY <3>1, <3>2, <3>3
  <2>2. CASE i # recs[p].ident
    <3>1. next.identIndex[i] = cache.identIndex[i]
      BY <2>2
    <3>2. FoundFor(recs, p, i) = FoundFor(recs, p - 1, i)
      BY <2>2, FoundGrows
    <3> QED
      BY <3>1, <3>2 DEF Exact, IdentExact
  <2> QED
    BY <2>1, <2>2
<1>2. ASSUME NEW a \in Actions PROVE ListExact(recs, verify, next.actionIndex[a], a, p)
  <2>1. ListExact(recs, verify, cache.actionIndex[a], a, p - 1)
    BY DEF Exact
  <2>2. PICK c \in Nat : c = ByAction(recs, verify, a, p)
    OBVIOUS
  <2>3. ListExact(recs, verify, cache.actionIndex[a] \o [k \in 1..c |-> p], a, p)
    BY <2>1, <2>2, ListGrows
  <2> QED
    BY <2>2, <2>3
<1> QED
  BY <1>1, <1>2 DEF Exact

-----------------------------------------------------------------------------
(* The steps of the scan through one announcement *)

(* A state of the scan with the indexes of another and what was read since.  *)
ReadSince(recs, s, t, place, record, cert, sig) ==
  /\ t \in ScanType(recs) /\ t.at = place
  /\ t.record = record /\ t.cert = cert /\ t.sig = sig
  /\ t.identIndex = s.identIndex /\ t.actionIndex = s.actionIndex

LEMMA LineFacts ==
  ASSUME NEW p \in Nat
  PROVE  /\ Sep \in LineType /\ Empty \in LineType /\ Line("record", p) \in LineType
         /\ Line("cert", p) \in LineType /\ Sep # Empty
         /\ Line("record", p) \notin {Sep, Empty} /\ Line("cert", p) \notin {Sep, Empty}
         /\ Sep.is = "sep" /\ Empty.is = "empty" /\ Line("record", p).is = "record"
         /\ Line("cert", p).is = "cert" /\ Line("record", p).of = p
<1>1. /\ Sep.is = "sep" /\ Empty.is = "empty" /\ Line("record", p).is = "record"
      /\ Line("cert", p).is = "cert" /\ Line("record", p).of = p
  BY DEF Line, Sep, Empty
<1>2. /\ Sep \in LineType /\ Empty \in LineType /\ Line("record", p) \in LineType
      /\ Line("cert", p) \in LineType
  BY DEF Line, Sep, Empty, LineType, LineKinds
<1> QED
  BY <1>1, <1>2

(* The separator.                                                            *)
LEMMA AtSeparator ==
  ASSUME NEW recs, NEW verify, NEW s \in ScanType(recs), s.at = "slop"
  PROVE  ReadSince(recs, s, ScanLine(s, recs, verify, Sep), "record", s.record, s.cert, s.sig)
<1>1. ScanLine(s, recs, verify, Sep) = [s EXCEPT !.at = "record"]
  BY DEF ScanLine
<1>2. "record" \in Places
  BY DEF Places
<1> QED
  BY <1>1, <1>2, AtFacts DEF ReadSince

(* The record.                                                               *)
LEMMA AtRecord ==
  ASSUME NEW recs, NEW verify, NEW s \in ScanType(recs), s.at = "record",
         NEW line \in LineType, line # Empty
  PROVE  ReadSince(recs, s, ScanLine(s, recs, verify, line), "gap", line, <<>>, <<>>)
<1>1. ScanLine(s, recs, verify, line) =
        [s EXCEPT !.at = "gap", !.record = line, !.cert = <<>>, !.sig = <<>>]
  BY DEF ScanLine
<1>2. PICK t : t = [s EXCEPT !.at = "gap", !.record = line, !.cert = <<>>, !.sig = <<>>]
  OBVIOUS
<1>3. "gap" \in Places /\ <<>> \in Seq(LineType)
  BY DEF Places
<1>4. t \in ScanType(recs)
  BY <1>2, <1>3 DEF ScanType
<1>5. /\ t.at = "gap" /\ t.record = line /\ t.cert = <<>> /\ t.sig = <<>>
      /\ t.identIndex = s.identIndex /\ t.actionIndex = s.actionIndex
  BY <1>2 DEF ScanType
<1> QED
  BY <1>1, <1>2, <1>4, <1>5 DEF ReadSince

LEMMA AtNoRecord ==
  ASSUME NEW recs, NEW verify, NEW s \in ScanType(recs), s.at = "record"
  PROVE  ReadSince(recs, s, ScanLine(s, recs, verify, Empty), "ended", s.record, s.cert, s.sig)
<1>1. ScanLine(s, recs, verify, Empty) = [s EXCEPT !.at = "ended"]
  BY DEF ScanLine
<1>2. "ended" \in Places
  BY DEF Places
<1> QED
  BY <1>1, <1>2, AtFacts DEF ReadSince

(* The line after the record.                                                *)
LEMMA AtGap ==
  ASSUME NEW recs, NEW verify, NEW s \in ScanType(recs), s.at = "gap", NEW line
  PROVE  ReadSince(recs, s, ScanLine(s, recs, verify, line),
                   IF line = Empty THEN "cert" ELSE "failed", s.record, s.cert, s.sig)
<1>1. ScanLine(s, recs, verify, line) = [s EXCEPT !.at = IF line = Empty THEN "cert" ELSE "failed"]
  BY DEF ScanLine
<1>2. PICK place \in Places : place = IF line = Empty THEN "cert" ELSE "failed"
  BY DEF Places
<1> QED
  BY <1>1, <1>2, AtFacts DEF ReadSince

(* A line of the certificate, and its end.                                   *)
LEMMA AtCert ==
  ASSUME NEW recs, NEW verify, NEW s \in ScanType(recs), s.at = "cert",
         NEW line \in LineType, line # Empty
  PROVE  ReadSince(recs, s, ScanLine(s, recs, verify, line), "cert", s.record, Append(s.cert, line), s.sig)
<1>1. ScanLine(s, recs, verify, line) = [s EXCEPT !.cert = Append(s.cert, line)]
  BY DEF ScanLine
<1>2. PICK t : t = [s EXCEPT !.cert = Append(s.cert, line)]
  OBVIOUS
<1>3. Append(s.cert, line) \in Seq(LineType)
  BY DEF ScanType
<1>4. PICK c \in Seq(LineType) : c = Append(s.cert, line)
  BY <1>3
<1>5. t \in ScanType(recs)
  BY <1>2, <1>4 DEF ScanType
<1>6. /\ t.at = "cert" /\ t.record = s.record /\ t.cert = c /\ t.sig = s.sig
      /\ t.identIndex = s.identIndex /\ t.actionIndex = s.actionIndex
  BY <1>2, <1>4 DEF ScanType
<1> QED
  BY <1>1, <1>2, <1>4, <1>5, <1>6 DEF ReadSince

LEMMA AtCertEnd ==
  ASSUME NEW recs, NEW verify, NEW s \in ScanType(recs), s.at = "cert"
  PROVE  ReadSince(recs, s, ScanLine(s, recs, verify, Empty),
                   IF s.cert = <<>> THEN "slop" ELSE "sig", s.record, s.cert, s.sig)
<1>1. ScanLine(s, recs, verify, Empty) = [s EXCEPT !.at = IF s.cert = <<>> THEN "slop" ELSE "sig"]
  BY DEF ScanLine
<1>2. PICK place \in Places : place = IF s.cert = <<>> THEN "slop" ELSE "sig"
  BY DEF Places
<1> QED
  BY <1>1, <1>2, AtFacts DEF ReadSince

(* A line of the signature.                                                  *)
LEMMA AtSig ==
  ASSUME NEW recs, NEW verify, NEW s \in ScanType(recs), s.at = "sig",
         NEW line \in LineType, line \notin {Empty, Sep}
  PROVE  ReadSince(recs, s, ScanLine(s, recs, verify, line), "sig", s.record, s.cert, Append(s.sig, line))
<1>1. ScanLine(s, recs, verify, line) = [s EXCEPT !.sig = Append(s.sig, line)]
  BY DEF ScanLine
<1>2. PICK t : t = [s EXCEPT !.sig = Append(s.sig, line)]
  OBVIOUS
<1>3. Append(s.sig, line) \in Seq(LineType)
  BY DEF ScanType
<1>4. PICK c \in Seq(LineType) : c = Append(s.sig, line)
  BY <1>3
<1>5. t \in ScanType(recs)
  BY <1>2, <1>4 DEF ScanType
<1>6. /\ t.at = "sig" /\ t.record = s.record /\ t.cert = s.cert /\ t.sig = c
      /\ t.identIndex = s.identIndex /\ t.actionIndex = s.actionIndex
  BY <1>2, <1>4 DEF ScanType
<1> QED
  BY <1>1, <1>2, <1>4, <1>5, <1>6 DEF ReadSince

(* One line more.                                                            *)
LEMMA ReadsMore ==
  ASSUME NEW recs, NEW verify, NEW from, NEW to, NEW S, NEW s \in Seq(S), NEW line \in S,
         Reads(recs, verify, from, s, to)
  PROVE  Reads(recs, verify, from, s \o <<line>>, ScanLine(to, recs, verify, line))
<1>1. <<line>> \in Seq(S)
  OBVIOUS
<1>2. Reads(recs, verify, to, <<line>>, ScanLine(to, recs, verify, line))
  BY ReadsLine
<1> QED
  BY <1>1, <1>2, ReadsJoin

(* Two lines, one after the other.                                           *)
LEMMA TwoLines ==
  ASSUME NEW S, NEW a \in S, NEW b \in S
  PROVE  Append(<<a>>, b) = <<a, b>> /\ <<a>> \o <<b>> = <<a, b>> /\ <<a, b>> \in Seq(S)
<1>1. <<a>> \in Seq(S) /\ <<b>> \in Seq(S) /\ <<a, b>> \in Seq(S) /\ Len(<<a, b>>) = 2
  OBVIOUS
<1>2. PICK x \in Seq(S), y \in Seq(S), z \in Seq(S) : x = <<a>> /\ y = <<b>> /\ z = <<a, b>>
  BY <1>1
<1>3. Len(x) = 1 /\ x[1] = a /\ Len(y) = 1 /\ y[1] = b /\ Len(z) = 2 /\ z[1] = a /\ z[2] = b
  BY <1>2
<1>4. /\ Append(x, b) \in Seq(S) /\ Len(Append(x, b)) = 2
      /\ Append(x, b)[1] = a /\ Append(x, b)[2] = b
  <2>1. /\ Append(x, b) \in Seq(S) /\ Len(Append(x, b)) = Len(x) + 1
        /\ \A i \in 1..Len(x) : Append(x, b)[i] = x[i]
        /\ Append(x, b)[Len(x) + 1] = b
    OBVIOUS
  <2>2. 1 \in 1..Len(x) /\ Len(x) + 1 = 2
    BY <1>3
  <2> QED
    BY <1>3, <2>1, <2>2
<1>5. Append(x, b) = z
  BY <1>3, <1>4, SeqEqual
<1>6. x \o y \in Seq(S) /\ Len(x \o y) = 2 /\ (x \o y)[1] = a /\ (x \o y)[2] = b
  <2>1. /\ x \o y \in Seq(S) /\ Len(x \o y) = Len(x) + Len(y)
        /\ \A i \in 1..Len(x) : (x \o y)[i] = x[i]
        /\ \A i \in 1..Len(y) : (x \o y)[Len(x) + i] = y[i]
    BY JoinFacts
  <2>2. 1 \in 1..Len(x) /\ 1 \in 1..Len(y) /\ Len(x) + Len(y) = 2 /\ Len(x) + 1 = 2
    BY <1>3
  <2> QED
    BY <1>3, <2>1, <2>2
<1>7. x \o y = z
  BY <1>3, <1>6, SeqEqual
<1> QED
  BY <1>1, <1>2, <1>5, <1>7

(* What stands before the signature.                                         *)
LEMMA LeadRead ==
  ASSUME NEW recs, NEW verify, NEW p \in Nat, NEW s \in ScanType(recs), s.at = "record"
  PROVE  \E t : /\ Reads(recs, verify, s, Lead(p), t)
                /\ ReadSince(recs, s, t, "sig", Line("record", p), Cert(p), <<>>)
<1> DEFINE rec == Line("record", p)
           cert == Line("cert", p)
<1>1. rec \in LineType /\ cert \in LineType /\ Empty \in LineType /\ rec # Empty /\ cert # Empty
  BY LineFacts
<1>2. Lead(p) = <<rec, Empty>> \o <<cert, cert>> \o <<Empty>> /\ Cert(p) = <<cert, cert>>
  BY DEF Lead, Cert
<1> HIDE DEF rec, cert
<1>3. PICK a : a = ScanLine(s, recs, verify, rec)
  OBVIOUS
<1>4. ReadSince(recs, s, a, "gap", rec, <<>>, <<>>)
  BY <1>1, <1>3, AtRecord
<1>5. PICK b : b = ScanLine(a, recs, verify, Empty)
  OBVIOUS
<1>6. ReadSince(recs, s, b, "cert", rec, <<>>, <<>>)
  <2>1. a \in ScanType(recs) /\ a.at = "gap"
    BY <1>4 DEF ReadSince
  <2>2. ReadSince(recs, a, b, "cert", a.record, a.cert, a.sig)
    BY <1>5, <2>1, AtGap
  <2> QED
    BY <1>4, <2>2 DEF ReadSince
<1>7. PICK c : c = ScanLine(b, recs, verify, cert)
  OBVIOUS
<1>8. ReadSince(recs, s, c, "cert", rec, <<cert>>, <<>>)
  <2>1. b \in ScanType(recs) /\ b.at = "cert"
    BY <1>6 DEF ReadSince
  <2>2. ReadSince(recs, b, c, "cert", b.record, Append(b.cert, cert), b.sig)
    BY <1>1, <1>7, <2>1, AtCert
  <2>3. Append(<<>>, cert) = <<cert>>
    OBVIOUS
  <2> QED
    BY <1>6, <2>2, <2>3 DEF ReadSince
<1>9. PICK d : d = ScanLine(c, recs, verify, cert)
  OBVIOUS
<1>10. ReadSince(recs, s, d, "cert", rec, <<cert, cert>>, <<>>)
  <2>1. c \in ScanType(recs) /\ c.at = "cert"
    BY <1>8 DEF ReadSince
  <2>2. ReadSince(recs, c, d, "cert", c.record, Append(c.cert, cert), c.sig)
    BY <1>1, <1>9, <2>1, AtCert
  <2>3. Append(<<cert>>, cert) = <<cert, cert>>
    BY <1>1, TwoLines
  <2> QED
    BY <1>8, <2>2, <2>3 DEF ReadSince
<1>11. PICK e : e = ScanLine(d, recs, verify, Empty)
  OBVIOUS
<1>12. ReadSince(recs, s, e, "sig", rec, <<cert, cert>>, <<>>)
  <2>1. d \in ScanType(recs) /\ d.at = "cert" /\ d.cert = <<cert, cert>>
    BY <1>10 DEF ReadSince
  <2>2. d.cert # <<>>
    BY <2>1
  <2>3. ReadSince(recs, d, e, "sig", d.record, d.cert, d.sig)
    BY <1>11, <2>1, <2>2, AtCertEnd
  <2> QED
    BY <1>10, <2>3 DEF ReadSince
<1>13. Reads(recs, verify, s, <<rec, Empty>>, b)
  <2>1. Reads(recs, verify, s, <<rec>>, a) /\ <<rec>> \in Seq(LineType)
    BY <1>1, <1>3, ReadsLine
  <2>2. Reads(recs, verify, s, <<rec>> \o <<Empty>>, b)
    BY <1>1, <1>5, <2>1, ReadsMore
  <2>3. <<rec>> \o <<Empty>> = <<rec, Empty>>
    BY <1>1, TwoLines
  <2> QED
    BY <2>2, <2>3
<1>14. Reads(recs, verify, b, <<cert, cert>>, d)
  <2>1. Reads(recs, verify, b, <<cert>>, c) /\ <<cert>> \in Seq(LineType)
    BY <1>1, <1>7, ReadsLine
  <2>2. Reads(recs, verify, b, <<cert>> \o <<cert>>, d)
    BY <1>1, <1>9, <2>1, ReadsMore
  <2>3. <<cert>> \o <<cert>> = <<cert, cert>>
    BY <1>1, TwoLines
  <2> QED
    BY <2>2, <2>3
<1>15. PICK x \in Seq(LineType), y \in Seq(LineType) : x = <<rec, Empty>> /\ y = <<cert, cert>>
  <2>1. <<rec, Empty>> \in Seq(LineType) /\ <<cert, cert>> \in Seq(LineType)
    BY <1>1
  <2> QED
    BY <2>1
<1>16. Reads(recs, verify, s, x \o y, d) /\ x \o y \in Seq(LineType)
  BY <1>13, <1>14, <1>15, ReadsJoin, JoinFacts
<1>17. Reads(recs, verify, s, (x \o y) \o <<Empty>>, e)
  BY <1>1, <1>11, <1>16, ReadsMore
<1>18. Reads(recs, verify, s, Lead(p), e)
  BY <1>2, <1>15, <1>17
<1> QED
  BY <1>2, <1>12, <1>18 DEF rec

(* The rows of the signature.                                                *)
LEMMA SigRead ==
  ASSUME NEW recs, NEW verify, NEW s \in ScanType(recs), s.at = "sig", s.sig = <<>>,
         NEW rows \in Seq(LineType), \A k \in 1..Len(rows) : rows[k] \notin {Empty, Sep}
  PROVE  \E t : /\ Reads(recs, verify, s, rows, t)
                /\ ReadSince(recs, s, t, "sig", s.record, s.cert, rows)
<1> DEFINE Done(n) == \E t : /\ Reads(recs, verify, s, SubSeq(rows, 1, n), t)
                             /\ ReadSince(recs, s, t, "sig", s.record, s.cert, SubSeq(rows, 1, n))
           T == {n \in Nat : n <= Len(rows) => Done(n)}
<1>1. 0 \in T
  <2>1. SubSeq(rows, 1, 0) = <<>>
    OBVIOUS
  <2>2. Reads(recs, verify, s, <<>>, s)
    BY ReadsNothing
  <2>3. ReadSince(recs, s, s, "sig", s.record, s.cert, <<>>)
    BY DEF ReadSince
  <2> QED
    BY <2>1, <2>2, <2>3
<1>2. ASSUME NEW n \in Nat, n \in T PROVE n + 1 \in T
  <2> SUFFICES ASSUME n + 1 <= Len(rows) PROVE Done(n + 1)
    OBVIOUS
  <2>1. n \in 0..Len(rows) /\ n + 1 \in 1..Len(rows) /\ n <= Len(rows)
    OBVIOUS
  <2>2. PICK t : /\ Reads(recs, verify, s, SubSeq(rows, 1, n), t)
                 /\ ReadSince(recs, s, t, "sig", s.record, s.cert, SubSeq(rows, 1, n))
    BY <1>2, <2>1
  <2>3. SubSeq(rows, 1, n) \in Seq(LineType)
    BY <2>1, PrefixFacts
  <2>4. PICK x \in Seq(LineType) : x = SubSeq(rows, 1, n)
    BY <2>3
  <2>5. PICK l \in LineType : l = rows[n + 1] /\ l \notin {Empty, Sep}
    BY <2>1
  <2>6. SubSeq(rows, 1, n + 1) = Append(x, l)
    BY <2>1, <2>4, <2>5
  <2>7. x \o <<l>> = Append(x, l)
    OBVIOUS
  <2>8. PICK u : u = ScanLine(t, recs, verify, l)
    OBVIOUS
  <2>9. Reads(recs, verify, s, x \o <<l>>, u)
    BY <2>2, <2>4, <2>8, ReadsMore
  <2>10. t \in ScanType(recs) /\ t.at = "sig" /\ t.sig = x
    BY <2>2, <2>4 DEF ReadSince
  <2>11. ReadSince(recs, t, u, "sig", t.record, t.cert, Append(x, l))
    BY <2>5, <2>8, <2>10, AtSig
  <2>12. ReadSince(recs, s, u, "sig", s.record, s.cert, Append(x, l))
    BY <2>2, <2>11 DEF ReadSince
  <2> QED
    BY <2>6, <2>7, <2>9, <2>12
<1>3. Len(rows) \in Nat
  OBVIOUS
<1>4. Len(rows) \in T
  <2> HIDE DEF T
  <2> QED
    BY <1>1, <1>2, <1>3, SetInduction
<1>5. SubSeq(rows, 1, Len(rows)) = rows
  OBVIOUS
<1>6. Done(Len(rows))
  <2>1. Len(rows) <= Len(rows)
    BY <1>3
  <2> HIDE DEF Done
  <2> QED
    BY <1>4, <2>1
<1> QED
  BY <1>5, <1>6

-----------------------------------------------------------------------------
(* What the lines of an announcement consist of *)

(* The kinds that are read as far as a signature, and what is read of it.    *)
LedKinds == {"good", "invalid", "malformed", "cut", "nosig"}
SigOf(rec, p) ==
  IF rec.kind = "nosig" THEN <<>> ELSE IF rec.kind = "cut" THEN Front(SigRows(p)) ELSE SigRows(p)

(* A signature has more than one row, so that one is left of it when the     *)
(* last is missing.                                                          *)
LEMMA TwoRows == Rows \in Nat /\ Rows >= 2
<1>1. Rows \in Nat
  BY RowFacts
<1>2. PICK n \in Nat : n = SigLen + RowLen - 1 /\ n >= 2 * RowLen
  BY SignatureAssumption
<1>3. PICK r \in Nat \ {0} : r = RowLen
  BY SignatureAssumption
<1>4. PICK k \in Nat : k = n \div r
  BY <1>3
<1>5. n >= 2 * r
  BY <1>2, <1>3
<1>6. k >= 2
  BY <1>4, <1>5
<1>7. StringToRows(SigLen) = [i \in 1..k |-> <<(i - 1) * RowLen + 1, IF i * RowLen <= SigLen THEN i * RowLen ELSE SigLen>>]
  BY <1>2, <1>3, <1>4 DEF StringToRows
<1>8. Rows = k
  BY <1>7 DEF Rows
<1> QED
  BY <1>1, <1>6, <1>8

LEMMA SigOfFacts ==
  ASSUME NEW rec, rec.kind \in LedKinds, NEW p \in Nat
  PROVE  /\ SigOf(rec, p) \in Seq(LineType)
         /\ \A k \in 1..Len(SigOf(rec, p)) : SigOf(rec, p)[k].is = "sig"
         /\ SigOf(rec, p) = <<>> <=> rec.kind = "nosig"
         /\ SigOf(rec, p) = SigRows(p) <=> rec.kind \notin {"nosig", "cut"}
<1>1. /\ SigRows(p) \in Seq(LineType) /\ Len(SigRows(p)) = Rows /\ SigRows(p) # <<>>
      /\ \A k \in 1..Rows : SigRows(p)[k].is = "sig"
  BY SigFacts
<1>2. PICK g \in Seq(LineType) : g = SigRows(p)
  BY <1>1
<1>3. Rows \in Nat /\ Rows >= 2
  BY TwoRows
<1>4. /\ Front(g) \in Seq(LineType) /\ Len(Front(g)) = Rows - 1
      /\ \A k \in 1..(Rows - 1) : Front(g)[k] = g[k] /\ k \in 1..Rows
  BY <1>1, <1>2, FrontFacts
<1>5. PICK h \in Seq(LineType) : h = Front(g)
  BY <1>4
<1>6. Len(h) # 0 /\ Len(h) # Len(g) /\ Len(h) = Rows - 1
  BY <1>1, <1>2, <1>3, <1>4, <1>5
<1>7. h # <<>> /\ h # g /\ g # <<>>
  BY <1>1, <1>2, <1>6
<1>8. \A k \in 1..Len(h) : h[k].is = "sig"
  BY <1>1, <1>2, <1>4, <1>5, <1>6
<1>9. CASE rec.kind = "nosig"
  <2>1. SigOf(rec, p) = <<>>
    BY <1>9 DEF SigOf
  <2>2. <<>> \in Seq(LineType) /\ Len(<<>>) = 0
    OBVIOUS
  <2> QED
    BY <1>1, <1>9, <2>1, <2>2
<1>10. CASE rec.kind = "cut"
  <2>1. SigOf(rec, p) = h
    BY <1>2, <1>5, <1>10 DEF SigOf
  <2> QED
    BY <1>2, <1>7, <1>8, <1>10, <2>1
<1>11. CASE rec.kind \notin {"nosig", "cut"}
  <2>1. SigOf(rec, p) = g
    BY <1>2, <1>11 DEF SigOf
  <2> QED
    BY <1>1, <1>2, <1>7, <1>11, <2>1
<1> QED
  BY <1>9, <1>10, <1>11

(* With an empty line after it, if it does not run into the next.            *)
LEMMA LedBody ==
  ASSUME NEW rec, rec.kind \in LedKinds, NEW p \in Nat
  PROVE  /\ Body(rec, p) = Lead(p) \o SigOf(rec, p) \o <<Empty>>
         /\ Front(Body(rec, p)) = Lead(p) \o SigOf(rec, p)
         /\ Lead(p) \in Seq(LineType) /\ SigOf(rec, p) \in Seq(LineType)
<1>1. /\ MarshalText(p) = Lead(p) \o SigRows(p) \o <<Empty>>
      /\ Lead(p) \in Seq(LineType)
      /\ Front(Front(MarshalText(p))) = Lead(p) \o Front(SigRows(p))
  BY MarshalFacts
<1>2. SigOf(rec, p) \in Seq(LineType)
  BY SigOfFacts
<1>3. Body(rec, p) = Lead(p) \o SigOf(rec, p) \o <<Empty>>
  <2>1. CASE rec.kind \in {"good", "invalid", "malformed"}
    BY <1>1, <2>1 DEF Body, SigOf
  <2>2. CASE rec.kind = "cut"
    BY <1>1, <2>2 DEF Body, SigOf
  <2>3. CASE rec.kind = "nosig"
    <3>1. Body(rec, p) = <<Line("record", p), Empty>> \o Cert(p) \o <<Empty, Empty>>
      BY <2>3 DEF Body
    <3>2. /\ <<Line("record", p), Empty>> \in Seq(LineType) /\ Cert(p) \in Seq(LineType)
          /\ <<Empty>> \in Seq(LineType)
      BY LineFacts DEF Cert
    <3>3. PICK a \in Seq(LineType) : a = <<Line("record", p), Empty>> \o Cert(p)
      BY <3>2, JoinFacts
    <3>4. PICK e \in Seq(LineType) : e = <<Empty>>
      BY <3>2
    <3>5. e \o e = <<Empty, Empty>>
      BY <3>4, LineFacts, TwoLines
    <3>6. (a \o e) \o e = a \o (e \o e)
      BY ConcatAssociative
    <3>7. Lead(p) = a \o e
      BY <3>3, <3>4 DEF Lead
    <3>8. Body(rec, p) = Lead(p) \o e
      BY <3>1, <3>3, <3>5, <3>6, <3>7
    <3>9. Lead(p) \o <<>> = Lead(p) /\ SigOf(rec, p) = <<>>
      BY <1>1, <2>3, ConcatEmptySeq DEF SigOf
    <3> QED
      BY <3>4, <3>8, <3>9
  <2> QED
    BY <2>1, <2>2, <2>3 DEF LedKinds
<1>4. PICK a \in Seq(LineType) : a = Lead(p) \o SigOf(rec, p)
  BY <1>1, <1>2, JoinFacts
<1>5. PICK e \in Seq(LineType) : e = <<Empty>> /\ e # <<>>
  <2>1. <<Empty>> \in Seq(LineType) /\ <<Empty>> # <<>>
    BY LineFacts
  <2> QED
    BY <2>1
<1>6. Front(a \o e) = a \o Front(e)
  BY <1>5, FrontOfJoin
<1>7. Front(e) = <<>>
  BY <1>5, LineFacts DEF Front
<1>8. a \o <<>> = a
  BY ConcatEmptySeq
<1> QED
  BY <1>1, <1>2, <1>3, <1>4, <1>5, <1>6, <1>7, <1>8

(* No line of an announcement is a separator.                                *)
NoSep == {l \in LineType : l # Sep}

LEMMA BodyNoSep ==
  ASSUME NEW rec, rec.kind \in Kinds, NEW p \in Nat
  PROVE  /\ Body(rec, p) \in Seq(NoSep) /\ Front(Body(rec, p)) \in Seq(NoSep)
         /\ SigRows(p) \in Seq(NoSep) /\ Rest(p) \in Seq(NoSep)
<1>1. Empty \in NoSep /\ Line("record", p) \in NoSep /\ Line("cert", p) \in NoSep
  BY LineFacts DEF NoSep
<1>2. Sep.is = "sep"
  BY LineFacts
<1>3. ASSUME NEW g \in Seq(LineType), \A k \in 1..Len(g) : g[k].is = "sig" PROVE g \in Seq(NoSep)
  <2>1. \A k \in 1..Len(g) : g[k] \in NoSep
    BY <1>2, <1>3 DEF NoSep
  <2> QED
    BY <2>1
<1>4. SigRows(p) \in Seq(NoSep)
  BY <1>3, SigFacts
<1>5. /\ <<Empty>> \in Seq(NoSep) /\ Cert(p) \in Seq(NoSep) /\ <<Line("record", p)>> \in Seq(NoSep)
      /\ <<Line("record", p), Empty>> \in Seq(NoSep) /\ <<Line("record", p), Empty, Empty>> \in Seq(NoSep)
  BY <1>1 DEF Cert
<1>6. ASSUME NEW a \in Seq(NoSep), NEW b \in Seq(NoSep) PROVE a \o b \in Seq(NoSep)
  BY JoinFacts
<1>7. Cert(p) \o <<Empty>> \o SigRows(p) \in Seq(NoSep)
  BY <1>4, <1>5, <1>6
<1>8. Rest(p) \in Seq(NoSep)
  BY <1>5, <1>6, <1>7 DEF Rest
<1>9. MarshalText(p) = <<Line("record", p), Empty>> \o Rest(p) /\ Tail(Tail(MarshalText(p))) = Rest(p)
  BY MarshalFacts
<1>10. MarshalText(p) \in Seq(NoSep)
  BY <1>5, <1>6, <1>8, <1>9
<1>11. Body(rec, p) \in Seq(NoSep)
  <2>1. CASE rec.kind \in LedKinds
    <3>1. SigOf(rec, p) \in Seq(NoSep)
      BY <1>3, <2>1, SigOfFacts
    <3>2. Lead(p) \in Seq(NoSep)
      BY <1>5, <1>6 DEF Lead
    <3>3. Lead(p) \o SigOf(rec, p) \in Seq(NoSep)
      BY <1>6, <3>1, <3>2
    <3> QED
      BY <1>5, <1>6, <2>1, <3>3, LedBody
  <2>2. CASE rec.kind = "nocert"
    <3>1. Body(rec, p) = <<Line("record", p), Empty, Empty>> \o SigRows(p) \o <<Empty>>
      BY <2>2 DEF Body
    <3>2. <<Line("record", p), Empty, Empty>> \o SigRows(p) \in Seq(NoSep)
      BY <1>4, <1>5, <1>6
    <3> QED
      BY <1>5, <1>6, <3>1, <3>2
  <2>3. CASE rec.kind = "nogap"
    <3>1. Body(rec, p) = <<Line("record", p)>> \o Rest(p)
      BY <1>9, <2>3 DEF Body
    <3> QED
      BY <1>5, <1>6, <1>8, <3>1
  <2>4. CASE rec.kind = "blank"
    <3>1. Body(rec, p) = <<Empty>> \o MarshalText(p)
      BY <2>4 DEF Body
    <3> QED
      BY <1>5, <1>6, <1>10, <3>1
  <2> QED
    BY <2>1, <2>2, <2>3, <2>4 DEF Kinds, LedKinds
<1>12. PICK b \in Seq(NoSep) : b = Body(rec, p)
  BY <1>11
<1>13. Front(b) \in Seq(NoSep)
  <2>1. CASE b = <<>>
    <3>1. Front(b) = <<>>
      BY <2>1 DEF Front
    <3> QED
      BY <3>1
  <2>2. CASE b # <<>>
    BY <2>2, FrontFacts
  <2> QED
    BY <2>1, <2>2
<1> QED
  BY <1>4, <1>8, <1>11, <1>12, <1>13

-----------------------------------------------------------------------------
(* The end of an announcement *)

(* The scan is over by announcement p.                                       *)
Over(recs, p) == \E q \in 1..p : EndsScan(recs, q)

LEMMA OverStep ==
  ASSUME NEW recs, NEW p \in Nat \ {0}
  PROVE  /\ Over(recs, p) <=> Over(recs, p - 1) \/ EndsScan(recs, p)
         /\ ~Over(recs, 0)
         /\ p \in Found(recs) => ~Lost(recs, p) /\ ~Over(recs, p) /\ recs[p].kind \in {"good", "invalid", "cut"}
         /\ p \in DOMAIN recs /\ ~Lost(recs, p) /\ ~Over(recs, p) /\ recs[p].kind \in {"good", "invalid", "cut"} =>
              p \in Found(recs)
<1>1. \A q \in 1..p : q = p \/ q \in 1..(p - 1)
  OBVIOUS
<1>2. p \in 1..p /\ \A q \in 1..(p - 1) : q \in 1..p
  OBVIOUS
<1>3. Over(recs, p) <=> Over(recs, p - 1) \/ EndsScan(recs, p)
  BY <1>1, <1>2 DEF Over
<1>4. ~Over(recs, 0)
  BY DEF Over
<1> QED
  BY <1>3, <1>4 DEF Found, Over

(* The names of an announcement that read the same in lower case.            *)
NamesOf(rec, a) == {n \in rec.provides : ToLower[n] = a}

LEMMA NamesCounted ==
  ASSUME NEW recs \in Seq(Announcement), NEW p \in DOMAIN recs, NEW a
  PROVE  Cardinality(NamesOf(recs[p], a)) \in Nat
<1>1. recs[p] \in Announcement
  OBVIOUS
<1>2. recs[p].provides \subseteq Names
  BY <1>1 DEF Announcement
<1>3. PICK M \in SUBSET Names : M = NamesOf(recs[p], a)
  BY <1>2 DEF NamesOf
<1>4. IsFiniteSet(M)
  BY NamesAssumption, FS_Subset
<1> QED
  BY <1>3, <1>4, FS_CardinalityType

(* What storeNoLock and removeNoLock do to the indexes.                      *)
Listed(s, t, a, p, c) == t.actionIndex[a] = s.actionIndex[a] \o [k \in 1..c |-> p]

LEMMA StoredFields ==
  ASSUME NEW recs \in Seq(Announcement), NEW p \in DOMAIN recs, NEW s \in ScanType(recs)
  PROVE  LET next == StoreNoLock(s, recs, p)
         IN  /\ next \in ScanType(recs) /\ next.at = s.at
             /\ \A a \in Actions : Listed(s, next, a, p, Cardinality(NamesOf(recs[p], a)))
             /\ \A i \in Idents : next.identIndex[i] = IF i = recs[p].ident THEN p ELSE s.identIndex[i]
<1> DEFINE next == StoreNoLock(s, recs, p)
           new == [a \in Actions |-> s.actionIndex[a]
                     \o [k \in 1..Cardinality(NamesOf(recs[p], a)) |-> p]]
           idents == [s.identIndex EXCEPT ![recs[p].ident] = p]
<1>1. recs[p].ident \in Idents
  <2>1. recs[p] \in Announcement
    OBVIOUS
  <2> QED
    BY <2>1 DEF Announcement
<1>2. /\ s.identIndex \in [Idents -> Nat] /\ s.actionIndex \in [Actions -> Seq(DOMAIN recs)]
      /\ s = [identIndex |-> s.identIndex, actionIndex |-> s.actionIndex, at |-> s.at,
              record |-> s.record, cert |-> s.cert, sig |-> s.sig]
  BY DEF ScanType
<1>3. PICK d : d = [s EXCEPT !.identIndex[recs[p].ident] = p]
  OBVIOUS
<1>4. d = [identIndex |-> idents, actionIndex |-> s.actionIndex, at |-> s.at,
           record |-> s.record, cert |-> s.cert, sig |-> s.sig]
  BY <1>2, <1>3
<1>5. next = [d EXCEPT !.actionIndex = new]
  BY <1>1, <1>2, <1>3, <1>4 DEF StoreNoLock, NamesOf
<1>6. \A i \in Idents : idents[i] = IF i = recs[p].ident THEN p ELSE s.identIndex[i]
  BY <1>1, <1>2
<1>7. next.actionIndex = new /\ next.identIndex = idents
  <2> HIDE DEF idents, new, next
  <2> QED
    BY <1>4, <1>5
<1>a. idents \in [Idents -> Nat]
  BY <1>1, <1>2
<1>b. \A a \in Actions : Cardinality(NamesOf(recs[p], a)) \in Nat
  BY NamesCounted
<1>c. new \in [Actions -> Seq(DOMAIN recs)]
  <2>1. ASSUME NEW a \in Actions
        PROVE  s.actionIndex[a] \o [k \in 1..Cardinality(NamesOf(recs[p], a)) |-> p]
                 \in Seq(DOMAIN recs)
    <3>1. PICK c \in Nat : c = Cardinality(NamesOf(recs[p], a))
      BY <1>b
    <3>2. [k \in 1..c |-> p] \in Seq(DOMAIN recs)
      OBVIOUS
    <3>3. s.actionIndex[a] \in Seq(DOMAIN recs)
      BY <1>2
    <3> QED
      BY <3>1, <3>2, <3>3, JoinFacts
  <2> QED
    BY <2>1
<1>d. next \in ScanType(recs) /\ next.at = s.at
  <2> HIDE DEF idents, new, next
  <2>1. next = [identIndex |-> idents, actionIndex |-> new, at |-> s.at,
                record |-> s.record, cert |-> s.cert, sig |-> s.sig]
    BY <1>4, <1>5
  <2> QED
    BY <1>a, <1>c, <2>1 DEF ScanType
<1>8. \A i \in Idents : next.identIndex[i] = IF i = recs[p].ident THEN p ELSE s.identIndex[i]
  <2> HIDE DEF idents, new, next
  <2> QED
    BY <1>6, <1>7
<1>9. \A a \in Actions : next.actionIndex[a] = s.actionIndex[a]
        \o [k \in 1..Cardinality(NamesOf(recs[p], a)) |-> p]
  <2>1. \A a \in Actions : new[a] = s.actionIndex[a]
        \o [k \in 1..Cardinality(NamesOf(recs[p], a)) |-> p]
    OBVIOUS
  <2> HIDE DEF idents, new, next
  <2> QED
    BY <1>7, <2>1
<1> HIDE DEF next
<1>e. \A a \in Actions : Listed(s, next, a, p, Cardinality(NamesOf(recs[p], a)))
  BY <1>9 DEF Listed
<1> QED
  BY <1>8, <1>d, <1>e DEF next

LEMMA RemovedFields ==
  ASSUME NEW recs \in Seq(Announcement), NEW p \in DOMAIN recs, NEW s \in ScanType(recs)
  PROVE  LET next == RemoveNoLock(s, recs, p)
         IN  /\ next \in ScanType(recs) /\ next.at = s.at /\ next.actionIndex = s.actionIndex
             /\ \A i \in Idents : next.identIndex[i] = IF i = recs[p].ident THEN 0 ELSE s.identIndex[i]
<1> DEFINE next == RemoveNoLock(s, recs, p)
           idents == [s.identIndex EXCEPT ![recs[p].ident] = 0]
<1>1. recs[p].ident \in Idents
  <2>1. recs[p] \in Announcement
    OBVIOUS
  <2> QED
    BY <2>1 DEF Announcement
<1>2. /\ s.identIndex \in [Idents -> Nat]
      /\ s = [identIndex |-> s.identIndex, actionIndex |-> s.actionIndex, at |-> s.at,
              record |-> s.record, cert |-> s.cert, sig |-> s.sig]
  BY DEF ScanType
<1>3. next = [identIndex |-> idents, actionIndex |-> s.actionIndex, at |-> s.at,
              record |-> s.record, cert |-> s.cert, sig |-> s.sig]
  <2>1. PICK d : d = [s EXCEPT !.identIndex[recs[p].ident] = 0]
    OBVIOUS
  <2>2. d = [identIndex |-> idents, actionIndex |-> s.actionIndex, at |-> s.at,
             record |-> s.record, cert |-> s.cert, sig |-> s.sig]
    BY <1>2, <2>1
  <2>3. next = d
    BY <2>1 DEF RemoveNoLock
  <2> QED
    BY <2>2, <2>3
<1>4. \A i \in Idents : idents[i] = IF i = recs[p].ident THEN 0 ELSE s.identIndex[i]
  BY <1>1, <1>2
<1>a. idents \in [Idents -> Nat]
  BY <1>1, <1>2
<1> HIDE DEF next, idents
<1>5. next.actionIndex = s.actionIndex /\ next.identIndex = idents /\ next.at = s.at
  BY <1>3
<1>b. next \in ScanType(recs)
  BY <1>3, <1>a DEF ScanType
<1>6. \A i \in Idents : next.identIndex[i] = IF i = recs[p].ident THEN 0 ELSE s.identIndex[i]
  BY <1>4, <1>5
<1> QED
  BY <1>5, <1>6, <1>b DEF next

(* Announcement p was read up to the end of its signature, rightly.          *)
Pending(recs, verify, p, s) ==
  /\ s \in ScanType(recs) /\ p \in DOMAIN recs
  /\ s.record = Line("record", p) /\ s.cert = Cert(p) /\ s.sig = SigOf(recs[p], p)
  /\ recs[p].kind \in LedKinds /\ ~Lost(recs, p) /\ ~Over(recs, p - 1)
  /\ Exact(recs, verify, s, p - 1)

(* The scan is between two announcements, the last of which was p.           *)
Between(recs, verify, p, s) ==
  /\ s \in ScanType(recs) /\ Exact(recs, verify, s, p)
  /\ \/ s.at \in {"ended", "failed"} /\ Over(recs, p)
     \/ s.at = "slop" /\ ~Over(recs, p)

(* Then its end leaves the indexes right.                                    *)
LEMMA Ending ==
  ASSUME NEW recs \in Seq(Announcement), NEW verify \in BOOLEAN, NEW p, NEW s,
         Pending(recs, verify, p, s)
  PROVE  Between(recs, verify, p, EndSig(s, recs, verify))
<1> DEFINE slop == [s EXCEPT !.at = "slop"]
           failed == [s EXCEPT !.at = "failed"]
<1>1. /\ s \in ScanType(recs) /\ p \in DOMAIN recs /\ p \in Nat \ {0}
      /\ s.record = Line("record", p) /\ s.cert = Cert(p) /\ s.sig = SigOf(recs[p], p)
      /\ recs[p].kind \in LedKinds /\ ~Lost(recs, p) /\ ~Over(recs, p - 1)
      /\ Exact(recs, verify, s, p - 1)
  BY DEF Pending
<1>2. s.record.is = "record" /\ s.record.of = p
  BY <1>1, LineFacts
<1>3. "slop" \in Places /\ "failed" \in Places
  BY DEF Places
<1>4. /\ slop \in ScanType(recs) /\ slop.at = "slop"
      /\ slop.identIndex = s.identIndex /\ slop.actionIndex = s.actionIndex
  BY <1>1, <1>3, AtFacts
<1>5. /\ failed \in ScanType(recs) /\ failed.at = "failed"
      /\ failed.identIndex = s.identIndex /\ failed.actionIndex = s.actionIndex
  BY <1>1, <1>3, AtFacts
<1> HIDE DEF slop, failed
<1>7. \A a \in Actions : s.actionIndex[a] \in Seq(DOMAIN recs)
  BY <1>1 DEF ScanType
<1>8. s.sig = <<>> <=> recs[p].kind = "nosig"
  BY <1>1, SigOfFacts
<1>9. CASE recs[p].kind = "nosig"
  <2>1. EndSig(s, recs, verify) = slop
    BY <1>8, <1>9 DEF EndSig, slop
  <2>2. p \notin Found(recs) /\ ~EndsScan(recs, p)
    BY <1>9 DEF Found, EndsScan
  <2>3. ~Over(recs, p)
    BY <1>1, <2>2, OverStep
  <2>4. Exact(recs, verify, slop, p)
    BY <1>1, <1>4, <1>7, <2>2, ExactSkips
  <2> QED
    BY <1>4, <2>1, <2>3, <2>4 DEF Between
<1>10. CASE recs[p].kind = "malformed"
  <2>1. ~Parses(recs, s.record)
    BY <1>2, <1>10 DEF Parses
  <2>2. EndSig(s, recs, verify) = failed
    BY <1>8, <1>10, <2>1 DEF EndSig, Keep, failed
  <2>3. p \notin Found(recs) /\ EndsScan(recs, p)
    BY <1>1, <1>10 DEF Found, EndsScan
  <2>4. Over(recs, p)
    BY <1>1, <2>3, OverStep
  <2>5. Exact(recs, verify, failed, p)
    BY <1>1, <1>5, <1>7, <2>3, ExactSkips
  <2> QED
    BY <1>5, <2>2, <2>4, <2>5 DEF Between
<1>11. CASE recs[p].kind \in {"good", "invalid", "cut"}
  <2>1. Parses(recs, s.record) /\ s.sig # <<>>
    BY <1>2, <1>8, <1>11 DEF Parses
  <2>2. ~EndsScan(recs, p)
    BY <1>11 DEF EndsScan
  <2>3. ~Over(recs, p)
    BY <1>1, <2>2, OverStep
  <2>4. p \in Found(recs)
    BY <1>1, <1>11, <2>3, OverStep
  <2>5. Validate(recs, p, s.cert, s.sig) <=> recs[p].kind = "good"
    <3>1. SigOf(recs[p], p) = SigRows(p) <=> recs[p].kind \notin {"nosig", "cut"}
      BY <1>1, SigOfFacts
    <3> QED
      BY <1>1, <1>11, <3>1 DEF Validate
  <2>6. p \in Accepted(recs, verify) <=> (verify => recs[p].kind = "good")
    BY <2>4 DEF Accepted
  <2>7. CASE verify /\ recs[p].kind # "good"
    <3>1. PICK n : n = RemoveNoLock(slop, recs, p)
      OBVIOUS
    <3>2. EndSig(s, recs, verify) = n
      BY <1>2, <2>1, <2>5, <2>7, <3>1 DEF EndSig, Keep, slop
    <3>3. /\ n \in ScanType(recs) /\ n.at = slop.at /\ n.actionIndex = slop.actionIndex
          /\ \A i \in Idents : n.identIndex[i] = IF i = recs[p].ident THEN 0 ELSE slop.identIndex[i]
      BY <1>1, <1>4, <3>1, RemovedFields
    <3>4. n.at = "slop"
      BY <1>4, <3>3
    <3>5. /\ n.actionIndex = s.actionIndex
          /\ \A i \in Idents : n.identIndex[i] = IF i = recs[p].ident THEN 0 ELSE s.identIndex[i]
      BY <1>4, <3>3
    <3>6. Exact(recs, verify, n, p)
      BY <1>1, <1>7, <2>4, <2>6, <2>7, <3>5, ExactRemoves
    <3> QED
      BY <2>3, <3>2, <3>3, <3>4, <3>6 DEF Between
  <2>8. CASE ~(verify /\ recs[p].kind # "good")
    <3>1. PICK n : n = StoreNoLock(slop, recs, p)
      OBVIOUS
    <3>2. EndSig(s, recs, verify) = n
      BY <1>2, <2>1, <2>5, <2>8, <3>1 DEF EndSig, Keep, slop
    <3>3. /\ n \in ScanType(recs) /\ n.at = slop.at
          /\ \A a \in Actions : Listed(slop, n, a, p, Cardinality(NamesOf(recs[p], a)))
          /\ \A i \in Idents : n.identIndex[i] = IF i = recs[p].ident THEN p ELSE slop.identIndex[i]
      BY <1>1, <1>4, <3>1, StoredFields
    <3>4. n.at = "slop"
      BY <1>4, <3>3
    <3>5. p \in Accepted(recs, verify)
      BY <2>6, <2>8
    <3>6. \A a \in Actions : ByAction(recs, verify, a, p) = Cardinality(NamesOf(recs[p], a))
      BY <3>5 DEF ByAction, NamesOf
    <3>7. \A a \in Actions : ByAction(recs, verify, a, p) \in Nat
      BY <1>1, <3>6, NamesCounted
    <3>8. \A a \in Actions : n.actionIndex[a] = s.actionIndex[a] \o [k \in 1..ByAction(recs, verify, a, p) |-> p]
      BY <1>4, <3>3, <3>6 DEF Listed
    <3>9. \A i \in Idents : n.identIndex[i] = IF i = recs[p].ident THEN p ELSE s.identIndex[i]
      BY <1>4, <3>3
    <3>10. Exact(recs, verify, n, p)
      BY <1>1, <1>7, <3>5, <3>7, <3>8, <3>9, ExactStores
    <3> QED
      BY <2>3, <3>2, <3>3, <3>4, <3>10 DEF Between
  <2> QED
    BY <2>7, <2>8
<1> QED
  BY <1>1, <1>9, <1>10, <1>11 DEF LedKinds

-----------------------------------------------------------------------------
(* From one announcement to the next *)

(* The lines of an announcement, the last left out if it runs into the next. *)
Part(rec, p) == IF rec.runOn THEN Front(Body(rec, p)) ELSE Body(rec, p)

(* A step to a place, with the indexes kept.                                 *)
MovedTo(recs, s, t, place) ==
  /\ t \in ScanType(recs) /\ t.at = place
  /\ t.identIndex = s.identIndex /\ t.actionIndex = s.actionIndex

(* Lines after one that ends the scan.                                       *)
LEMMA ReadsStop ==
  ASSUME NEW recs, NEW verify, NEW from, NEW S, NEW line \in S, NEW rest \in Seq(S),
         ScanLine(from, recs, verify, line).at \in {"ended", "failed"}
  PROVE  Reads(recs, verify, from, <<line>> \o rest, ScanLine(from, recs, verify, line))
<1>1. <<line>> \in Seq(S)
  OBVIOUS
<1>2. Reads(recs, verify, from, <<line>>, ScanLine(from, recs, verify, line))
  BY ReadsLine
<1>3. Reads(recs, verify, ScanLine(from, recs, verify, line), rest, ScanLine(from, recs, verify, line))
  BY ReadsOver
<1> QED
  BY <1>1, <1>2, <1>3, ReadsJoin

(* An announcement without a record ends the scan.                           *)
LEMMA BlankRead ==
  ASSUME NEW recs, NEW verify, NEW p \in Nat, NEW rec, rec.kind = "blank",
         NEW s \in ScanType(recs), s.at = "record"
  PROVE  \E t : Reads(recs, verify, s, Part(rec, p), t) /\ MovedTo(recs, s, t, "ended")
<1>1. MarshalText(p) \in Seq(LineType) /\ MarshalText(p) # <<>>
  <2>1. MarshalText(p) = (Lead(p) \o SigRows(p)) \o <<Empty>> /\ Lead(p) \in Seq(LineType) /\ SigRows(p) \in Seq(LineType)
    BY MarshalFacts
  <2>2. PICK a \in Seq(LineType) : a = Lead(p) \o SigRows(p)
    BY <2>1, JoinFacts
  <2>3. PICK e \in Seq(LineType) : e = <<Empty>> /\ Len(e) = 1
    <3>1. <<Empty>> \in Seq(LineType) /\ Len(<<Empty>>) = 1
      BY LineFacts
    <3> QED
      BY <3>1
  <2>4. a \o e \in Seq(LineType) /\ Len(a \o e) = Len(a) + 1 /\ Len(a) \in Nat
    BY <2>3, JoinFacts
  <2>5. Len(a \o e) # 0
    BY <2>4
  <2> QED
    BY <2>1, <2>2, <2>3, <2>4, <2>5
<1>2. PICK m \in Seq(LineType) : m = MarshalText(p) /\ m # <<>>
  BY <1>1
<1>3. Empty \in LineType /\ <<Empty>> \in Seq(LineType)
  BY LineFacts
<1>4. Body(rec, p) = <<Empty>> \o m
  BY <1>2 DEF Body
<1>5. PICK r \in Seq(LineType) : Part(rec, p) = <<Empty>> \o r
  <2>1. Front(<<Empty>> \o m) = <<Empty>> \o Front(m) /\ Front(m) \in Seq(LineType)
    BY <1>2, <1>3, FrontOfJoin, FrontFacts
  <2> QED
    BY <1>4, <2>1 DEF Part
<1>6. PICK t : t = ScanLine(s, recs, verify, Empty)
  OBVIOUS
<1>7. MovedTo(recs, s, t, "ended")
  BY <1>6, AtNoRecord DEF ReadSince, MovedTo
<1>8. Reads(recs, verify, s, <<Empty>> \o r, t)
  BY <1>3, <1>6, <1>7, ReadsStop DEF MovedTo
<1> QED
  BY <1>5, <1>7, <1>8

(* So does one without an empty line after the record, with an error.        *)
LEMMA NoGapRead ==
  ASSUME NEW recs, NEW verify, NEW p \in Nat, NEW rec, rec.kind = "nogap",
         NEW s \in ScanType(recs), s.at = "record"
  PROVE  \E t : Reads(recs, verify, s, Part(rec, p), t) /\ MovedTo(recs, s, t, "failed")
<1> DEFINE record == Line("record", p)
           cert == Line("cert", p)
<1>1. record \in LineType /\ cert \in LineType /\ record # Empty /\ cert # Empty /\ Empty \in LineType
  BY LineFacts
<1>2. PICK r \in Seq(LineType) : r = Tail(Rest(p)) /\ r # <<>> /\ Rest(p) = <<cert>> \o r
  <2>1. Cert(p) = <<cert>> \o <<cert>>
    BY <1>1, TwoLines DEF Cert
  <2> HIDE DEF cert
  <2>2. PICK c \in Seq(LineType) : c = <<cert>> /\ Len(c) = 1
    <3>1. <<cert>> \in Seq(LineType) /\ Len(<<cert>>) = 1
      BY <1>1
    <3> QED
      BY <3>1
  <2>3. PICK e \in Seq(LineType) : e = <<Empty>>
    <3>1. <<Empty>> \in Seq(LineType)
      BY <1>1
    <3> QED
      BY <3>1
  <2>4. PICK g \in Seq(LineType) : g = SigRows(p)
    BY SigFacts
  <2>5. Rest(p) = ((c \o c) \o e) \o g \o e
    BY <2>1, <2>2, <2>3, <2>4 DEF Rest
  <2>6. PICK x \in Seq(LineType) : x = c \o e
    BY JoinFacts
  <2>7. (c \o c) \o e = c \o x
    BY <2>6, ConcatAssociative
  <2>8. PICK y \in Seq(LineType) : y = x \o g
    BY JoinFacts
  <2>9. (c \o x) \o g = c \o y
    BY <2>8, ConcatAssociative
  <2>10. PICK z \in Seq(LineType) : z = y \o e
    BY JoinFacts
  <2>11. (c \o y) \o e = c \o z
    BY <2>10, ConcatAssociative, SMTT(30)
  <2>12. Rest(p) = c \o z
    BY <2>5, <2>7, <2>9, <2>11
  <2>13. z # <<>>
    <3>1. x # <<>>
      BY <2>2, <2>6, JoinFirst
    <3>2. y # <<>>
      BY <2>8, <3>1, JoinFirst
    <3> QED
      BY <2>10, <3>2, JoinFirst
  <2>14. Tail(c \o z) = z
    <3>1. c \o z \in Seq(LineType) /\ Len(c \o z) = 1 + Len(z) /\ \A i \in 1..Len(z) : (c \o z)[1 + i] = z[i]
      BY <2>2, JoinFacts
    <3>2. PICK w \in Seq(LineType) : w = c \o z
      BY <3>1
    <3>3. Len(z) \in Nat /\ Len(w) = 1 + Len(z)
      BY <3>1, <3>2
    <3>4. /\ Tail(w) \in Seq(LineType) /\ Len(Tail(w)) = Len(z)
          /\ \A i \in 1..Len(z) : Tail(w)[i] = w[1 + i]
      BY <3>3
    <3>5. \A i \in 1..Len(z) : Tail(w)[i] = z[i]
      BY <3>1, <3>2, <3>4
    <3> QED
      BY <3>2, <3>4, <3>5, SeqEqual
  <2> QED
    BY <2>2, <2>12, <2>13, <2>14
<1>3. Body(rec, p) = <<record>> \o Rest(p)
  BY MarshalFacts DEF Body
<1> HIDE DEF record, cert
<1>4. <<record>> \in Seq(LineType) /\ <<cert>> \in Seq(LineType)
  BY <1>1
<1>5. PICK a \in Seq(LineType), c \in Seq(LineType) : a = <<record>> /\ c = <<cert>>
  BY <1>4
<1>6. c \o r \in Seq(LineType) /\ c \o r # <<>>
  <2>1. Len(<<cert>>) = 1
    OBVIOUS
  <2>2. c # <<>>
    BY <1>5, <2>1
  <2> QED
    BY <2>2, JoinFirst
<1>7. PICK q \in Seq(LineType) : Part(rec, p) = a \o (c \o q)
  <2>1. Front(a \o (c \o r)) = a \o Front(c \o r)
    BY <1>6, FrontOfJoin
  <2>2. Front(c \o r) = c \o Front(r) /\ Front(r) \in Seq(LineType)
    BY <1>2, FrontOfJoin, FrontFacts
  <2>3. Body(rec, p) = a \o (c \o r)
    BY <1>2, <1>3, <1>5
  <2> QED
    BY <2>1, <2>2, <2>3 DEF Part
<1>8. PICK m : m = ScanLine(s, recs, verify, record)
  OBVIOUS
<1>9. ReadSince(recs, s, m, "gap", record, <<>>, <<>>)
  BY <1>1, <1>8, AtRecord
<1>10. PICK t : t = ScanLine(m, recs, verify, cert)
  OBVIOUS
<1>11. ReadSince(recs, m, t, "failed", m.record, m.cert, m.sig)
  <2>1. m \in ScanType(recs) /\ m.at = "gap"
    BY <1>9 DEF ReadSince
  <2> QED
    BY <1>1, <1>10, <2>1, AtGap
<1>12. MovedTo(recs, s, t, "failed")
  BY <1>9, <1>11 DEF ReadSince, MovedTo
<1>13. Reads(recs, verify, m, c \o q, t)
  BY <1>1, <1>5, <1>10, <1>12, ReadsStop DEF MovedTo
<1>14. Reads(recs, verify, s, a, m)
  BY <1>5, <1>8, ReadsLine
<1>15. c \o q \in Seq(LineType)
  BY JoinFacts
<1>16. Reads(recs, verify, s, a \o (c \o q), t)
  BY <1>13, <1>14, <1>15, ReadsJoin
<1> QED
  BY <1>7, <1>12, <1>16

(* One without a certificate is passed over.                                 *)
LEMMA NoCertRead ==
  ASSUME NEW recs, NEW verify, NEW p \in Nat, NEW rec, rec.kind = "nocert",
         NEW s \in ScanType(recs), s.at = "record"
  PROVE  \E t : Reads(recs, verify, s, Part(rec, p), t) /\ MovedTo(recs, s, t, "slop")
<1> DEFINE record == Line("record", p)
<1>1. record \in LineType /\ record # Empty /\ Empty \in LineType
  BY LineFacts
<1>2. /\ Body(rec, p) = <<record, Empty, Empty>> \o SigRows(p) \o <<Empty>>
      /\ SigRows(p) \in Seq(NoSep)
  <2>1. rec.kind \in Kinds
    BY DEF Kinds
  <2> QED
    BY <2>1, BodyNoSep DEF Body
<1> HIDE DEF record
<1>3. NoSep \subseteq LineType /\ Empty \in NoSep
  BY LineFacts DEF NoSep
<1>4. PICK a \in Seq(LineType) : a = <<record, Empty, Empty>>
  <2>1. <<record, Empty, Empty>> \in Seq(LineType)
    BY <1>1
  <2> QED
    BY <2>1
<1>5. PICK g \in Seq(NoSep), e \in Seq(NoSep) : g = SigRows(p) /\ e = <<Empty>> /\ e # <<>>
  <2>1. <<Empty>> \in Seq(NoSep) /\ <<Empty>> # <<>>
    BY <1>3
  <2> QED
    BY <1>2, <2>1
<1>6. g \in Seq(LineType) /\ e \in Seq(LineType)
  BY <1>3, SeqMonotonic
<1>7. PICK r \in Seq(NoSep) : Part(rec, p) = a \o r
  <2>1. (a \o g) \o e = a \o (g \o e)
    BY <1>6, ConcatAssociative, SMTT(30)
  <2>2. a \o g \in Seq(LineType)
    BY <1>6, JoinFacts
  <2>3. Front((a \o g) \o e) = (a \o g) \o Front(e)
    BY <1>5, <1>6, <2>2, FrontOfJoin
  <2>4. Front(e) = <<>>
    BY <1>3, <1>5 DEF Front
  <2>5. (a \o g) \o <<>> = a \o g
    BY <2>2, ConcatEmptySeq
  <2>6. g \o e \in Seq(NoSep)
    BY JoinFacts
  <2>7. Body(rec, p) = (a \o g) \o e
    BY <1>2, <1>4, <1>5
  <2> QED
    BY <2>1, <2>3, <2>4, <2>5, <2>6, <2>7 DEF Part
<1>8. PICK b : b = ScanLine(s, recs, verify, record)
  OBVIOUS
<1>9. ReadSince(recs, s, b, "gap", record, <<>>, <<>>)
  BY <1>1, <1>8, AtRecord
<1>10. PICK c : c = ScanLine(b, recs, verify, Empty)
  OBVIOUS
<1>11. ReadSince(recs, s, c, "cert", record, <<>>, <<>>)
  <2>1. b \in ScanType(recs) /\ b.at = "gap"
    BY <1>9 DEF ReadSince
  <2>2. ReadSince(recs, b, c, "cert", b.record, b.cert, b.sig)
    BY <1>10, <2>1, AtGap
  <2> QED
    BY <1>9, <2>2 DEF ReadSince
<1>12. PICK t : t = ScanLine(c, recs, verify, Empty)
  OBVIOUS
<1>13. MovedTo(recs, s, t, "slop")
  <2>1. c \in ScanType(recs) /\ c.at = "cert" /\ c.cert = <<>>
    BY <1>11 DEF ReadSince
  <2>2. ReadSince(recs, c, t, "slop", c.record, c.cert, c.sig)
    BY <1>12, <2>1, AtCertEnd
  <2> QED
    BY <1>11, <2>2 DEF ReadSince, MovedTo
<1>14. Reads(recs, verify, s, a, t)
  <2>1. Reads(recs, verify, s, <<record>>, b) /\ <<record>> \in Seq(LineType)
    BY <1>1, <1>8, ReadsLine
  <2>2. Reads(recs, verify, s, <<record>> \o <<Empty>>, c)
    BY <1>1, <1>10, <2>1, ReadsMore
  <2>3. PICK d \in Seq(LineType) : d = <<record, Empty>> /\ d = <<record>> \o <<Empty>>
    BY <1>1, TwoLines
  <2>4. Reads(recs, verify, s, d \o <<Empty>>, t)
    BY <1>1, <1>12, <2>2, <2>3, ReadsMore
  <2>5. d \o <<Empty>> = a
    <3>1. d \o <<Empty>> = Append(d, Empty)
      BY <1>1
    <3>2. Len(d) = 2 /\ d[1] = record /\ d[2] = Empty
      BY <2>3
    <3>3. /\ Append(d, Empty) \in Seq(LineType) /\ Len(Append(d, Empty)) = Len(d) + 1
          /\ \A i \in 1..Len(d) : Append(d, Empty)[i] = d[i]
          /\ Append(d, Empty)[Len(d) + 1] = Empty
      BY <1>1
    <3>4. 1 \in 1..Len(d) /\ 2 \in 1..Len(d) /\ Len(d) + 1 = 3
      BY <3>2
    <3>5. Len(Append(d, Empty)) = 3 /\ Append(d, Empty)[1] = record /\ Append(d, Empty)[2] = Empty /\ Append(d, Empty)[3] = Empty
      BY <3>2, <3>3, <3>4
    <3>6. Len(a) = 3 /\ a[1] = record /\ a[2] = Empty /\ a[3] = Empty
      BY <1>4
    <3>7. \A i \in 1..3 : i = 1 \/ i = 2 \/ i = 3
      OBVIOUS
    <3>8. \A i \in 1..Len(a) : Append(d, Empty)[i] = a[i]
      BY <3>5, <3>6, <3>7
    <3> QED
      BY <3>1, <3>3, <3>5, <3>6, <3>8, SeqEqual
  <2> QED
    BY <2>4, <2>5
<1>15. Reads(recs, verify, t, r, t)
  <2>1. \A k \in 1..Len(r) : r[k] # Sep
    BY DEF NoSep
  <2> QED
    BY <1>13, <2>1, ReadsOver DEF MovedTo
<1>16. r \in Seq(LineType)
  BY <1>3, SeqMonotonic
<1>17. Reads(recs, verify, s, a \o r, t)
  BY <1>14, <1>15, <1>16, ReadsJoin
<1> QED
  BY <1>7, <1>13, <1>17

(* One with a certificate is read up to the end of its signature.            *)
LEMMA LedRead ==
  ASSUME NEW recs, NEW verify, NEW p \in Nat, NEW rec, rec.kind \in LedKinds,
         NEW s \in ScanType(recs), s.at = "record"
  PROVE  \E t : /\ ReadSince(recs, s, t, "sig", Line("record", p), Cert(p), SigOf(rec, p))
                /\ rec.runOn => Reads(recs, verify, s, Part(rec, p), t)
                /\ ~rec.runOn => Reads(recs, verify, s, Part(rec, p), EndSig(t, recs, verify))
<1>1. PICK m : /\ Reads(recs, verify, s, Lead(p), m)
               /\ ReadSince(recs, s, m, "sig", Line("record", p), Cert(p), <<>>)
  BY LeadRead
<1>2. PICK g \in Seq(LineType) : g = SigOf(rec, p) /\ \A k \in 1..Len(g) : g[k].is = "sig"
  BY SigOfFacts
<1>3. \A k \in 1..Len(g) : g[k] \notin {Empty, Sep}
  BY <1>2, LineFacts
<1>4. m \in ScanType(recs) /\ m.at = "sig" /\ m.sig = <<>>
  BY <1>1 DEF ReadSince
<1>5. PICK t : Reads(recs, verify, m, g, t) /\ ReadSince(recs, m, t, "sig", m.record, m.cert, g)
  BY <1>3, <1>4, SigRead
<1>6. ReadSince(recs, s, t, "sig", Line("record", p), Cert(p), SigOf(rec, p))
  BY <1>1, <1>2, <1>5 DEF ReadSince
<1>7. /\ Body(rec, p) = (Lead(p) \o g) \o <<Empty>> /\ Front(Body(rec, p)) = Lead(p) \o g
      /\ Lead(p) \in Seq(LineType)
  BY <1>2, LedBody
<1>8. Reads(recs, verify, s, Lead(p) \o g, t) /\ Lead(p) \o g \in Seq(LineType)
  BY <1>1, <1>5, <1>7, ReadsJoin, JoinFacts
<1>9. Empty \in LineType
  BY LineFacts
<1>10. Reads(recs, verify, s, (Lead(p) \o g) \o <<Empty>>, ScanLine(t, recs, verify, Empty))
  BY <1>8, <1>9, ReadsMore
<1>11. ScanLine(t, recs, verify, Empty) = EndSig(t, recs, verify)
  BY <1>6 DEF ScanLine, ReadSince
<1> QED
  BY <1>6, <1>7, <1>8, <1>10, <1>11 DEF Part

(* Where the scan is after announcement p: between two of them, or, when p   *)
(* runs into the next, still in the signature of p.                          *)
Boundary(recs, verify, p, s) ==
  \/ Between(recs, verify, p, s) /\ (s.at = "slop" => ~Lost(recs, p + 1))
  \/ s.at = "sig" /\ Pending(recs, verify, p, s) /\ Lost(recs, p + 1)

(* An announcement that is not found, with the indexes kept.                 *)
LEMMA SkipsTo ==
  ASSUME NEW recs \in Seq(Announcement), NEW verify, NEW p \in DOMAIN recs,
         NEW s \in ScanType(recs), Exact(recs, verify, s, p - 1), p \notin Found(recs),
         NEW place, NEW t, MovedTo(recs, s, t, place),
         IF Over(recs, p) THEN place \in {"ended", "failed"} ELSE place = "slop"
  PROVE  Between(recs, verify, p, t)
<1>1. \A a \in Actions : s.actionIndex[a] \in Seq(DOMAIN recs)
  BY DEF ScanType
<1>2. Exact(recs, verify, t, p)
  BY <1>1, ExactSkips DEF MovedTo
<1> QED
  BY <1>2 DEF Between, MovedTo

LEMMA IndexSame ==
  ASSUME NEW recs, NEW verify, NEW n, NEW s, NEW t, Exact(recs, verify, s, n),
         t.identIndex = s.identIndex, t.actionIndex = s.actionIndex
  PROVE  Exact(recs, verify, t, n)
  BY DEF Exact, IdentExact

(* From a separator on.                                                      *)
LEMMA PartRead ==
  ASSUME NEW recs \in Seq(Announcement), NEW verify \in BOOLEAN, NEW p \in DOMAIN recs,
         NEW s \in ScanType(recs), s.at = "record", Exact(recs, verify, s, p - 1),
         ~Over(recs, p - 1), ~Lost(recs, p)
  PROVE  \E t : Reads(recs, verify, s, Part(recs[p], p), t) /\ Boundary(recs, verify, p, t)
<1> DEFINE rec == recs[p]
<1>1. p \in Nat /\ p \in Nat \ {0} /\ rec.kind \in Kinds /\ rec.runOn \in BOOLEAN
  <2>1. recs[p] \in Announcement
    OBVIOUS
  <2> QED
    BY <2>1 DEF Announcement
<1>2. Over(recs, p) <=> EndsScan(recs, p)
  BY <1>1, OverStep
<1>3. Lost(recs, p + 1) <=> UsesUpSeparator(rec)
  BY <1>1, LostStep
<1>4. CASE rec.kind = "blank"
  <2>1. PICK t : Reads(recs, verify, s, Part(rec, p), t) /\ MovedTo(recs, s, t, "ended")
    BY <1>1, <1>4, BlankRead
  <2>2. p \notin Found(recs) /\ Over(recs, p)
    BY <1>2, <1>4 DEF Found, EndsScan
  <2>3. Between(recs, verify, p, t)
    BY <2>1, <2>2, SkipsTo
  <2> QED
    BY <2>1, <2>3 DEF Boundary, MovedTo
<1>5. CASE rec.kind = "nogap"
  <2>1. PICK t : Reads(recs, verify, s, Part(rec, p), t) /\ MovedTo(recs, s, t, "failed")
    BY <1>1, <1>5, NoGapRead
  <2>2. p \notin Found(recs) /\ Over(recs, p)
    BY <1>2, <1>5 DEF Found, EndsScan
  <2>3. Between(recs, verify, p, t)
    BY <2>1, <2>2, SkipsTo
  <2> QED
    BY <2>1, <2>3 DEF Boundary, MovedTo
<1>6. CASE rec.kind = "nocert"
  <2>1. PICK t : Reads(recs, verify, s, Part(rec, p), t) /\ MovedTo(recs, s, t, "slop")
    BY <1>1, <1>6, NoCertRead
  <2>2. p \notin Found(recs) /\ ~Over(recs, p) /\ ~Lost(recs, p + 1)
    BY <1>2, <1>3, <1>6 DEF Found, EndsScan, UsesUpSeparator
  <2>3. Between(recs, verify, p, t)
    BY <2>1, <2>2, SkipsTo
  <2> QED
    BY <2>1, <2>2, <2>3 DEF Boundary, MovedTo
<1>7. CASE rec.kind \in LedKinds
  <2>1. PICK t : /\ ReadSince(recs, s, t, "sig", Line("record", p), Cert(p), SigOf(rec, p))
                 /\ rec.runOn => Reads(recs, verify, s, Part(rec, p), t)
                 /\ ~rec.runOn => Reads(recs, verify, s, Part(rec, p), EndSig(t, recs, verify))
    BY <1>1, <1>7, LedRead
  <2>2. Exact(recs, verify, t, p - 1)
    BY <2>1, IndexSame DEF ReadSince
  <2>3. Pending(recs, verify, p, t) /\ t.at = "sig"
    BY <1>7, <2>1, <2>2 DEF Pending, ReadSince
  <2>4. Lost(recs, p + 1) <=> rec.runOn
    BY <1>1, <1>3, <1>7 DEF UsesUpSeparator, LedKinds
  <2>5. CASE rec.runOn
    BY <2>1, <2>3, <2>4, <2>5 DEF Boundary
  <2>6. CASE ~rec.runOn
    <3>1. Between(recs, verify, p, EndSig(t, recs, verify))
      BY <2>3, Ending
    <3> QED
      BY <2>1, <2>4, <2>6, <3>1 DEF Boundary
  <2> QED
    BY <2>5, <2>6
<1> QED
  BY <1>1, <1>4, <1>5, <1>6, <1>7 DEF Kinds, LedKinds

(* One announcement.                                                         *)
LEMMA AnnouncementRead ==
  ASSUME NEW recs \in Seq(Announcement), NEW verify \in BOOLEAN, NEW p \in DOMAIN recs,
         NEW s, Boundary(recs, verify, p - 1, s)
  PROVE  \E t : /\ Reads(recs, verify, s, <<Sep>> \o Part(recs[p], p), t)
                /\ Boundary(recs, verify, p, t)
<1>1. p \in Nat /\ p \in Nat \ {0} /\ recs[p].kind \in Kinds /\ (p - 1) + 1 = p
  <2>1. recs[p] \in Announcement
    OBVIOUS
  <2> QED
    BY <2>1 DEF Announcement
<1>2. PICK q \in Seq(NoSep) : q = Part(recs[p], p)
  BY <1>1, BodyNoSep DEF Part
<1>3. q \in Seq(LineType) /\ \A k \in 1..Len(q) : q[k] # Sep
  <2>1. NoSep \subseteq LineType
    BY DEF NoSep
  <2>2. q \in Seq(LineType)
    BY <2>1, SeqMonotonic
  <2>3. \A k \in 1..Len(q) : q[k] # Sep
    BY DEF NoSep
  <2> QED
    BY <2>2, <2>3
<1>4. PICK x \in Seq(LineType) : x = <<Sep>>
  <2>1. <<Sep>> \in Seq(LineType)
    BY LineFacts
  <2> QED
    BY <2>1
<1>5. PICK m : m = ScanLine(s, recs, verify, Sep)
  OBVIOUS
<1>6. Reads(recs, verify, s, x, m)
  BY <1>4, <1>5, ReadsLine
<1>7. ASSUME NEW t, Reads(recs, verify, m, q, t), Boundary(recs, verify, p, t)
      PROVE  \E u : /\ Reads(recs, verify, s, <<Sep>> \o Part(recs[p], p), u)
                    /\ Boundary(recs, verify, p, u)
  <2>1. Reads(recs, verify, s, x \o q, t)
    BY <1>3, <1>6, <1>7, ReadsJoin
  <2> QED
    BY <1>2, <1>4, <1>7, <2>1
<1>8. CASE Between(recs, verify, p - 1, s) /\ s.at \in {"ended", "failed"}
  <2>1. s \in ScanType(recs) /\ Exact(recs, verify, s, p - 1) /\ Over(recs, p - 1)
    BY <1>8 DEF Between
  <2>2. m = s
    BY <1>5, <1>8 DEF ScanLine
  <2>3. Over(recs, p) /\ p \notin Found(recs)
    BY <1>1, <2>1, OverStep
  <2>4. MovedTo(recs, s, s, s.at)
    BY <2>1 DEF MovedTo
  <2>5. Between(recs, verify, p, s)
    BY <1>8, <2>1, <2>3, <2>4, SkipsTo
  <2>6. Reads(recs, verify, m, q, s)
    BY <1>3, <1>8, <2>2, ReadsOver
  <2> QED
    BY <1>7, <1>8, <2>5, <2>6 DEF Boundary
<1>9. CASE Between(recs, verify, p - 1, s) /\ s.at = "slop" /\ ~Lost(recs, p)
  <2>1. s \in ScanType(recs) /\ Exact(recs, verify, s, p - 1) /\ ~Over(recs, p - 1)
    BY <1>9 DEF Between
  <2>2. ReadSince(recs, s, m, "record", s.record, s.cert, s.sig)
    BY <1>5, <1>9, <2>1, AtSeparator
  <2>3. Exact(recs, verify, m, p - 1)
    BY <2>1, <2>2, IndexSame DEF ReadSince
  <2>4. m \in ScanType(recs) /\ m.at = "record"
    BY <2>2 DEF ReadSince
  <2>5. PICK t : Reads(recs, verify, m, Part(recs[p], p), t) /\ Boundary(recs, verify, p, t)
    BY <1>9, <2>1, <2>3, <2>4, PartRead
  <2> QED
    BY <1>2, <1>7, <2>5
<1>10. CASE s.at = "sig" /\ Pending(recs, verify, p - 1, s) /\ Lost(recs, p)
  <2>1. m = EndSig(s, recs, verify)
    BY <1>5, <1>10 DEF ScanLine
  <2>2. Between(recs, verify, p - 1, m)
    BY <1>10, <2>1, Ending
  <2>3. ~EndsScan(recs, p) /\ p \notin Found(recs) /\ ~Lost(recs, p + 1)
    BY <1>1, <1>10, LostStep DEF EndsScan, Found
  <2>4. Over(recs, p) <=> Over(recs, p - 1)
    BY <1>1, <2>3, OverStep
  <2>5. m \in ScanType(recs) /\ Exact(recs, verify, m, p - 1) /\ m.at \in {"ended", "failed", "slop"}
    BY <2>2 DEF Between
  <2>6. Reads(recs, verify, m, q, m)
    BY <1>3, <2>5, ReadsOver
  <2>7. MovedTo(recs, m, m, m.at)
    BY <2>5 DEF MovedTo
  <2>8. IF Over(recs, p) THEN m.at \in {"ended", "failed"} ELSE m.at = "slop"
    BY <2>2, <2>4 DEF Between
  <2>9. Between(recs, verify, p, m)
    BY <2>3, <2>5, <2>7, <2>8, SkipsTo
  <2> QED
    BY <1>7, <2>3, <2>6, <2>9 DEF Boundary
<1>11. \/ Between(recs, verify, p - 1, s) /\ s.at \in {"ended", "failed"}
       \/ Between(recs, verify, p - 1, s) /\ s.at = "slop" /\ ~Lost(recs, p)
       \/ s.at = "sig" /\ Pending(recs, verify, p - 1, s) /\ Lost(recs, p)
  BY <1>1 DEF Boundary, Between
<1> QED
  BY <1>8, <1>9, <1>10, <1>11

(* An empty file.                                                            *)
LEMMA ClearedIsExact ==
  ASSUME NEW recs \in Seq(Announcement), NEW verify
  PROVE  Boundary(recs, verify, 0, Cleared)
<1>1. Cleared \in ScanType(recs)
  BY ClearedIsOK DEF ScanOK
<1>2. /\ Cleared.identIndex = [i \in Idents |-> 0] /\ Cleared.actionIndex = [a \in Actions |-> <<>>]
      /\ Cleared.at = "slop"
  BY DEF Cleared
<1>3. \A i \in Idents : FoundFor(recs, 0, i) = {}
  <2>1. \A q \in Found(recs) : q \in Nat /\ q > 0
    BY DEF Found
  <2> QED
    BY <2>1 DEF FoundFor
<1>4. IdentExact(recs, verify, Cleared, 0)
  BY <1>2, <1>3 DEF IdentExact
<1>5. ASSUME NEW a \in Actions PROVE ListExact(recs, verify, Cleared.actionIndex[a], a, 0)
  <2>1. Cleared.actionIndex[a] = <<>> /\ Len(<<>>) = 0
    BY <1>2
  <2>2. \A q \in DOMAIN recs : ~(q <= 0)
    OBVIOUS
  <2> QED
    BY <2>1, <2>2 DEF ListExact
<1>6. ~Over(recs, 0) /\ ~Lost(recs, 0 + 1)
  BY LostStep DEF Over
<1> QED
  BY <1>1, <1>2, <1>4, <1>5, <1>6 DEF Boundary, Between, Exact

(* Three texts in a row.                                                     *)
LEMMA JoinThree ==
  ASSUME NEW S, NEW a \in Seq(S), NEW b \in Seq(S), NEW c \in Seq(S)
  PROVE  a \o (b \o c) = (a \o b) \o c /\ a \o (b \o c) \in Seq(S)
<1>1. b \o c \in Seq(S)
  BY JoinFacts
<1>2. a \o (b \o c) \in Seq(S)
  BY <1>1, JoinFacts
<1>3. (a \o b) \o c = a \o (b \o c)
  BY ConcatAssociative
<1> QED
  BY <1>2, <1>3

(* DoScan indexes exactly what the announcements of the file say.            *)
LEMMA ScannedExactly ==
  ASSUME NEW recs \in Seq(Announcement), NEW verify \in BOOLEAN
  PROVE  Exact(recs, verify, DoScan(recs, verify), Len(recs))
<1>1. PICK f : /\ f = [p \in 0..Len(recs) |-> IF p = 0 THEN <<>> ELSE AddLines(f[p - 1], recs, p)]
               /\ Text(recs) = f[Len(recs)]
  BY TextSteps
<1>2. PICK l \in Nat : l = Len(recs) /\ DOMAIN recs = 1..l
  OBVIOUS
<1> DEFINE Done(n) == f[n] \in Seq(LineType) /\ \E s : Reads(recs, verify, Cleared, f[n], s) /\ Boundary(recs, verify, n, s)
           T == {n \in Nat : n <= l => Done(n)}
<1>3. 0 \in T
  <2>1. f[0] = <<>>
    BY <1>1, <1>2
  <2>2. <<>> \in Seq(LineType)
    OBVIOUS
  <2>3. Reads(recs, verify, Cleared, <<>>, Cleared)
    BY ReadsNothing
  <2>4. Boundary(recs, verify, 0, Cleared)
    BY ClearedIsExact
  <2> QED
    BY <2>1, <2>2, <2>3, <2>4
<1>4. ASSUME NEW n \in Nat, n \in T PROVE n + 1 \in T
  <2> SUFFICES ASSUME n + 1 <= l PROVE Done(n + 1)
    OBVIOUS
  <2>1. n <= l /\ n + 1 \in 1..l /\ (n + 1) - 1 = n /\ n + 1 \in DOMAIN recs /\ n + 1 # 0 /\ n + 1 \in 0..Len(recs)
    BY <1>2
  <2>2. PICK p \in DOMAIN recs : p = n + 1 /\ p - 1 = n
    BY <2>1
  <2>3. f[p] = AddLines(f[n], recs, p)
    BY <1>1, <2>1, <2>2
  <2>4. f[n] \in Seq(LineType)
    BY <1>4, <2>1
  <2>5. PICK s : Reads(recs, verify, Cleared, f[n], s) /\ Boundary(recs, verify, n, s)
    BY <1>4, <2>1
  <2>6. PICK t : /\ Reads(recs, verify, s, <<Sep>> \o Part(recs[p], p), t)
                 /\ Boundary(recs, verify, p, t)
    BY <2>2, <2>5, AnnouncementRead
  <2>7. Part(recs[p], p) \in Seq(LineType) /\ <<Sep>> \in Seq(LineType)
    <3>1. recs[p] \in Announcement /\ p \in Nat
      OBVIOUS
    <3>2. recs[p].kind \in Kinds
      BY <3>1 DEF Announcement
    <3>3. Part(recs[p], p) \in Seq(NoSep)
      BY <3>1, <3>2, BodyNoSep DEF Part
    <3>4. NoSep \subseteq LineType
      BY DEF NoSep
    <3>5. Part(recs[p], p) \in Seq(LineType)
      BY <3>3, <3>4, SeqMonotonic
    <3> QED
      BY <3>5, LineFacts
  <2>8. PICK a \in Seq(LineType), b \in Seq(LineType), c \in Seq(LineType) :
          a = f[n] /\ b = <<Sep>> /\ c = Part(recs[p], p)
    BY <2>4, <2>7
  <2>9. b \o c \in Seq(LineType) /\ a \o b \in Seq(LineType)
    BY JoinFacts
  <2>10. a \o (b \o c) = (a \o b) \o c /\ a \o (b \o c) \in Seq(LineType)
    BY JoinThree
  <2>11. f[p] = (a \o b) \o c
    BY <2>3, <2>8 DEF AddLines, Part
  <2>12. Reads(recs, verify, Cleared, a \o (b \o c), t)
    BY <2>5, <2>6, <2>8, <2>9, ReadsJoin
  <2>13. Done(p)
    BY <2>6, <2>10, <2>11, <2>12
  <2> HIDE DEF Done
  <2> QED
    BY <2>2, <2>13
<1>5. Done(l)
  <2> HIDE DEF T
  <2>1. Nat \subseteq T
    BY <1>3, <1>4, SetInduction
  <2>2. l \in T /\ l <= l
    BY <2>1
  <2> HIDE DEF Done
  <2> QED
    BY <2>2 DEF T
<1>6. PICK s : Reads(recs, verify, Cleared, Text(recs), s) /\ Boundary(recs, verify, l, s)
  BY <1>1, <1>2, <1>5
<1>7. PICK lines \in Seq(LineType) : lines = Text(recs)
  BY <1>1, <1>2, <1>5
<1> DEFINE Steps(g) == g = [n \in 0..Len(lines) |->
                              IF n = 0 THEN Cleared ELSE ScanLine(g[n - 1], recs, verify, lines[n])]
           scan == CHOOSE g : Steps(g)
           last == scan[Len(lines)]
<1>8. DoScan(recs, verify) = IF last.at = "sig" THEN EndSig(last, recs, verify) ELSE last
  BY <1>7 DEF DoScan
<1>9. Steps(scan)
  <2>1. Len(lines) \in Nat
    OBVIOUS
  <2> QED
    BY <2>1, ScanSteps
<1> HIDE DEF scan
<1>10. Reads(recs, verify, Cleared, lines, last)
  BY <1>9 DEF Reads, StepsOn
<1> HIDE DEF last
<1>11. last = s
  BY <1>6, <1>7, <1>10, ReadsUnique
<1>12. CASE Between(recs, verify, l, s)
  <2>1. s.at # "sig" /\ Exact(recs, verify, s, l)
    BY <1>12 DEF Between
  <2> QED
    BY <1>2, <1>8, <1>11, <2>1
<1>13. CASE s.at = "sig" /\ Pending(recs, verify, l, s)
  <2>1. Between(recs, verify, l, EndSig(s, recs, verify))
    BY <1>13, Ending
  <2> QED
    BY <1>2, <1>8, <1>11, <1>13, <2>1 DEF Between
<1> QED
  BY <1>6, <1>12, <1>13 DEF Boundary

(* The indexes of a cache are those of the reference definition: by ident    *)
(* the last announcement of each service that is found, when it is accepted, *)
(* and for each action every accepted announcement as often as it names the  *)
(* action, in the order of the file.                                         *)
ExactIndexes(recs, verify, cache) ==
  /\ \A i \in Idents : cache.identIndex[i] = ByIdent(recs, verify, i)
  /\ \A a \in Actions : \A p \in DOMAIN recs :
       Cardinality({k \in DOMAIN cache.actionIndex[a] : cache.actionIndex[a][k] = p})
         = ByAction(recs, verify, a, p)
  /\ \A a \in Actions : \A j, k \in DOMAIN cache.actionIndex[a] :
       j < k => cache.actionIndex[a][j] <= cache.actionIndex[a][k]

(* DoScan, reading a file line by line, leaves exactly the indexes that the  *)
(* reference definition gives for the whole file: for files of any length    *)
(* and announcements of every kind, with and without record verification,    *)
(* nothing of a file is lost, kept from an earlier announcement of the same  *)
(* service, stored twice or put out of order, but for what an announcement   *)
(* cut short makes the scanner take for part of another one.                 *)
THEOREM ScanIsExact ==
  ASSUME NEW recs \in Seq(Announcement), NEW verify \in BOOLEAN
  PROVE  ExactIndexes(recs, verify, DoScan(recs, verify))
<1> DEFINE cache == DoScan(recs, verify)
<1>1. Exact(recs, verify, cache, Len(recs))
  BY ScannedExactly
<1>2. cache \in ScanType(recs)
  BY ScanIsSound
<1> HIDE DEF cache
<1>3. Found(recs) \subseteq DOMAIN recs /\ DOMAIN recs = 1..Len(recs) /\ Len(recs) \in Nat
  BY DEF Found
<1>4. ASSUME NEW i \in Idents PROVE cache.identIndex[i] = ByIdent(recs, verify, i)
  <2> DEFINE mine == {p \in Found(recs) : recs[p].ident = i}
             final == {p \in mine : \A q \in mine : q <= p} \cap Accepted(recs, verify)
  <2>1. FoundFor(recs, Len(recs), i) = mine
    <3>1. \A q \in Found(recs) : q <= Len(recs)
      BY <1>3
    <3> QED
      BY <3>1 DEF FoundFor
  <2>2. mine \subseteq Nat
    BY <1>3
  <2>3. ByIdent(recs, verify, i) = IF final = {} THEN 0 ELSE CHOOSE p \in final : TRUE
    BY DEF ByIdent
  <2> HIDE DEF mine
  <2>4. CASE /\ cache.identIndex[i] = 0
             /\ \A q \in mine : q \notin Accepted(recs, verify) \/ \E r \in mine : r > q
    <3>1. final = {}
      <4>1. ASSUME NEW q \in mine, NEW r \in mine, r > q PROVE ~(r <= q)
        BY <2>2, <4>1
      <4> QED
        BY <2>4, <4>1
    <3> HIDE DEF final
    <3> QED
      BY <2>3, <2>4, <3>1
  <2>5. CASE /\ cache.identIndex[i] \in mine \cap Accepted(recs, verify)
             /\ \A q \in mine : q <= cache.identIndex[i]
    <3>1. PICK w \in mine : w = cache.identIndex[i]
      BY <2>5
    <3>2. \A q \in mine : q <= w /\ (w <= q => q = w)
      BY <2>2, <2>5, <3>1
    <3>3. final = {w}
      BY <2>5, <3>1, <3>2
    <3> HIDE DEF final
    <3>4. ByIdent(recs, verify, i) = w
      BY <2>3, <3>3
    <3> QED
      BY <3>1, <3>4
  <2> QED
    BY <1>1, <2>1, <2>4, <2>5 DEF Exact, IdentExact
<1>5. ASSUME NEW a \in Actions
      PROVE  /\ \A p \in DOMAIN recs :
                  Cardinality({k \in DOMAIN cache.actionIndex[a] : cache.actionIndex[a][k] = p})
                    = ByAction(recs, verify, a, p)
             /\ \A j, k \in DOMAIN cache.actionIndex[a] :
                  j < k => cache.actionIndex[a][j] <= cache.actionIndex[a][k]
  <2>1. cache.actionIndex[a] \in Seq(DOMAIN recs)
    BY <1>2 DEF ScanType
  <2>2. PICK s \in Seq(DOMAIN recs) : s = cache.actionIndex[a] /\ DOMAIN s = 1..Len(s)
    BY <2>1
  <2>3. ListExact(recs, verify, s, a, Len(recs))
    BY <1>1, <2>2 DEF Exact
  <2>4. \A p \in DOMAIN recs : p <= Len(recs)
    BY <1>3
  <2>5. \A p \in DOMAIN recs : Occurs(s, p) = ByAction(recs, verify, a, p)
    BY <2>3, <2>4 DEF ListExact
  <2> QED
    BY <2>2, <2>3, <2>5 DEF ListExact, Occurs
<1>6. ExactIndexes(recs, verify, cache)
  BY <1>4, <1>5 DEF ExactIndexes
<1> QED
  BY <1>6 DEF cache

=============================================================================
