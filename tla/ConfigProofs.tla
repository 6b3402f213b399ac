---------------------------- MODULE ConfigProofs ----------------------------
(***************************************************************************)
(* Proofs about module Config, for any files, any buffer sizes and any      *)
(* number of calls: ConfigTypeOK and SmallFilesAreKept.                     *)
(*                                                                          *)
(* The argument.  Every value is a place in an array, inside the part that  *)
(* was written, and no step makes that part smaller (Shape): this gives the *)
(* type invariant.  During a Load the text is in three parts, the lines     *)
(* handed out, what is pending in the buffer and what was not read yet      *)
(* (Aligned), and the keys set are those of the lines handed out and those  *)
(* set before (SetSoFar).  A file that fits into the first buffer and ends  *)
(* in a newline is read in one piece, before any line is handed out, and    *)
(* every line ends in the buffer; the only further read finds the end of    *)
(* the file.  So the text stays where it was read (Unmoved), and a value    *)
(* that doLoad kept as a slice of the buffer is the text of its line        *)
(* (FromLine) until the Load ends, and afterwards as the array belongs to   *)
(* no other Load.  Between calls this leaves what the last line, or Set,    *)
(* that names a key said (Between).                                         *)
(***************************************************************************)
EXTENDS Config, WellFoundedInduction, FiniteSetTheorems, SequenceTheorems, TLAPS

-----------------------------------------------------------------------------
(* The invariant *)

(* What a file is made of, what an array may hold, and the types of a value  *)
(* and of the scanner.                                                       *)
Chars == Keys \cup Symbols \cup {Newline, Space}
Cells == Chars \cup {Unused}
Place == [array : Nat, first : Nat \ {0}, len : Nat]
Scanners == [array : Nat, start : Nat, end : Nat, rest : Seq(Chars), eof : BOOLEAN]

(* A value stands inside an array, where text was read.                      *)
Inside(mem, v) ==
  /\ v \in Place
  /\ v.array \in 1..Len(mem)
  /\ v.first + v.len - 1 <= Len(mem[v.array])
  /\ \A k \in v.first..(v.first + v.len - 1) : mem[v.array][k] # Unused

(* The scanner stays inside its buffer, of which 1..end was read at some     *)
(* time.                                                                     *)
InBuffer(buf, sc) ==
  /\ Len(buf) \in 1..MaxTokenSize
  /\ sc.start <= sc.end /\ sc.end <= Len(buf)
  /\ \A k \in 1..sc.end : buf[k] # Unused

(* The inductive invariant behind ConfigTypeOK.                              *)
Shape ==
  /\ memory \in Seq(Seq(Cells)) /\ scanner \in Scanners
  /\ small \in BOOLEAN /\ calls \in 0..MaxCalls
  /\ DOMAIN values \subseteq Keys
  /\ \A key \in DOMAIN values : Inside(memory, values[key])
  /\ scanner.array \in 0..Len(memory)
  /\ Loading => InBuffer(Buf, scanner)

(* Of the text of a Load, pos symbols were handed out as lines; what is      *)
(* pending in the buffer comes next, then what was not read yet.  At the end *)
(* of the file the buffer has room left.                                     *)
Aligned(buf, sc, text, pos) ==
  /\ pos + (sc.end - sc.start) + Len(sc.rest) = Len(text)
  /\ \A k \in 1..(sc.end - sc.start) : buf[sc.start + k] = text[pos + k]
  /\ \A k \in 1..Len(sc.rest) : sc.rest[k] = text[pos + (sc.end - sc.start) + k]
  /\ sc.eof => sc.rest = <<>> /\ sc.end < Len(buf)

(* pos is the end of a line, and no line before it was too long.             *)
LineEnd(text, pos) ==
  /\ pos = 0 \/ pos = Len(text) \/ text[pos] = Newline
  /\ \A j \in Starts(text) : j <= pos => Len(LineAt(text, j)) < MaxTokenSize

(* Some line before pos sets the key.                                        *)
SetBy(text, pos, key) == \E k \in LinesOf(text, key) : k <= pos

(* What a Load of text should leave of the settings old.                     *)
Override(old, text) ==
  [key \in DOMAIN old \cup DOMAIN Says(text) |->
     IF key \in DOMAIN Says(text) THEN Says(text)[key] ELSE old[key]]

(* The keys set: those before the Load, and those of the lines handed out.   *)
SetSoFar(text, old, pos) ==
  \A key \in Keys : key \in DOMAIN values <=> key \in DOMAIN old \/ SetBy(text, pos, key)

(* A small text is read in one piece: either nothing was read yet, or all of *)
(* it stands at the beginning of the buffer.  It never moves: the shift      *)
(* before the last read finds nothing pending.                               *)
Unmoved(buf, sc, text, pos) ==
  /\ Len(text) <= Len(buf) /\ (text = <<>> \/ text[Len(text)] = Newline)
  /\ \/ pos = 0 /\ sc.start = 0 /\ sc.end = 0 /\ sc.rest = text
     \/ /\ sc.rest = <<>>
        /\ \A k \in 1..Len(text) : buf[k] = text[k]
        /\ (sc.end = Len(text) /\ sc.start = pos) \/ (sc.start = 0 /\ sc.end = 0 /\ pos = Len(text))

(* The value of key is where the last line before pos that sets it was read. *)
FromLine(text, pos, key, k) ==
  /\ k \in LinesOf(text, key) /\ k <= pos
  /\ \A j \in LinesOf(text, key) : j <= pos => j <= k
  /\ values[key] = [array |-> scanner.array, first |-> k + 1, len |-> ValueLen(LineAt(text, k))]

(* No line before pos sets key, whose value is in an older array, and as it  *)
(* was.                                                                      *)
FromBefore(text, old, pos, key) ==
  /\ ~SetBy(text, pos, key)
  /\ values[key].array # scanner.array
  /\ Deref(values[key]) = old[key]

(* Of a small file: where the values are.                                    *)
KeptSoFar(text, old, pos) ==
  /\ Unmoved(Buf, scanner, text, pos)
  /\ \A key \in DOMAIN values :
       FromBefore(text, old, pos, key) \/ \E k \in DOMAIN text : FromLine(text, pos, key, k)

(* The inductive invariant behind SmallFilesAreKept: while the file text is  *)
(* loaded over the settings old, pos symbols of it handed out.               *)
Busy(text, old, pos) ==
  /\ text \in Texts /\ DOMAIN old \subseteq Keys /\ pos \in Nat
  /\ written = Override(old, text)
  /\ Aligned(Buf, scanner, text, pos)
  /\ LineEnd(text, pos)
  /\ SetSoFar(text, old, pos)
  /\ small => KeptSoFar(text, old, pos)

(* Between calls.                                                            *)
Between ==
  /\ DOMAIN values = DOMAIN written
  /\ small => \A key \in DOMAIN values : Deref(values[key]) = written[key]

-----------------------------------------------------------------------------
(* Numbers and sequences *)

(* A set of natural numbers has a least one.                                 *)
LEMMA LeastNumber ==
  ASSUME NEW S \in SUBSET Nat, S # {}
  PROVE  \E m \in S : \A k \in S : m <= k
<1> DEFINE Less == {mn \in Nat \X Nat : mn[1] < mn[2]}
<1>1. IsWellFoundedOn(Less, Nat)
  BY NatLessThanWellFounded DEF OpToRel
<1>2. \E m \in S : \A k \in S : ~(<<k, m>> \in Less)
  <2> HIDE DEF Less
  <2> QED
    BY <1>1, WFMin
<1>3. PICK m \in S : \A k \in S : ~(k < m)
  BY <1>2
<1>4. \A k \in S : m <= k
  BY <1>3
<1> QED
  BY <1>4

(* A slice of a sequence: what comes after the first m elements of it.       *)
IsSlice(t, s, m, n) ==
  Len(t) = n - m /\ n - m \in Nat /\ \A i \in 1..(n - m) : t[i] = s[m + i]

(* SubSeq makes a slice.                                                     *)
LEMMA Slice ==
  ASSUME NEW S, NEW s \in Seq(S), NEW m \in Nat, NEW n \in Nat, m <= n, n <= Len(s)
  PROVE  SubSeq(s, m + 1, n) \in Seq(S) /\ IsSlice(SubSeq(s, m + 1, n), s, m, n)
<1>1. PICK a \in Int, b \in Int : a = m + 1 /\ b = n
  OBVIOUS
<1>2. \A i \in a..b : s[i] \in S
  BY <1>1
<1>3. /\ SubSeq(s, a, b) \in Seq(S)
      /\ Len(SubSeq(s, a, b)) = IF a <= b THEN b - a + 1 ELSE 0
      /\ \A i \in 1..(b - a + 1) : SubSeq(s, a, b)[i] = s[a + i - 1]
  BY <1>2, SubSeqProperties
<1>4. (IF a <= b THEN b - a + 1 ELSE 0) = n - m /\ n - m \in Nat /\ b - a + 1 = n - m
  BY <1>1
<1>5. \A i \in 1..(n - m) : a + i - 1 = m + i
  BY <1>1
<1>6. \A i \in 1..(n - m) : SubSeq(s, a, b)[i] = s[m + i]
  BY <1>3, <1>4, <1>5
<1> QED
  BY <1>1, <1>3, <1>4, <1>6 DEF IsSlice

(* Two sequences one after the other.                                        *)
IsJoin(u, s, m, t, n) ==
  /\ Len(u) = m + n
  /\ \A i \in 1..(m + n) : (i <= m => u[i] = s[i]) /\ (i > m => u[i] = t[i - m])

(* Concatenation joins two sequences.                                        *)
LEMMA Joined ==
  ASSUME NEW S, NEW s \in Seq(S), NEW t \in Seq(S), NEW m \in Nat, NEW n \in Nat,
         m = Len(s), n = Len(t)
  PROVE  s \o t \in Seq(S) /\ IsJoin(s \o t, s, m, t, n)
<1>1. /\ s \o t \in Seq(S) /\ Len(s \o t) = Len(s) + Len(t)
      /\ \A i \in 1..(Len(s) + Len(t)) : (s \o t)[i] = IF i <= Len(s) THEN s[i] ELSE t[i - Len(s)]
  BY ConcatProperties
<1>2. \A i \in 1..(m + n) : (i <= m => (s \o t)[i] = s[i]) /\ (i > m => (s \o t)[i] = t[i - m])
  <2>1. \A i \in 1..(m + n) : i > m => ~(i <= m)
    OBVIOUS
  <2> QED
    BY <1>1, <2>1
<1> QED
  BY <1>1, <1>2 DEF IsJoin

(* Sequences that agree at every position.                                   *)
LEMMA SameSequence ==
  ASSUME NEW S, NEW T, NEW s \in Seq(S), NEW t \in Seq(T), Len(s) = Len(t),
         \A i \in 1..Len(s) : s[i] = t[i]
  PROVE  s = t
<1>1. Seq(S) \subseteq Seq(S \cup T) /\ Seq(T) \subseteq Seq(S \cup T)
  BY SeqMonotonic
<1>2. PICK a \in Seq(S \cup T), b \in Seq(S \cup T) : a = s /\ b = t
  BY <1>1
<1>3. a = b
  BY <1>2, SeqEqual
<1> QED
  BY <1>2, <1>3

(* A new element at the end.                                                 *)
IsAppend(new, s, n, x) ==
  Len(new) = n + 1 /\ new[n + 1] = x /\ \A i \in 1..n : new[i] = s[i]

(* Append adds one element and keeps the others.                             *)
LEMMA Appended ==
  ASSUME NEW S, NEW s \in Seq(S), NEW x \in S, NEW n \in Nat, n = Len(s)
  PROVE  Append(s, x) \in Seq(S) /\ IsAppend(Append(s, x), s, n, x)
  BY AppendProperties DEF IsAppend

-----------------------------------------------------------------------------
(* The lines of a text *)

(* The texts of files hold no unused memory.                                 *)
LEMMA TextTypes ==
  /\ Texts \subseteq Seq(Chars) /\ Chars \subseteq Cells
  /\ Unused \notin Chars
  BY TextsAssumption DEF Chars, Cells, Newline, Space, Unused

(* The value of a line that matches ends inside the line.                    *)
LEMMA ValueFits ==
  ASSUME NEW S, NEW line \in Seq(S), Len(line) >= 1
  PROVE  ValueLen(line) \in Nat /\ ValueLen(line) + 1 <= Len(line)
<1> DEFINE V == {k \in 2..Len(line) : \A j \in 2..k : line[j] # Space}
<1>1. PICK n \in Nat : n = Len(line) /\ n >= 1
  OBVIOUS
<1>2. V \subseteq 2..n
  BY <1>1
<1>3. IsFiniteSet(2..n) /\ Cardinality(2..n) = n - 1
  <2>1. 2 \in Int /\ n \in Int
    OBVIOUS
  <2>2. IsFiniteSet(2..n) /\ Cardinality(2..n) = IF 2 > n THEN 0 ELSE n - 2 + 1
    BY <2>1, FS_Interval
  <2>3. (IF 2 > n THEN 0 ELSE n - 2 + 1) = n - 1
    BY <1>1
  <2> QED
    BY <2>2, <2>3
<1>4. IsFiniteSet(V) /\ Cardinality(V) <= n - 1 /\ Cardinality(V) \in Nat
  <2>1. IsFiniteSet(V) /\ Cardinality(V) <= Cardinality(2..n)
    BY <1>2, <1>3, FS_Subset
  <2>2. Cardinality(V) \in Nat
    BY <2>1, FS_CardinalityType
  <2> QED
    BY <1>3, <2>1, <2>2
<1>5. ValueLen(line) = Cardinality(V)
  BY DEF ValueLen
<1> HIDE DEF V
<1> QED
  BY <1>1, <1>4, <1>5

(* After pos comes a line of len symbols, and adv with its newline, if any.  *)
ComesNext(text, pos, len, adv) ==
  /\ adv >= 1 /\ pos + adv <= Len(text)
  /\ \A k \in 1..len : text[pos + k] # Newline
  /\ \/ adv = len + 1 /\ text[pos + adv] = Newline
     \/ adv = len /\ pos + adv = Len(text)

(* The line at k consists of the len symbols after pos.                      *)
LineIs(text, k, pos, len) ==
  /\ LineAt(text, k) \in Seq(Chars) /\ Len(LineAt(text, k)) = len
  /\ \A i \in 1..len : LineAt(text, k)[i] = text[pos + i]

(* Where the next line starts, what it is, and where the one after it does.  *)
LEMMA NextLine ==
  ASSUME NEW text \in Seq(Chars), NEW pos \in Nat, LineEnd(text, pos),
         NEW len \in Nat, NEW adv \in Nat, ComesNext(text, pos, len, adv)
  PROVE  /\ pos + 1 \in Starts(text)
         /\ \A j \in Starts(text) : j <= pos \/ j = pos + 1 \/ j > pos + adv
         /\ LineIs(text, pos + 1, pos, len)
<1> USE DEF ComesNext
<1> DEFINE ends == {j \in Newlines(text) : j >= pos + 1}
<1>1. PICK size \in Nat : size = Len(text) /\ DOMAIN text = 1..size
  OBVIOUS
<1>2. pos + 1 \in DOMAIN text /\ pos < Len(text)
  BY <1>1
<1>3. pos + 1 \in Starts(text)
  <2>1. CASE pos = 0
    BY <1>2, <2>1 DEF Starts
  <2>2. CASE pos # 0
    <3>1. text[pos] = Newline /\ pos \in DOMAIN text
      BY <1>1, <1>2, <2>2 DEF LineEnd
    <3>2. (pos + 1) - 1 = pos
      OBVIOUS
    <3> QED
      BY <1>2, <3>1, <3>2 DEF Starts, Newlines
  <2> QED
    BY <2>1, <2>2
<1>4. ASSUME NEW j \in Starts(text), j > pos + 1, j <= pos + adv PROVE FALSE
  <2>0. j \in 1..size
    BY <1>1 DEF Starts
  <2>1. j \in Nat /\ (j - 1) \in DOMAIN text /\ text[j - 1] = Newline
    BY <1>1, <1>4, <2>0 DEF Starts, Newlines
  <2>2. PICK k \in Nat : j - 1 = pos + k /\ k >= 1 /\ k < adv
    <3>1. j - 1 - pos \in Nat /\ j - 1 = pos + (j - 1 - pos) /\ j - 1 - pos >= 1 /\ j - 1 - pos < adv
      BY <1>4, <2>1
    <3> QED
      BY <3>1
  <2>3. k \in 1..len
    BY <2>2
  <2> QED
    BY <2>1, <2>2, <2>3
<1>5. \A j \in Starts(text) : j <= pos \/ j = pos + 1 \/ j > pos + adv
  <2>1. \A j \in Starts(text) : j \in Nat
    BY <1>1 DEF Starts
  <2>2. ASSUME NEW j \in Starts(text) PROVE j <= pos \/ j = pos + 1 \/ (j > pos + 1 /\ j <= pos + adv) \/ j > pos + adv
    BY <2>1
  <2> QED
    BY <1>4, <2>2
<1>6. LineAt(text, pos + 1) = SubSeq(text, pos + 1, pos + len)
  <2>1. CASE adv = len + 1 /\ text[pos + adv] = Newline
    <3>1. pos + adv \in ends
      BY <1>1, <2>1 DEF Newlines
    <3>2. ASSUME NEW i \in ends PROVE pos + adv <= i
      <4>1. i \in Nat /\ i >= pos + 1 /\ text[i] = Newline
        BY <1>1 DEF Newlines
      <4>2. CASE i < pos + adv
        <5>1. i - pos \in 1..len /\ pos + (i - pos) = i
          BY <2>1, <4>1, <4>2
        <5> QED
          BY <4>1, <5>1
      <4> QED
        BY <4>1, <4>2
    <3>3. ends \subseteq Nat
      BY <1>1 DEF Newlines
    <3>4. PICK e \in ends : e = pos + adv
      BY <3>1
    <3>5. LineAt(text, pos + 1) = IF ends = {} THEN SubSeq(text, pos + 1, Len(text))
             ELSE SubSeq(text, pos + 1, (CHOOSE j \in ends : \A i \in ends : j <= i) - 1)
      BY DEF LineAt
    <3> HIDE DEF ends
    <3>6. \A j \in ends : (\A i \in ends : j <= i) => j = e
      BY <3>2, <3>3, <3>4
    <3>7. (CHOOSE j \in ends : \A i \in ends : j <= i) = e
      BY <3>2, <3>4, <3>6
    <3>8. e - 1 = pos + len
      BY <2>1, <3>4
    <3> QED
      BY <3>4, <3>5, <3>7, <3>8
  <2>2. CASE adv = len /\ pos + adv = Len(text)
    <3>1. ASSUME NEW i \in ends PROVE FALSE
      <4>1. i \in Nat /\ i >= pos + 1 /\ i <= Len(text) /\ text[i] = Newline
        BY <1>1 DEF Newlines
      <4>2. i - pos \in 1..len /\ pos + (i - pos) = i
        BY <2>2, <4>1
      <4> QED
        BY <4>1, <4>2
    <3>2. ends = {}
      BY <3>1
    <3>3. LineAt(text, pos + 1) = SubSeq(text, pos + 1, Len(text))
      BY <3>2 DEF LineAt
    <3> QED
      BY <2>2, <3>3
  <2> QED
    BY <2>1, <2>2
<1>7. PICK b \in Nat : b = pos + len /\ pos <= b /\ b <= Len(text) /\ b - pos = len
  BY <1>1
<1>8. SubSeq(text, pos + 1, b) \in Seq(Chars) /\ IsSlice(SubSeq(text, pos + 1, b), text, pos, b)
  BY <1>7, Slice
<1> QED
  BY <1>3, <1>5, <1>6, <1>7, <1>8 DEF IsSlice, LineIs

-----------------------------------------------------------------------------
(* The scanner *)

(* The types of the buffer and the scanner while a Load is in progress.      *)
LEMMA BufferTypes ==
  ASSUME Shape, Loading
  PROVE  /\ Buf \in Seq(Cells) /\ Len(Buf) \in Nat /\ Len(Buf) >= 1 /\ Len(Buf) <= MaxTokenSize
         /\ scanner.start \in Nat /\ scanner.end \in Nat
         /\ scanner.start <= scanner.end /\ scanner.end <= Len(Buf)
         /\ scanner.rest \in Seq(Chars) /\ scanner.eof \in BOOLEAN
         /\ scanner.array \in 1..Len(memory) /\ scanner.array \in Nat \ {0}
<1>1. scanner.array \in Nat /\ scanner.array # 0 /\ scanner.array \in 0..Len(memory)
  BY DEF Shape, Scanners, Loading
<1>2. memory \in Seq(Seq(Cells)) /\ Len(memory) \in Nat
  BY DEF Shape
<1>3. scanner.array \in 1..Len(memory)
  BY <1>1, <1>2
<1>4. Buf \in Seq(Cells) /\ Len(Buf) \in Nat
  <2>1. memory[scanner.array] \in Seq(Cells)
    BY <1>2, <1>3, ElementOfSeq
  <2> QED
    BY <2>1 DEF Buf
<1>5. InBuffer(Buf, scanner)
  BY DEF Shape
<1>6. Len(Buf) >= 1 /\ Len(Buf) <= MaxTokenSize
  BY <1>4, <1>5, BufferAssumption DEF InBuffer
<1>7. /\ scanner.start \in Nat /\ scanner.end \in Nat /\ scanner.rest \in Seq(Chars) /\ scanner.eof \in BOOLEAN
  BY DEF Shape, Scanners
<1> QED
  BY <1>1, <1>3, <1>4, <1>5, <1>6, <1>7 DEF InBuffer

(* What was read and not handed out yet.                                     *)
LEMMA PendingFacts ==
  ASSUME Shape, Loading
  PROVE  /\ Pending \in Seq(Cells) /\ Len(Pending) = scanner.end - scanner.start
         /\ Len(Pending) \in Nat
         /\ \A i \in 1..Len(Pending) : Pending[i] = Buf[scanner.start + i]
<1>1. PICK buf \in Seq(Cells), st \in Nat, en \in Nat :
        buf = Buf /\ st = scanner.start /\ en = scanner.end /\ st <= en /\ en <= Len(buf)
  BY BufferTypes
<1>2. SubSeq(buf, st + 1, en) \in Seq(Cells) /\ IsSlice(SubSeq(buf, st + 1, en), buf, st, en)
  BY <1>1, Slice
<1>3. Pending = SubSeq(buf, st + 1, en)
  BY <1>1 DEF Pending
<1> QED
  BY <1>1, <1>2, <1>3 DEF IsSlice

(* The first newline that is pending.                                        *)
LEMMA FirstNewline ==
  ASSUME NEW s \in Seq(Cells), Contains(s, Newline)
  PROVE  LET i == SelectInSeq(s, IsNewline)
         IN  i \in 1..Len(s) /\ s[i] = Newline /\ \A k \in 1..(i - 1) : s[k] # Newline
<1> DEFINE I == {i \in 1..Len(s) : s[i] = Newline}
<1>1. I \in SUBSET Nat /\ I # {}
  BY DEF Contains
<1>2. SelectInSeq(s, IsNewline) = CHOOSE x \in I : \A y \in I : x <= y
  BY <1>1 DEF SelectInSeq, IsNewline, Min
<1>3. PICK i : i = SelectInSeq(s, IsNewline) /\ i \in I /\ \A y \in I : i <= y
  <2> HIDE DEF I
  <2> QED
    BY <1>1, <1>2, LeastNumber
<1>4. PICK n \in Nat : n = Len(s)
  OBVIOUS
<1>5. i \in 1..n /\ s[i] = Newline
  BY <1>3, <1>4
<1>6. ASSUME NEW k \in 1..(i - 1) PROVE s[k] # Newline
  <2>1. k \in 1..n /\ ~(i <= k)
    BY <1>5
  <2> QED
    BY <1>3, <1>4, <2>1
<1> HIDE DEF I
<1> QED
  BY <1>3, <1>4, <1>5, <1>6

(* The next line: what stands in the buffer up to the next newline, or to    *)
(* its end at the end of the file.                                           *)
LEMMA TokenFacts ==
  ASSUME Shape, Loading, HasToken
  PROVE  /\ Token \in Seq(Cells) /\ Len(Token) \in Nat
         /\ Advance \in Nat /\ Advance >= 1 /\ scanner.start + Advance <= scanner.end
         /\ Len(Token) <= Advance
         /\ \A k \in 1..Len(Token) :
              Token[k] = Buf[scanner.start + k] /\ Buf[scanner.start + k] # Newline
         /\ \/ Advance = Len(Token) + 1 /\ Buf[scanner.start + Advance] = Newline
            \/ /\ Advance = Len(Token) /\ scanner.start + Advance = scanner.end
               /\ scanner.eof
<1>1. PICK buf \in Seq(Cells), st \in Nat, en \in Nat :
        buf = Buf /\ st = scanner.start /\ en = scanner.end /\ st <= en /\ en <= Len(buf)
  BY BufferTypes
<1>2. PICK p \in Seq(Cells), n \in Nat :
        /\ p = Pending /\ n = Len(p) /\ n = en - st /\ \A i \in 1..n : p[i] = buf[st + i]
  BY <1>1, PendingFacts
<1>3. CASE Contains(p, Newline)
  <2>1. PICK i \in 1..n : i = SelectInSeq(p, IsNewline) /\ p[i] = Newline /\ \A k \in 1..(i - 1) : p[k] # Newline
    BY <1>2, <1>3, FirstNewline
  <2>2. PICK len \in Nat : len = i - 1 /\ len <= Len(p)
    <3>1. i - 1 \in Nat /\ i - 1 <= n
      OBVIOUS
    <3> QED
      BY <1>2, <3>1
  <2>3. Token = SubSeq(p, 1, len)
    BY <1>2, <1>3, <2>1, <2>2 DEF Token
  <2>4. SubSeq(p, 0 + 1, len) \in Seq(Cells) /\ IsSlice(SubSeq(p, 0 + 1, len), p, 0, len)
    <3>1. 0 \in Nat /\ 0 <= len
      BY <2>2
    <3> QED
      BY <2>2, <3>1, Slice
  <2>5. Token \in Seq(Cells) /\ Len(Token) = len /\ \A k \in 1..len : Token[k] = p[k]
    <3>1. 0 + 1 = 1 /\ len - 0 = len /\ \A k \in 1..len : 0 + k = k
      BY <2>2
    <3> QED
      BY <2>3, <2>4, <3>1 DEF IsSlice
  <2>6. Advance = len + 1
    BY <1>2, <1>3, <2>5 DEF Advance
  <2>7. len + 1 = i /\ st + i <= en /\ \A k \in 1..len : k \in 1..n /\ k \in 1..(i - 1)
    BY <1>1, <1>2, <2>1, <2>2
  <2>8. ASSUME NEW k \in 1..len PROVE Token[k] = buf[st + k] /\ buf[st + k] # Newline
    <3>1. k \in 1..n /\ k \in 1..(i - 1)
      BY <2>7
    <3>2. Token[k] = p[k]
      BY <2>5
    <3>3. p[k] = buf[st + k]
      BY <1>2, <3>1
    <3>4. p[k] # Newline
      BY <2>1, <3>1
    <3> QED
      BY <3>2, <3>3, <3>4
  <2>9. buf[st + i] = Newline
    BY <1>2, <2>1
  <2>10. Advance \in Nat /\ Advance >= 1 /\ st + Advance <= en /\ len <= Advance /\ Advance = i
    BY <1>1, <1>2, <2>2, <2>6, <2>7
  <2> QED
    BY <1>1, <2>2, <2>5, <2>6, <2>8, <2>9, <2>10
<1>4. CASE ~Contains(p, Newline)
  <2>1. scanner.eof /\ p # <<>> /\ Token = p
    BY <1>2, <1>4 DEF HasToken, Token
  <2>2. Advance = n
    BY <1>2, <1>4, <2>1 DEF Advance
  <2>3. n >= 1 /\ st + n = en
    <3>1. n # 0
      BY <1>2, <2>1, EmptySeq
    <3> QED
      BY <1>1, <1>2, <3>1, SMTT(30)
  <2>4. \A k \in 1..n : p[k] # Newline
    BY <1>2, <1>4 DEF Contains
  <2>5. Len(Token) = n /\ \A k \in 1..n : Token[k] = buf[st + k] /\ buf[st + k] # Newline
    BY <1>2, <2>1, <2>4
  <2>6. st + Advance = en /\ st + Advance <= en /\ Advance >= 1
    BY <1>1, <2>2, <2>3
  <2> QED
    BY <1>1, <1>2, <2>1, <2>2, <2>5, <2>6
<1> QED
  BY <1>3, <1>4

(* No token: no newline is pending, and nothing at the end of the file.      *)
LEMMA NoTokenFacts ==
  ASSUME Shape, Loading, ~HasToken
  PROVE  /\ \A k \in 1..(scanner.end - scanner.start) : Buf[scanner.start + k] # Newline
         /\ scanner.eof => scanner.end = scanner.start
<1>1. PICK p \in Seq(Cells), n \in Nat :
        /\ p = Pending /\ n = Len(p) /\ n = scanner.end - scanner.start
        /\ \A i \in 1..n : p[i] = Buf[scanner.start + i]
  BY PendingFacts
<1>2. ~Contains(p, Newline) /\ (scanner.eof => p = <<>>)
  BY <1>1 DEF HasToken
<1>3. \A k \in 1..n : p[k] # Newline
  BY <1>1, <1>2 DEF Contains
<1>4. scanner.eof => n = 0
  BY <1>1, <1>2
<1>5. n = 0 => scanner.end = scanner.start
  BY <1>1, BufferTypes
<1> QED
  BY <1>1, <1>3, <1>4, <1>5

(* Moving what is pending to the front moves it by sh.                       *)
LEMMA ShiftFacts ==
  ASSUME Shape, Loading
  PROVE  \E sh \in Nat :
           /\ sh \in {0, scanner.start} /\ sh <= scanner.start
           /\ ShiftedBuf \in Seq(Cells) /\ Len(ShiftedBuf) = Len(Buf)
           /\ ShiftedStart = scanner.start - sh /\ ShiftedEnd = scanner.end - sh
           /\ \A k \in 1..Len(Buf) :
                ShiftedBuf[k] = IF k <= scanner.end - sh THEN Buf[sh + k] ELSE Buf[k]
           /\ sh = 0 => ShiftedBuf = Buf
           /\ ShiftedEnd = Len(Buf) => scanner.start = 0 /\ scanner.end = Len(Buf)
<1>1. PICK buf \in Seq(Cells), st \in Nat, en \in Nat, size \in Nat :
        /\ buf = Buf /\ st = scanner.start /\ en = scanner.end /\ st <= en /\ en <= size
        /\ size = Len(buf) /\ size >= 1
  BY BufferTypes
<1>2. CASE ~Shifts
  <2>1. ShiftedBuf = buf /\ ShiftedStart = st /\ ShiftedEnd = en
    BY <1>1, <1>2 DEF ShiftedBuf, ShiftedStart, ShiftedEnd
  <2>2. en = size => st = 0
    BY <1>1, <1>2 DEF Shifts
  <2>3. 0 \in Nat /\ 0 <= st /\ st - 0 = st /\ en - 0 = en /\ \A k \in 1..size : 0 + k = k
    BY <1>1
  <2> QED
    BY <1>1, <2>1, <2>2, <2>3
<1>3. CASE Shifts
  <2>1. PICK p \in Seq(Cells), n \in Nat :
        /\ p = Pending /\ n = Len(p) /\ n = en - st /\ \A i \in 1..n : p[i] = buf[st + i]
    BY <1>1, PendingFacts
  <2>2. ShiftedStart = 0 /\ ShiftedEnd = n /\ ShiftedBuf = p \o SubSeq(buf, n + 1, size)
    BY <1>1, <1>3, <2>1 DEF ShiftedStart, ShiftedEnd, ShiftedBuf
  <2>3. n <= size
    BY <1>1, <2>1
  <2>4. PICK q \in Seq(Cells) : /\ q = SubSeq(buf, n + 1, size) /\ Len(q) = size - n /\ size - n \in Nat
                                /\ \A i \in 1..(size - n) : q[i] = buf[n + i]
    <3>1. SubSeq(buf, n + 1, size) \in Seq(Cells) /\ IsSlice(SubSeq(buf, n + 1, size), buf, n, size)
      BY <1>1, <2>1, <2>3, Slice, SMTT(30)
    <3> QED
      BY <3>1 DEF IsSlice
  <2>5. PICK m \in Nat : m = size - n /\ m = Len(q) /\ \A i \in 1..m : q[i] = buf[n + i]
    BY <2>4
  <2>6. /\ p \o q \in Seq(Cells) /\ Len(p \o q) = n + m
        /\ \A i \in 1..(n + m) : (i <= n => (p \o q)[i] = p[i]) /\ (i > n => (p \o q)[i] = q[i - n])
    <3>1. n = Len(p) /\ m = Len(q)
      BY <2>1, <2>5
    <3>2. p \o q \in Seq(Cells) /\ IsJoin(p \o q, p, n, q, m)
      BY <3>1, Joined
    <3> QED
      BY <3>2 DEF IsJoin
  <2>7. n + m = size
    <3>1. m = size - n
      BY <2>5
    <3> QED
      BY <3>1
  <2>8. ASSUME NEW k \in 1..size PROVE (p \o q)[k] = IF k <= n THEN buf[st + k] ELSE buf[k]
    <3>1. CASE k <= n
      BY <2>1, <2>6, <2>7, <3>1
    <3>2. CASE ~(k <= n)
      <4>1. k - n \in 1..m /\ n + (k - n) = k /\ k > n
        BY <2>5, <3>2
      <4>2. q[k - n] = buf[k]
        BY <2>5, <4>1
      <4> QED
        BY <2>6, <2>7, <3>2, <4>1, <4>2
    <3> QED
      BY <3>1, <3>2
  <2>9. st > 0
    BY <1>1, <1>3 DEF Shifts
  <2>10. n < size /\ st # 0 /\ st <= st /\ st - st = 0
    BY <1>1, <2>1, <2>9
  <2>11. ShiftedBuf = p \o q
    BY <2>2, <2>4
  <2>12. ASSUME NEW k \in 1..size PROVE ShiftedBuf[k] = IF k <= en - st THEN buf[st + k] ELSE buf[k]
    BY <2>1, <2>8, <2>11
  <2>13. ShiftedStart = st - st /\ ShiftedEnd = en - st
    BY <1>1, <2>1, <2>2, <2>10
  <2>14. ShiftedBuf \in Seq(Cells) /\ Len(ShiftedBuf) = size /\ ~(ShiftedEnd = size)
    <3>1. p \o q \in Seq(Cells) /\ Len(p \o q) = size
      BY <2>6, <2>7
    <3>2. n # size
      BY <2>10
    <3> QED
      BY <2>2, <2>11, <3>1, <3>2
  <2> QED
    BY <1>1, <2>10, <2>12, <2>13, <2>14
<1> QED
  BY <1>2, <1>3

(* A read: the buffer is shifted by sh, and n symbols more stand in it.      *)
Refills(sh, n, new) ==
  /\ sh \in {0, scanner.start} /\ sh <= scanner.start /\ scanner.end - sh < Len(Buf)
  /\ n <= Len(scanner.rest) /\ (scanner.end - sh) + n <= Len(Buf)
  /\ n = Len(scanner.rest) \/ (scanner.end - sh) + n = Len(Buf)
  /\ Len(new) = Len(Buf)
  /\ \A k \in 1..Len(Buf) :
       /\ k <= scanner.end - sh => new[k] = Buf[sh + k]
       /\ k > scanner.end - sh /\ k <= (scanner.end - sh) + n => new[k] = scanner.rest[k - (scanner.end - sh)]
       /\ k > (scanner.end - sh) + n => new[k] = Buf[k]
  /\ memory' = [memory EXCEPT ![scanner.array] = new]
  /\ scanner' = [array |-> scanner.array, start |-> scanner.start - sh, end |-> (scanner.end - sh) + n,
                 rest |-> SubSeq(scanner.rest, n + 1, Len(scanner.rest)), eof |-> n = 0]

(* Three sequences one after the other: the middle one replaces what stood   *)
(* there.                                                                    *)
Overwrites(new, s, t, e, n) ==
  /\ new \in Seq(Cells) /\ Len(new) = Len(s)
  /\ \A k \in 1..Len(s) :
       /\ k <= e => new[k] = s[k]
       /\ k > e /\ k <= e + n => new[k] = t[k - e]
       /\ k > e + n => new[k] = s[k]

(* What ScanRead puts together overwrites the end of the buffer.             *)
LEMMA Overwritten ==
  ASSUME NEW s \in Seq(Cells), NEW t \in Seq(Cells), NEW e \in Nat, NEW n \in Nat,
         n <= Len(t), e + n <= Len(s),
         NEW new, new = SubSeq(s, 1, e) \o SubSeq(t, 1, n) \o SubSeq(s, e + n + 1, Len(s))
  PROVE  Overwrites(new, s, t, e, n)
<1>1. PICK size \in Nat, m \in Nat : size = Len(s) /\ m = e + n /\ m <= size /\ e <= size /\ e <= m
  OBVIOUS
<1>2. PICK a \in Seq(Cells) : a = SubSeq(s, 1, e) /\ IsSlice(a, s, 0, e)
  <2>1. SubSeq(s, 0 + 1, e) \in Seq(Cells) /\ IsSlice(SubSeq(s, 0 + 1, e), s, 0, e)
    <3>1. 0 \in Nat /\ 0 <= e /\ e <= Len(s)
      BY <1>1
    <3> QED
      BY <3>1, Slice
  <2>2. 0 + 1 = 1
    OBVIOUS
  <2> QED
    BY <2>1, <2>2
<1>3. PICK b \in Seq(Cells) : b = SubSeq(t, 1, n) /\ IsSlice(b, t, 0, n)
  <2>1. SubSeq(t, 0 + 1, n) \in Seq(Cells) /\ IsSlice(SubSeq(t, 0 + 1, n), t, 0, n)
    <3>1. 0 \in Nat /\ 0 <= n
      OBVIOUS
    <3> QED
      BY <3>1, Slice
  <2>2. 0 + 1 = 1
    OBVIOUS
  <2> QED
    BY <2>1, <2>2
<1>4. PICK c \in Seq(Cells) : c = SubSeq(s, m + 1, size) /\ IsSlice(c, s, m, size)
  <2>1. size <= Len(s)
    BY <1>1
  <2>2. SubSeq(s, m + 1, size) \in Seq(Cells) /\ IsSlice(SubSeq(s, m + 1, size), s, m, size)
    BY <1>1, <2>1, Slice
  <2> QED
    BY <2>2
<1>5. Len(a) = e /\ \A i \in 1..e : a[i] = s[i]
  <2>1. e - 0 = e /\ \A i \in 1..e : 0 + i = i
    OBVIOUS
  <2> QED
    BY <1>2, <2>1 DEF IsSlice
<1>6. Len(b) = n /\ \A i \in 1..n : b[i] = t[i]
  <2>1. n - 0 = n /\ \A i \in 1..n : 0 + i = i
    OBVIOUS
  <2> QED
    BY <1>3, <2>1 DEF IsSlice
<1>7. PICK r \in Nat : r = size - m /\ Len(c) = r /\ \A i \in 1..r : c[i] = s[m + i]
  BY <1>4 DEF IsSlice
<1>8. PICK ab \in Seq(Cells) : /\ ab = a \o b /\ Len(ab) = m
                               /\ \A i \in 1..m : (i <= e => ab[i] = a[i]) /\ (i > e => ab[i] = b[i - e])
  <2>1. a \o b \in Seq(Cells) /\ IsJoin(a \o b, a, e, b, n)
    BY <1>5, <1>6, Joined
  <2> QED
    BY <1>1, <2>1 DEF IsJoin
<1>9. /\ ab \o c \in Seq(Cells) /\ Len(ab \o c) = m + r
      /\ \A i \in 1..(m + r) : (i <= m => (ab \o c)[i] = ab[i]) /\ (i > m => (ab \o c)[i] = c[i - m])
  <2>1. ab \o c \in Seq(Cells) /\ IsJoin(ab \o c, ab, m, c, r)
    BY <1>7, <1>8, Joined
  <2> QED
    BY <2>1 DEF IsJoin
<1>10. m + r = size /\ new = ab \o c
  <2>1. m + r = size
    <3>1. r = size - m
      BY <1>7
    <3> QED
      BY <3>1
  <2>2. new = (SubSeq(s, 1, e) \o SubSeq(t, 1, n)) \o SubSeq(s, m + 1, size)
    BY <1>1
  <2> QED
    BY <1>2, <1>3, <1>4, <1>8, <2>1, <2>2
<1>11. ASSUME NEW k \in 1..size, k <= e PROVE new[k] = s[k]
  <2>1. k \in 1..m /\ k \in 1..e /\ k <= m
    BY <1>1, <1>11
  <2>2. new[k] = ab[k] /\ ab[k] = a[k] /\ a[k] = s[k]
    BY <1>5, <1>8, <1>9, <1>10, <1>11, <2>1
  <2> QED
    BY <2>2
<1>12. ASSUME NEW k \in 1..size, k > e, k <= m PROVE new[k] = t[k - e]
  <2>1. k \in 1..m /\ k - e \in 1..n /\ ~(k <= e)
    BY <1>1, <1>12
  <2>2. new[k] = ab[k] /\ ab[k] = b[k - e] /\ b[k - e] = t[k - e]
    BY <1>6, <1>8, <1>9, <1>10, <1>12, <2>1
  <2> QED
    BY <2>2
<1>13. ASSUME NEW k \in 1..size, k > m PROVE new[k] = s[k]
  <2>1. k - m \in 1..r /\ m + (k - m) = k /\ ~(k <= m)
    BY <1>1, <1>7, <1>13
  <2>2. new[k] = c[k - m] /\ c[k - m] = s[m + (k - m)]
    BY <1>7, <1>9, <1>10, <1>13, <2>1
  <2> QED
    BY <2>1, <2>2
<1>14. new \in Seq(Cells) /\ Len(new) = size
  BY <1>9, <1>10
<1> QED
  BY <1>1, <1>11, <1>12, <1>13, <1>14 DEF Overwrites

(* What ScanRead does to the buffer.                                         *)
LEMMA ReadFacts ==
  ASSUME Shape, ScanRead
  PROVE  \E sh \in Nat, n \in Nat, new \in Seq(Cells) : Refills(sh, n, new)
<1>1. Loading
  BY DEF ScanRead
<1>2. PICK buf \in Seq(Cells), st \in Nat, en \in Nat, size \in Nat, rest \in Seq(Chars) :
        /\ buf = Buf /\ st = scanner.start /\ en = scanner.end /\ st <= en /\ en <= size
        /\ size = Len(buf) /\ rest = scanner.rest
  BY <1>1, BufferTypes
<1>3. PICK sh \in Nat :
           /\ sh \in {0, st} /\ sh <= st
           /\ ShiftedBuf \in Seq(Cells) /\ Len(ShiftedBuf) = size
           /\ ShiftedStart = st - sh /\ ShiftedEnd = en - sh
           /\ \A k \in 1..size : ShiftedBuf[k] = IF k <= en - sh THEN buf[sh + k] ELSE buf[k]
  BY <1>1, <1>2, ShiftFacts
<1>4. PICK sb \in Seq(Cells), e \in Nat :
           /\ sb = ShiftedBuf /\ e = ShiftedEnd /\ Len(sb) = size /\ e = en - sh /\ e <= size
           /\ \A k \in 1..size : sb[k] = IF k <= e THEN buf[sh + k] ELSE buf[k]
  <2>1. en - sh \in Nat /\ en - sh <= size
    BY <1>2, <1>3
  <2> QED
    BY <1>3, <2>1
<1>5. PICK r \in Nat : r = Len(rest)
  OBVIOUS
<1>6. e < size
  BY <1>2, <1>4 DEF ScanRead
<1>7. PICK n \in Nat : /\ n = IF r < size - e THEN r ELSE size - e
                       /\ n <= r /\ e + n <= size /\ (n = r \/ e + n = size)
  <2>1. CASE r < size - e
    <3>1. r <= r /\ e + r <= size
      BY <1>4, <2>1
    <3> QED
      BY <2>1, <3>1
  <2>2. CASE ~(r < size - e)
    <3>1. size - e \in Nat /\ size - e <= r /\ e + (size - e) = size
      BY <1>4, <2>2
    <3> QED
      BY <2>2, <3>1
  <2> QED
    BY <2>1, <2>2
<1>8. PICK new : new = SubSeq(sb, 1, e) \o SubSeq(rest, 1, n) \o SubSeq(sb, e + n + 1, size)
  OBVIOUS
<1>9. memory' = [memory EXCEPT ![scanner.array] = new]
  BY <1>2, <1>4, <1>5, <1>7, <1>8 DEF ScanRead
<1>10. scanner' = [array |-> scanner.array, start |-> st - sh, end |-> e + n,
                   rest |-> SubSeq(rest, n + 1, Len(rest)), eof |-> n = 0]
  BY <1>2, <1>3, <1>4, <1>5, <1>7 DEF ScanRead
<1>11. /\ new \in Seq(Cells) /\ Len(new) = size
       /\ \A k \in 1..size :
              /\ k <= e => new[k] = sb[k]
              /\ k > e /\ k <= e + n => new[k] = rest[k - e]
              /\ k > e + n => new[k] = sb[k]
  <2>1. rest \in Seq(Cells)
    BY TextTypes, SeqMonotonic
  <2>2. new = SubSeq(sb, 1, e) \o SubSeq(rest, 1, n) \o SubSeq(sb, e + n + 1, Len(sb))
    BY <1>4, <1>8
  <2>3. n <= Len(rest) /\ e + n <= Len(sb)
    BY <1>4, <1>5, <1>7
  <2>4. Overwrites(new, sb, rest, e, n)
    BY <2>1, <2>2, <2>3, Overwritten
  <2> QED
    BY <1>4, <2>4 DEF Overwrites
<1>12. ASSUME NEW k \in 1..size
       PROVE  /\ k <= e => new[k] = buf[sh + k]
              /\ k > e /\ k <= e + n => new[k] = rest[k - e]
              /\ k > e + n => new[k] = buf[k]
  <2>1. k > e + n => ~(k <= e)
    BY <1>4
  <2> QED
    BY <1>4, <1>11, <2>1
<1>13. Refills(sh, n, new)
  BY <1>2, <1>3, <1>4, <1>5, <1>6, <1>7, <1>9, <1>10, <1>11, <1>12 DEF Refills
<1> QED
  BY <1>11, <1>13

(* A larger buffer: the line is copied to a new array.                       *)
Grows(new) ==
  /\ scanner.start = 0 /\ scanner.end = Len(Buf)
  /\ Len(new) > Len(Buf) /\ Len(new) <= MaxTokenSize
  /\ \A k \in 1..Len(Buf) : new[k] = Buf[k]
  /\ memory' = Append(memory, new)
  /\ scanner' = [scanner EXCEPT !.array = Len(memory) + 1]

(* What ScanGrow does to the buffer.                                         *)
LEMMA GrowFacts ==
  ASSUME Shape, ScanGrow
  PROVE  \E new \in Seq(Cells) : Grows(new)
<1>1. Loading
  BY DEF ScanGrow
<1>2. PICK buf \in Seq(Cells), size \in Nat :
        buf = Buf /\ size = Len(buf) /\ size >= 1
  BY <1>1, BufferTypes
<1>3. scanner.start = 0 /\ scanner.end = size
  BY <1>1, <1>2, ShiftFacts DEF ScanGrow
<1>4. PICK r \in Nat : r = NewSize - size /\ r >= 1 /\ size + r <= MaxTokenSize
  <2>1. size < MaxTokenSize
    BY <1>2 DEF ScanGrow
  <2>2. PICK max \in Nat : max = MaxTokenSize
    BY BufferAssumption
  <2>3. NewSize = IF 2 * size <= max THEN 2 * size ELSE max
    BY <1>2, <2>2 DEF NewSize
  <2>4. CASE 2 * size <= max
    BY <1>2, <2>2, <2>3, <2>4
  <2>5. CASE ~(2 * size <= max)
    BY <1>2, <2>1, <2>2, <2>3, <2>5
  <2> QED
    BY <2>4, <2>5
<1>5. PICK u \in Seq(Cells) : u = [k \in 1..r |-> Unused] /\ Len(u) = r
  <2>1. [k \in 1..r |-> Unused] \in Seq(Cells) /\ Len([k \in 1..r |-> Unused]) = r
    BY DEF Cells
  <2> QED
    BY <2>1
<1>6. PICK new \in Seq(Cells) : new = buf \o u /\ IsJoin(new, buf, size, u, r)
  BY <1>2, <1>5, Joined
<1>7. Len(new) = size + r /\ \A k \in 1..size : new[k] = buf[k]
  <2>1. \A k \in 1..size : k \in 1..(size + r) /\ k <= size
    OBVIOUS
  <2> QED
    BY <1>6, <2>1 DEF IsJoin
<1>8. memory' = Append(memory, new) /\ scanner' = [scanner EXCEPT !.array = Len(memory) + 1]
  BY <1>2, <1>4, <1>5, <1>6 DEF ScanGrow
<1>9. Len(new) > size /\ Len(new) <= MaxTokenSize
  BY <1>4, <1>7
<1> QED
  BY <1>2, <1>3, <1>7, <1>8, <1>9 DEF Grows

-----------------------------------------------------------------------------
(* The shape of the state *)

(* One array more leaves every value where it is.                            *)
LEMMA InsideAppend ==
  ASSUME NEW mem \in Seq(Seq(Cells)), NEW x \in Seq(Cells), NEW v, Inside(mem, v)
  PROVE  Inside(Append(mem, x), v) /\ Append(mem, x)[v.array] = mem[v.array]
<1>1. PICK n \in Nat : n = Len(mem) /\ v.array \in 1..n
  BY DEF Inside
<1>2. PICK new \in Seq(Seq(Cells)) : /\ new = Append(mem, x) /\ Len(new) = n + 1
                                     /\ \A i \in 1..n : new[i] = mem[i]
  <2>1. Append(mem, x) \in Seq(Seq(Cells)) /\ IsAppend(Append(mem, x), mem, n, x)
    BY <1>1, Appended
  <2> QED
    BY <2>1 DEF IsAppend
<1>3. v.array \in 1..(n + 1) /\ new[v.array] = mem[v.array]
  BY <1>1, <1>2
<1> QED
  BY <1>2, <1>3 DEF Inside

(* The values where they were, with the scanner's new state.                 *)
LEMMA ShapeFacts ==
  ASSUME NEW sc \in Scanners, NEW mem \in Seq(Seq(Cells)), NEW a \in 1..Len(mem),
         scanner' = sc, memory' = mem, sc.array = a, InBuffer(mem[a], sc),
         DOMAIN values' \subseteq Keys, \A key \in DOMAIN values' : Inside(mem, values'[key]),
         small' \in BOOLEAN, calls' \in 0..MaxCalls
  PROVE  Shape'
<1>1. sc.array \in 0..Len(mem)
  OBVIOUS
<1>2. Loading' => InBuffer(Buf', scanner')
  BY DEF Buf, Loading
<1> QED
  BY <1>1, <1>2 DEF Shape

(* A read keeps every value inside its array: it writes text, and no more    *)
(* than the buffer holds.                                                    *)
LEMMA ReadShape ==
  ASSUME Shape, ScanRead
  PROVE  Shape'
<1>1. Loading
  BY DEF ScanRead
<1>2. PICK buf \in Seq(Cells), st \in Nat, en \in Nat, size \in Nat, rest \in Seq(Chars), a \in Nat \ {0} :
        /\ buf = Buf /\ st = scanner.start /\ en = scanner.end /\ st <= en /\ en <= size
        /\ size = Len(buf) /\ rest = scanner.rest /\ a = scanner.array /\ a \in 1..Len(memory)
        /\ size >= 1 /\ size <= MaxTokenSize
  BY <1>1, BufferTypes
<1>3. PICK sh \in Nat, n \in Nat, new \in Seq(Cells) : Refills(sh, n, new)
  BY ReadFacts
<1>4. /\ sh <= st /\ en - sh < size /\ n <= Len(rest) /\ (en - sh) + n <= size
      /\ Len(new) = size
      /\ \A k \in 1..size :
           /\ k <= en - sh => new[k] = buf[sh + k]
           /\ k > en - sh /\ k <= (en - sh) + n => new[k] = rest[k - (en - sh)]
           /\ k > (en - sh) + n => new[k] = buf[k]
      /\ memory' = [memory EXCEPT ![a] = new]
      /\ scanner' = [array |-> a, start |-> st - sh, end |-> (en - sh) + n,
                     rest |-> SubSeq(rest, n + 1, Len(rest)), eof |-> n = 0]
  BY <1>2, <1>3 DEF Refills
<1>5. PICK e \in Nat : e = en - sh /\ sh + e = en /\ e < size /\ e + n <= size
  <2>1. en - sh \in Nat /\ sh + (en - sh) = en
    <3>1. sh <= st /\ st <= en
      BY <1>2, <1>4
    <3> QED
      BY <3>1
  <2> QED
    BY <1>4, <2>1
<1>6. \A k \in 1..en : buf[k] # Unused
  BY <1>1, <1>2 DEF Shape, InBuffer
<1>7. \A k \in 1..Len(rest) : rest[k] # Unused
  BY TextTypes
<1>8. ASSUME NEW k \in 1..size, k <= e + n \/ buf[k] # Unused PROVE new[k] # Unused
  <2>1. CASE k <= e
    <3>1. sh + k \in 1..en
      BY <1>5, <2>1
    <3> QED
      BY <1>4, <1>5, <1>6, <2>1, <3>1
  <2>2. CASE k > e /\ k <= e + n
    <3>1. PICK r \in Nat : r = Len(rest) /\ n <= r
      BY <1>4
    <3>2. k - e \in 1..r
      BY <1>5, <2>2, <3>1
    <3> QED
      BY <1>4, <1>5, <1>7, <2>2, <3>1, <3>2
  <2>3. CASE k > e + n
    <3>1. ~(k <= e + n)
      BY <2>3
    <3> QED
      BY <1>4, <1>5, <1>8, <2>3, <3>1
  <2> QED
    BY <1>5, <2>1, <2>2, <2>3
<1>9. PICK mem \in Seq(Seq(Cells)) : /\ mem = [memory EXCEPT ![a] = new] /\ Len(mem) = Len(memory)
                                     /\ mem[a] = new /\ \A i \in 1..Len(memory) : i # a => mem[i] = memory[i]
  <2>1. memory \in Seq(Seq(Cells))
    BY DEF Shape
  <2>2. PICK m0 \in Seq(Seq(Cells)), l \in Nat : m0 = memory /\ l = Len(m0) /\ a \in 1..l
    BY <1>2, <2>1
  <2>3. [m0 EXCEPT ![a] = new] \in Seq(Seq(Cells)) /\ Len([m0 EXCEPT ![a] = new]) = l
    BY <2>2, ExceptSeq
  <2>4. [m0 EXCEPT ![a] = new][a] = new /\ \A i \in 1..l : i # a => [m0 EXCEPT ![a] = new][i] = m0[i]
    BY <2>2
  <2> QED
    BY <2>2, <2>3, <2>4
<1>10. PICK r \in Seq(Chars) : r = SubSeq(rest, n + 1, Len(rest))
  <2>1. PICK l \in Nat : l = Len(rest) /\ n <= l
    BY <1>4
  <2>2. l <= Len(rest)
    BY <2>1
  <2>3. SubSeq(rest, n + 1, l) \in Seq(Chars)
    BY <2>1, <2>2, Slice
  <2> QED
    BY <2>1, <2>3
<1>11. PICK s1 \in Nat, e1 \in Nat : s1 = st - sh /\ e1 = e + n /\ s1 <= e1 /\ e1 <= size
  <2>1. st - sh \in Nat /\ e + n \in Nat /\ st - sh <= e + n
    <3>1. sh <= st /\ st <= en /\ e = en - sh
      BY <1>2, <1>4, <1>5
    <3> QED
      BY <3>1
  <2> QED
    BY <1>5, <2>1
<1>12. PICK sc \in Scanners : /\ sc = scanner' /\ sc.array = a /\ sc.start = s1 /\ sc.end = e1
  <2>1. scanner' = [array |-> a, start |-> s1, end |-> e1, rest |-> r, eof |-> n = 0]
    BY <1>4, <1>5, <1>10, <1>11
  <2>2. (n = 0) \in BOOLEAN
    OBVIOUS
  <2>3. [array |-> a, start |-> s1, end |-> e1, rest |-> r, eof |-> n = 0] \in Scanners
    BY <2>2 DEF Scanners
  <2> QED
    BY <2>1, <2>3
<1>13. InBuffer(mem[a], sc)
  <2>1. \A k \in 1..e1 : k \in 1..size /\ k <= e + n
    BY <1>11
  <2>2. \A k \in 1..e1 : new[k] # Unused
    BY <1>8, <2>1
  <2>3. size \in 1..MaxTokenSize
    BY <1>2, BufferAssumption
  <2> QED
    BY <1>4, <1>9, <1>11, <1>12, <2>2, <2>3 DEF InBuffer
<1>14. values' = values /\ small' = small /\ calls' = calls
  BY DEF ScanRead
<1>15. ASSUME NEW key \in DOMAIN values PROVE Inside(mem, values[key])
  <2>1. PICK v \in Place : v = values[key] /\ Inside(memory, v)
    BY DEF Shape, Inside
  <2>2. CASE v.array # a
    BY <1>9, <2>1, <2>2 DEF Inside
  <2>3. CASE v.array = a
    <3>1. PICK f \in Nat \ {0}, l \in Nat : f = v.first /\ l = v.len
      BY DEF Place
    <3>2. f + l - 1 <= size /\ \A k \in f..(f + l - 1) : buf[k] # Unused
      BY <1>2, <2>1, <2>3, <3>1 DEF Inside, Buf
    <3>3. \A k \in f..(f + l - 1) : k \in 1..size
      BY <3>2
    <3>4. \A k \in f..(f + l - 1) : new[k] # Unused
      BY <1>8, <3>2, <3>3
    <3>5. mem[v.array] = new /\ Len(mem[v.array]) = size
      BY <1>4, <1>9, <2>3
    <3>6. v.array \in 1..Len(mem)
      BY <1>9, <2>1 DEF Inside
    <3>7. /\ v.first + v.len - 1 <= Len(mem[v.array])
          /\ \A k \in v.first..(v.first + v.len - 1) : mem[v.array][k] # Unused
      BY <3>1, <3>2, <3>4, <3>5
    <3> QED
      BY <2>1, <3>6, <3>7 DEF Inside
  <2> QED
    BY <2>1, <2>2, <2>3
<1>16. a \in 1..Len(mem) /\ memory' = mem
  BY <1>2, <1>4, <1>9
<1>17. DOMAIN values \subseteq Keys /\ small \in BOOLEAN /\ calls \in 0..MaxCalls
  BY DEF Shape
<1> QED
  BY <1>12, <1>13, <1>14, <1>15, <1>16, <1>17, ShapeFacts

(* The memory with one array more.                                           *)
LEMMA MoreMemory ==
  ASSUME Shape, NEW x \in Seq(Cells), memory' = Append(memory, x)
  PROVE  /\ memory' \in Seq(Seq(Cells)) /\ Len(memory) \in Nat /\ Len(memory') = Len(memory) + 1
         /\ memory'[Len(memory) + 1] = x
         /\ \A i \in 1..Len(memory) : memory'[i] = memory[i]
         /\ \A key \in DOMAIN values :
              /\ Inside(memory', values[key])
              /\ values[key].array \in 1..Len(memory)
<1>1. PICK mem \in Seq(Seq(Cells)), n \in Nat : mem = memory /\ n = Len(mem)
  BY DEF Shape
<1>2. Append(mem, x) \in Seq(Seq(Cells)) /\ IsAppend(Append(mem, x), mem, n, x)
  BY <1>1, Appended
<1>3. ASSUME NEW key \in DOMAIN values PROVE Inside(Append(mem, x), values[key]) /\ values[key].array \in 1..n
  <2>1. Inside(mem, values[key])
    BY <1>1 DEF Shape
  <2> QED
    BY <1>1, <2>1, InsideAppend DEF Inside
<1> QED
  BY <1>1, <1>2, <1>3 DEF IsAppend

(* So does a larger buffer.                                                  *)
LEMMA GrowShape ==
  ASSUME Shape, ScanGrow
  PROVE  Shape'
<1>1. Loading
  BY DEF ScanGrow
<1>2. PICK new \in Seq(Cells) : Grows(new)
  BY GrowFacts
<1>3. PICK a \in Nat : a = Len(memory) + 1 /\ a \in 1..Len(memory')
  <2>1. Len(memory) \in Nat /\ Len(memory') = Len(memory) + 1
    BY <1>2, MoreMemory DEF Grows
  <2> QED
    BY <2>1
<1>4. /\ memory' \in Seq(Seq(Cells)) /\ memory'[a] = new
      /\ \A key \in DOMAIN values : Inside(memory', values[key])
  BY <1>2, <1>3, MoreMemory DEF Grows
<1>5. PICK sc \in Scanners : /\ sc = scanner' /\ sc.array = a /\ sc.start = scanner.start /\ sc.end = scanner.end
  <2>1. scanner \in Scanners
    BY DEF Shape
  <2>2. scanner' = [scanner EXCEPT !.array = a]
    BY <1>2, <1>3 DEF Grows
  <2> QED
    BY <2>1, <2>2 DEF Scanners
<1>6. PICK size \in Nat, en \in Nat : /\ size = Len(Buf) /\ en = scanner.end /\ en = size /\ scanner.start = 0
                                      /\ \A k \in 1..size : Buf[k] # Unused /\ new[k] = Buf[k]
  <2>1. Len(Buf) \in Nat /\ scanner.end \in Nat
    BY <1>1, BufferTypes
  <2>2. \A k \in 1..scanner.end : Buf[k] # Unused
    BY <1>1 DEF Shape, InBuffer
  <2> QED
    BY <1>2, <2>1, <2>2 DEF Grows
<1>7. PICK l \in Nat : l = Len(new) /\ l > size /\ l <= MaxTokenSize
  BY <1>2, <1>6 DEF Grows
<1>8. InBuffer(memory'[a], sc)
  <2>1. l \in 1..MaxTokenSize /\ 0 <= en /\ en <= l
    BY <1>6, <1>7, BufferAssumption
  <2> QED
    BY <1>4, <1>5, <1>6, <1>7, <2>1 DEF InBuffer
<1>9. values' = values /\ small' = small /\ calls' = calls
  BY DEF ScanGrow
<1>10. DOMAIN values \subseteq Keys /\ small \in BOOLEAN /\ calls \in 0..MaxCalls
  BY DEF Shape
<1> QED
  BY <1>3, <1>4, <1>5, <1>8, <1>9, <1>10, ShapeFacts

(* The place of the value of a line that matches.                            *)
LEMMA ValuePlace ==
  ASSUME Shape, Loading, HasToken, Matches(Token)
  PROVE  /\ Inside(memory, [array |-> scanner.array, first |-> scanner.start + 2, len |-> ValueLen(Token)])
         /\ Token[1] \in Keys /\ Len(Token) >= 2
<1>1. PICK buf \in Seq(Cells), st \in Nat, en \in Nat, size \in Nat, a \in Nat \ {0} :
        /\ buf = Buf /\ st = scanner.start /\ en = scanner.end /\ st <= en /\ en <= size
        /\ size = Len(buf) /\ a = scanner.array /\ a \in 1..Len(memory)
  BY BufferTypes
<1>2. PICK t \in Seq(Cells), l \in Nat, adv \in Nat :
        t = Token /\ l = Len(t) /\ adv = Advance /\ st + adv <= en /\ l <= adv
  BY <1>1, TokenFacts
<1>3. l >= 2 /\ t[1] \in Keys
  BY <1>2 DEF Matches
<1>4. PICK v \in Nat : v = ValueLen(t) /\ v + 1 <= l
  <2>1. Len(t) >= 1
    BY <1>2, <1>3
  <2> QED
    BY <1>2, <2>1, ValueFits
<1>5. PICK f \in Nat \ {0} : f = st + 2 /\ f + v - 1 <= en
  <2>1. st + 2 \in Nat \ {0} /\ (st + 2) + v - 1 <= en
    BY <1>2, <1>4
  <2> QED
    BY <2>1
<1>6. f + v - 1 <= size /\ \A k \in f..(f + v - 1) : k \in 1..en
  <2>1. f + v - 1 <= en /\ en <= size
    BY <1>1, <1>5
  <2> QED
    BY <2>1
<1>7. \A k \in 1..en : buf[k] # Unused
  BY <1>1 DEF Shape, InBuffer
<1>8. \A k \in f..(f + v - 1) : buf[k] # Unused
  BY <1>6, <1>7
<1>9. PICK p \in Place : /\ p = [array |-> a, first |-> f, len |-> v]
                         /\ p.array = a /\ p.first = f /\ p.len = v
  <2>1. [array |-> a, first |-> f, len |-> v] \in Place
    BY DEF Place
  <2> QED
    BY <2>1
<1>10. Inside(memory, p)
  BY <1>1, <1>6, <1>8, <1>9 DEF Inside, Buf
<1> QED
  BY <1>1, <1>2, <1>3, <1>4, <1>5, <1>9, <1>10

(* The value that doLoad keeps of a line is inside the buffer.               *)
LEMMA LineShape ==
  ASSUME Shape, LoadLine
  PROVE  Shape'
<1>1. Loading /\ HasToken /\ memory' = memory /\ small' = small /\ calls' = calls
  BY DEF LoadLine
<1>2. PICK buf \in Seq(Cells), st \in Nat, en \in Nat, a \in Nat \ {0}, adv \in Nat :
        /\ buf = Buf /\ st = scanner.start /\ en = scanner.end /\ a = scanner.array /\ a \in 1..Len(memory)
        /\ adv = Advance /\ st + adv <= en
  BY <1>1, BufferTypes, TokenFacts
<1>3. PICK sc \in Scanners : sc = scanner' /\ sc.array = a /\ sc.start = st + adv /\ sc.end = en
  <2>1. scanner \in Scanners /\ st + adv \in Nat
    BY DEF Shape
  <2>2. scanner' = [scanner EXCEPT !.start = st + adv]
    BY <1>2 DEF LoadLine
  <2> QED
    BY <1>2, <2>1, <2>2 DEF Scanners
<1>4. InBuffer(memory[a], sc)
  <2>1. InBuffer(Buf, scanner)
    BY <1>1 DEF Shape
  <2> QED
    BY <1>2, <1>3, <2>1 DEF InBuffer, Buf
<1>5. memory \in Seq(Seq(Cells)) /\ small \in BOOLEAN /\ calls \in 0..MaxCalls
  BY DEF Shape
<1>6. DOMAIN values \subseteq Keys /\ \A key \in DOMAIN values : Inside(memory, values[key])
  BY DEF Shape
<1>7. DOMAIN values' \subseteq Keys /\ \A key \in DOMAIN values' : Inside(memory, values'[key])
  <2>1. CASE ~Matches(Token)
    BY <1>6, <2>1 DEF LoadLine
  <2>2. CASE Matches(Token)
    <3>1. PICK p : p = [array |-> scanner.array, first |-> scanner.start + 2, len |-> ValueLen(Token)]
      OBVIOUS
    <3>2. values' = [k \in DOMAIN values \cup {Token[1]} |-> IF k = Token[1] THEN p ELSE values[k]]
      BY <2>2, <3>1 DEF LoadLine, Put
    <3>3. Inside(memory, p) /\ Token[1] \in Keys
      BY <1>1, <2>2, <3>1, ValuePlace
    <3> QED
      BY <1>6, <3>2, <3>3
  <2> QED
    BY <2>1, <2>2
<1> QED
  BY <1>1, <1>2, <1>3, <1>4, <1>5, <1>7, ShapeFacts

(* No Load in progress.                                                      *)
LEMMA IdleType == Idle \in Scanners /\ Idle.array = 0
<1>1. <<>> \in Seq(Chars)
  OBVIOUS
<1> QED
  BY <1>1 DEF Idle, Scanners

(* The end of a Load leaves the memory alone.                                *)
LEMMA EndShape ==
  ASSUME Shape, LoadEnd
  PROVE  Shape'
<1>1. scanner' = Idle /\ UNCHANGED <<values, memory, written, small, calls>>
  BY DEF LoadEnd
<1>2. scanner' \in Scanners /\ scanner'.array = 0 /\ ~Loading'
  BY <1>1, IdleType DEF Loading
<1>3. scanner'.array \in 0..Len(memory)
  BY <1>2 DEF Shape
<1> QED
  BY <1>1, <1>2, <1>3 DEF Shape

(* The scanner's first buffer.                                               *)
LEMMA FirstBuffer ==
  /\ [k \in 1..StartBufSize |-> Unused] \in Seq(Cells)
  /\ Len([k \in 1..StartBufSize |-> Unused]) = StartBufSize
<1>1. PICK n \in Nat : n = StartBufSize
  BY BufferAssumption
<1>2. [k \in 1..n |-> Unused] \in Seq(Cells) /\ Len([k \in 1..n |-> Unused]) = n
  BY DEF Cells
<1> QED
  BY <1>1, <1>2

(* Load gives the scanner an array of its own.                               *)
LEMMA LoadShape ==
  ASSUME Shape, NEW text \in Texts, Load(text)
  PROVE  Shape'
<1>1. PICK new \in Seq(Cells) : new = [k \in 1..StartBufSize |-> Unused] /\ Len(new) = StartBufSize
  BY FirstBuffer
<1>2. memory' = Append(memory, new)
  BY <1>1 DEF Load
<1>3. PICK a \in Nat : a = Len(memory) + 1 /\ a \in 1..Len(memory')
  <2>1. Len(memory) \in Nat /\ Len(memory') = Len(memory) + 1
    BY <1>2, MoreMemory
  <2> QED
    BY <2>1
<1>4. /\ memory' \in Seq(Seq(Cells)) /\ memory'[a] = new
      /\ \A key \in DOMAIN values : Inside(memory', values[key])
  BY <1>2, <1>3, MoreMemory
<1>5. PICK sc \in Scanners : sc = scanner' /\ sc.array = a /\ sc.start = 0 /\ sc.end = 0
  <2>1. text \in Seq(Chars)
    BY TextTypes
  <2>2. scanner' = [array |-> a, start |-> 0, end |-> 0, rest |-> text, eof |-> FALSE]
    BY <1>3 DEF Load
  <2>3. [array |-> a, start |-> 0, end |-> 0, rest |-> text, eof |-> FALSE] \in Scanners
    BY <2>1 DEF Scanners
  <2> QED
    BY <2>2, <2>3
<1>6. InBuffer(memory'[a], sc)
  <2>1. Len(new) \in 1..MaxTokenSize /\ 0 <= Len(new)
    BY <1>1, BufferAssumption
  <2> QED
    BY <1>4, <1>5, <2>1 DEF InBuffer
<1>7. values' = values /\ small' \in BOOLEAN
  BY DEF Load, Shape
<1>8. calls' \in 0..MaxCalls
  <2>1. PICK c \in Nat, max \in Nat : c = calls /\ max = MaxCalls
    BY CallsAssumption DEF Shape
  <2>2. c < max /\ calls' = c + 1
    BY <2>1 DEF Load
  <2> QED
    BY <2>1, <2>2
<1>9. DOMAIN values \subseteq Keys
  BY DEF Shape
<1> QED
  BY <1>3, <1>4, <1>5, <1>6, <1>7, <1>8, <1>9, ShapeFacts

(* Set gives the value an array of its own.                                  *)
LEMMA SetShape ==
  ASSUME Shape, NEW key \in Keys, NEW value \in SetValues, Set(key, value)
  PROVE  /\ Shape' /\ value \in Seq(Chars)
         /\ values' = Put(values, key, [array |-> Len(memory) + 1, first |-> 1, len |-> Len(value)])
<1>1. value \in Seq(Chars) /\ value \in Seq(Cells)
  <2>1. value \in Seq(Chars)
    BY CallsAssumption DEF Chars
  <2> QED
    BY <2>1, TextTypes, SeqMonotonic
<1>2. memory' = Append(memory, value) /\ scanner' = scanner /\ small' = small /\ ~Loading
  BY DEF Set
<1>3. PICK a \in Nat, n \in Nat : n = Len(memory) /\ a = n + 1 /\ a \in 1..Len(memory') /\ Len(memory') = a
  <2>1. Len(memory) \in Nat /\ Len(memory') = Len(memory) + 1
    BY <1>1, <1>2, MoreMemory
  <2> QED
    BY <2>1
<1>4. /\ memory' \in Seq(Seq(Cells)) /\ memory'[a] = value
      /\ \A k \in DOMAIN values : Inside(memory', values[k])
  BY <1>1, <1>2, <1>3, MoreMemory
<1>5. PICK p \in Place : /\ p = [array |-> a, first |-> 1, len |-> Len(value)]
                         /\ p.array = a /\ p.first = 1 /\ p.len = Len(value)
  <2>1. Len(value) \in Nat /\ 1 \in Nat \ {0}
    BY <1>1
  <2>2. [array |-> a, first |-> 1, len |-> Len(value)] \in Place
    BY <2>1 DEF Place
  <2> QED
    BY <2>2
<1>6. Inside(memory', p)
  <2>1. PICK l \in Nat : l = Len(value)
    BY <1>1
  <2>2. 1 + l - 1 = l /\ l <= l
    OBVIOUS
  <2>3. \A k \in 1..l : value[k] # Unused
    BY <1>1, <2>1, TextTypes
  <2> QED
    BY <1>3, <1>4, <1>5, <2>1, <2>2, <2>3 DEF Inside
<1>7. values' = [k \in DOMAIN values \cup {key} |-> IF k = key THEN p ELSE values[k]]
  BY <1>3, <1>5 DEF Set, Put
<1>8. DOMAIN values' \subseteq Keys /\ \A k \in DOMAIN values' : Inside(memory', values'[k])
  <2>1. DOMAIN values \subseteq Keys
    BY DEF Shape
  <2> QED
    BY <1>4, <1>6, <1>7, <2>1
<1>9. calls' \in 0..MaxCalls
  <2>1. PICK c \in Nat, max \in Nat : c = calls /\ max = MaxCalls
    BY CallsAssumption DEF Shape
  <2>2. c < max /\ calls' = c + 1
    BY <2>1 DEF Set
  <2> QED
    BY <2>1, <2>2
<1>10. scanner'.array \in 0..Len(memory') /\ ~Loading' /\ scanner' \in Scanners /\ small' \in BOOLEAN
  BY <1>2, <1>3 DEF Shape, Loading
<1>11. Shape'
  BY <1>4, <1>8, <1>9, <1>10 DEF Shape
<1> QED
  BY <1>1, <1>11 DEF Set

(* Initially nothing is set.                                                 *)
LEMMA ShapeInit == ConfigInit => Shape
<1> SUFFICES ASSUME ConfigInit PROVE Shape
  OBVIOUS
<1>1. memory \in Seq(Seq(Cells)) /\ Len(memory) = 0
  BY DEF ConfigInit
<1>2. scanner \in Scanners /\ scanner.array = 0 /\ ~Loading
  BY IdleType DEF ConfigInit, Loading
<1>3. calls \in 0..MaxCalls /\ small \in BOOLEAN
  BY CallsAssumption DEF ConfigInit
<1>4. DOMAIN values = {}
  BY DEF ConfigInit
<1>5. scanner.array \in 0..Len(memory)
  BY <1>1, <1>2
<1> QED
  BY <1>1, <1>2, <1>3, <1>4, <1>5 DEF Shape

(* Every step keeps the shape.                                               *)
LEMMA ShapeStep == Shape /\ [ConfigNext]_configVars => Shape'
<1> SUFFICES ASSUME Shape, [ConfigNext]_configVars PROVE Shape'
  OBVIOUS
<1>1. CASE UNCHANGED configVars
  BY <1>1 DEF configVars, Shape, Loading, Buf
<1>2. CASE ConfigNext
  BY <1>2, LoadShape, ReadShape, GrowShape, LineShape, EndShape, SetShape DEF ConfigNext, LoadStep
<1> QED
  BY <1>1, <1>2

(* A value read through its place.                                           *)
DerefIn(mem, v) == SubSeq(mem[v.array], v.first, v.first + v.len - 1)

(* A value inside its array is text of its length.                           *)
LEMMA DerefFacts ==
  ASSUME NEW mem \in Seq(Seq(Cells)), NEW v, Inside(mem, v)
  PROVE  /\ DerefIn(mem, v) \in Seq(Cells) /\ Len(DerefIn(mem, v)) = v.len
         /\ \A i \in 1..v.len : /\ DerefIn(mem, v)[i] = mem[v.array][v.first + i - 1]
                                /\ DerefIn(mem, v)[i] # Unused
<1>1. PICK a \in Nat, f \in Nat \ {0}, l \in Nat : a = v.array /\ f = v.first /\ l = v.len
  BY DEF Inside, Place
<1>2. PICK s \in Seq(Cells) : s = mem[a]
  BY <1>1, ElementOfSeq DEF Inside
<1>3. PICK m \in Nat, n \in Nat : m + 1 = f /\ n = f + l - 1 /\ m <= n /\ n - m = l
  <2>1. f - 1 \in Nat /\ (f - 1) + 1 = f /\ f + l - 1 \in Nat /\ f - 1 <= f + l - 1 /\ (f + l - 1) - (f - 1) = l
    OBVIOUS
  <2> QED
    BY <2>1
<1>4. n <= Len(s) /\ \A k \in f..n : s[k] # Unused
  BY <1>1, <1>2, <1>3 DEF Inside
<1>5. DerefIn(mem, v) = SubSeq(s, m + 1, n)
  BY <1>1, <1>2, <1>3 DEF DerefIn
<1>6. SubSeq(s, m + 1, n) \in Seq(Cells) /\ IsSlice(SubSeq(s, m + 1, n), s, m, n)
  BY <1>3, <1>4, Slice
<1>7. \A i \in 1..l : m + i = f + i - 1 /\ m + i \in f..n
  BY <1>3
<1>8. \A i \in 1..l : DerefIn(mem, v)[i] = s[m + i]
  BY <1>3, <1>5, <1>6 DEF IsSlice
<1>9. \A i \in 1..l : DerefIn(mem, v)[i] = s[f + i - 1] /\ DerefIn(mem, v)[i] # Unused
  BY <1>4, <1>7, <1>8
<1> QED
  BY <1>1, <1>2, <1>3, <1>5, <1>6, <1>9 DEF IsSlice

(* The shape implies the type invariant.                                     *)
LEMMA ShapeMeans == Shape => ConfigTypeOK
<1> SUFFICES ASSUME Shape PROVE ConfigTypeOK
  OBVIOUS
<1>1. ASSUME NEW key \in DOMAIN values
      PROVE  /\ key \in Keys
             /\ values[key].array \in DOMAIN memory
             /\ values[key].first + values[key].len - 1 <= Len(memory[values[key].array])
             /\ ~Contains(Deref(values[key]), Unused)
  <2>1. PICK v \in Place : v = values[key] /\ Inside(memory, v)
    BY DEF Shape, Inside
  <2>2. ~Contains(Deref(v), Unused)
    <3>1. memory \in Seq(Seq(Cells)) /\ Deref(v) = DerefIn(memory, v)
      BY DEF Shape, Deref, DerefIn
    <3> QED
      BY <2>1, <3>1, DerefFacts DEF Contains
  <2>3. v.array \in DOMAIN memory
    <3>1. DOMAIN memory = 1..Len(memory)
      BY DEF Shape
    <3> QED
      BY <2>1, <3>1 DEF Inside
  <2> QED
    BY <2>1, <2>2, <2>3 DEF Inside, Shape
<1>2. Loading => scanner.start <= scanner.end /\ scanner.end <= Len(Buf)
  BY BufferTypes
<1> QED
  BY <1>1, <1>2 DEF ConfigTypeOK, Shape

(* For every file and every buffer size: the slices that doLoad puts into    *)
(* conf.values (config.go:114) and those of Set stay inside memory that was  *)
(* written, however the scanner shifts, refills and replaces its buffer      *)
(* afterwards.                                                               *)
THEOREM ConfigTypeCorrect == ConfigSpec => []ConfigTypeOK
  BY ShapeInit, ShapeStep, ShapeMeans, PTL DEF ConfigSpec

-----------------------------------------------------------------------------
(* What a text sets *)

(* A line is a part of its text, and reaches to the next newline.            *)
LEMMA LineFacts ==
  ASSUME NEW text \in Seq(Chars), NEW k \in DOMAIN text
  PROVE  /\ LineAt(text, k) \in Seq(Chars)
         /\ k + Len(LineAt(text, k)) - 1 <= Len(text)
         /\ \A i \in 1..Len(LineAt(text, k)) : LineAt(text, k)[i] = text[k + i - 1]
         /\ \A m \in Nat : k + m - 1 <= Len(text) /\ (\A i \in 1..m : text[k + i - 1] # Newline)
              => m <= Len(LineAt(text, k))
<1> DEFINE ends == {j \in Newlines(text) : j >= k}
<1>1. PICK size \in Nat : size = Len(text) /\ DOMAIN text = 1..size
  OBVIOUS
<1>2. ends \subseteq 1..size /\ \A j \in ends : j >= k /\ text[j] = Newline
  BY <1>1 DEF Newlines
<1>3. LineAt(text, k) = IF ends = {} THEN SubSeq(text, k, Len(text))
        ELSE SubSeq(text, k, (CHOOSE j \in ends : \A i \in ends : j <= i) - 1)
  BY DEF LineAt
<1> HIDE DEF ends
<1>4. PICK n \in Nat : /\ k <= n + 1 /\ n <= size /\ LineAt(text, k) = SubSeq(text, k, n)
                       /\ n = size \/ text[n + 1] = Newline
  <2>1. CASE ends = {}
    BY <1>1, <1>3, <2>1
  <2>2. CASE ends # {}
    <3>1. ends \in SUBSET Nat
      BY <1>2
    <3>2. PICK e \in ends : e = CHOOSE j \in ends : \A i \in ends : j <= i
      BY <2>2, <3>1, LeastNumber
    <3>3. e - 1 \in Nat /\ k <= (e - 1) + 1 /\ e - 1 <= size /\ (e - 1) + 1 = e
      BY <1>1, <1>2
    <3> QED
      BY <1>2, <1>3, <2>2, <3>2, <3>3
  <2> QED
    BY <2>1, <2>2
<1>5. PICK m \in Nat : m + 1 = k /\ m <= n /\ n <= Len(text)
  <2>1. k - 1 \in Nat /\ (k - 1) + 1 = k /\ k - 1 <= n
    BY <1>1, <1>4
  <2> QED
    BY <1>1, <1>4, <2>1
<1>6. SubSeq(text, m + 1, n) \in Seq(Chars) /\ IsSlice(SubSeq(text, m + 1, n), text, m, n)
  BY <1>5, Slice
<1>7. PICK line \in Seq(Chars), len \in Nat :
        /\ line = LineAt(text, k) /\ len = Len(line) /\ len = n - m
        /\ \A i \in 1..len : line[i] = text[m + i]
  BY <1>4, <1>5, <1>6 DEF IsSlice
<1>8. m + len = n
  <2>1. len = n - m
    BY <1>7
  <2> QED
    BY <2>1
<1>9. \A i \in Nat : k + i - 1 = m + i
  BY <1>5
<1>10. k + len - 1 <= size
  <2>1. k + len - 1 = m + len
    BY <1>9
  <2> QED
    BY <1>4, <1>8, <2>1
<1>11. \A i \in 1..len : line[i] = text[k + i - 1]
  <2>1. \A i \in 1..len : i \in Nat
    OBVIOUS
  <2> QED
    BY <1>7, <1>9, <2>1
<1>12. ASSUME NEW l \in Nat, k + l - 1 <= size, \A i \in 1..l : text[k + i - 1] # Newline PROVE l <= len
  <2>1. CASE l > len
    <3>1. len + 1 \in 1..l /\ k + (len + 1) - 1 = n + 1 /\ n # size
      <4>1. k + l - 1 = m + l /\ k + (len + 1) - 1 = m + (len + 1)
        BY <1>9
      <4> QED
        BY <1>8, <1>12, <2>1, <4>1
    <3> QED
      BY <1>4, <1>12, <3>1
  <2> QED
    BY <2>1
<1> QED
  BY <1>1, <1>7, <1>10, <1>11, <1>12

(* The next line is handed out: it is the only one more.                     *)
OneMore(text, pos, adv) ==
  \A key : \A j : j \in LinesOf(text, key) /\ j <= pos + adv <=>
    \/ j \in LinesOf(text, key) /\ j <= pos
    \/ j = pos + 1 /\ Matches(LineAt(text, pos + 1)) /\ text[pos + 1] = key

(* The line after pos is the only one between pos and pos + adv.             *)
LEMMA NextRead ==
  ASSUME NEW text \in Seq(Chars), NEW pos \in Nat, LineEnd(text, pos),
         NEW len \in Nat, NEW adv \in Nat, ComesNext(text, pos, len, adv), len < MaxTokenSize
  PROVE  LineEnd(text, pos + adv) /\ OneMore(text, pos, adv)
<1>1. /\ pos + 1 \in Starts(text)
      /\ \A j \in Starts(text) : j <= pos \/ j = pos + 1 \/ j > pos + adv
      /\ Len(LineAt(text, pos + 1)) = len
  BY NextLine DEF LineIs
<1>2. Starts(text) \subseteq Nat
  BY DEF Starts
<1>3. ASSUME NEW j \in Starts(text), j <= pos + adv PROVE j <= pos \/ j = pos + 1
  <2>1. ~(j > pos + adv)
    BY <1>2, <1>3
  <2> QED
    BY <1>1, <2>1
<1>4. ASSUME NEW j \in Starts(text), j <= pos + adv PROVE Len(LineAt(text, j)) < MaxTokenSize
  BY <1>1, <1>3, <1>4 DEF LineEnd
<1>5. LineEnd(text, pos + adv)
  BY <1>4 DEF LineEnd, ComesNext
<1>6. pos + 1 \in ReadLines(text)
  <2>1. \A j \in Starts(text) : j <= pos + 1 => j <= pos + adv
    BY <1>2 DEF ComesNext
  <2> QED
    BY <1>1, <1>4, <2>1 DEF ReadLines
<1>7. ASSUME NEW key, NEW j, j \in LinesOf(text, key), j <= pos + adv
      PROVE  \/ j \in LinesOf(text, key) /\ j <= pos
             \/ j = pos + 1 /\ Matches(LineAt(text, pos + 1)) /\ text[pos + 1] = key
  <2>1. j \in Starts(text) /\ Matches(LineAt(text, j)) /\ text[j] = key
    BY <1>7 DEF LinesOf, ReadLines
  <2> QED
    BY <1>3, <1>7, <2>1
<1>8. ASSUME NEW key, NEW j, j \in LinesOf(text, key), j <= pos PROVE j <= pos + adv
  <2>1. j \in Nat
    BY <1>2, <1>8 DEF LinesOf, ReadLines
  <2> QED
    BY <1>8, <2>1
<1>9. ASSUME NEW key, Matches(LineAt(text, pos + 1)), text[pos + 1] = key
      PROVE  pos + 1 \in LinesOf(text, key) /\ pos + 1 <= pos + adv
  BY <1>6, <1>9 DEF LinesOf, ComesNext
<1> QED
  BY <1>5, <1>7, <1>8, <1>9 DEF OneMore

(* The end of the file, or a line that is too long for the scanner.          *)
LEMMA AllRead ==
  ASSUME NEW text \in Seq(Chars), NEW pos \in Nat, LineEnd(text, pos), NEW m \in Nat,
         pos + m <= Len(text), \A i \in 1..m : text[pos + i] # Newline,
         pos = Len(text) \/ (m >= MaxTokenSize /\ m >= 1)
  PROVE  \A k \in ReadLines(text) : k <= pos
<1>1. PICK size \in Nat : size = Len(text) /\ DOMAIN text = 1..size
  OBVIOUS
<1>2. ReadLines(text) \subseteq Starts(text) /\ Starts(text) \subseteq 1..size
  BY <1>1 DEF ReadLines, Starts
<1>3. CASE pos = size
  BY <1>2, <1>3
<1>4. CASE pos # size /\ m >= MaxTokenSize /\ m >= 1
  <2>1. pos + 1 \in DOMAIN text /\ pos + 1 \in 1..size
    BY <1>1, <1>4
  <2>2. pos + 1 \in Starts(text)
    <3>1. CASE pos = 0
      BY <2>1, <3>1 DEF Starts
    <3>2. CASE pos # 0
      <4>1. pos \in DOMAIN text /\ text[pos] = Newline /\ (pos + 1) - 1 = pos
        BY <1>1, <1>4, <2>1, <3>2 DEF LineEnd
      <4> QED
        BY <2>1, <4>1 DEF Starts, Newlines
    <3> QED
      BY <3>1, <3>2
  <2>3. PICK k \in DOMAIN text : k = pos + 1
    BY <2>1
  <2>4. k + m - 1 <= Len(text) /\ \A i \in 1..m : text[k + i - 1] # Newline
    <3>1. \A i \in Nat : k + i - 1 = pos + i
      BY <2>3
    <3>2. \A i \in 1..m : i \in Nat
      OBVIOUS
    <3> QED
      BY <3>1, <3>2
  <2>5. LineAt(text, k) \in Seq(Chars) /\ m <= Len(LineAt(text, k))
    BY <2>4, LineFacts
  <2>6. ~(Len(LineAt(text, k)) < MaxTokenSize)
    <3>1. PICK l \in Nat, max \in Nat : l = Len(LineAt(text, k)) /\ max = MaxTokenSize
      BY <2>5, BufferAssumption
    <3> QED
      BY <1>4, <2>5, <3>1
  <2>7. ASSUME NEW j \in ReadLines(text) PROVE j <= pos
    <3>1. j \in Nat /\ ~(pos + 1 <= j)
      BY <1>2, <2>2, <2>3, <2>6 DEF ReadLines
    <3> QED
      BY <3>1
  <2> QED
    BY <2>7
<1> QED
  BY <1>1, <1>3, <1>4

-----------------------------------------------------------------------------
(* Reading on *)

(* A read keeps the text in order: what is pending moves as a whole, and     *)
(* what is read comes after it.                                              *)
LEMMA ReadAligned ==
  ASSUME Shape, Loading, NEW sh \in Nat, NEW n \in Nat, NEW new \in Seq(Cells), Refills(sh, n, new),
         NEW text \in Seq(Chars), NEW pos \in Nat, Aligned(Buf, scanner, text, pos)
  PROVE  Aligned(new, scanner', text, pos)
<1>1. PICK buf \in Seq(Cells), st \in Nat, en \in Nat, size \in Nat, rest \in Seq(Chars), r \in Nat :
        /\ buf = Buf /\ st = scanner.start /\ en = scanner.end /\ st <= en /\ en <= size
        /\ size = Len(buf) /\ rest = scanner.rest /\ r = Len(rest)
  <2>1. \A rest \in Seq(Chars) : Len(rest) \in Nat
    OBVIOUS
  <2> QED
    BY <2>1, BufferTypes
<1>2. /\ sh <= st /\ en - sh < size /\ n <= r /\ (en - sh) + n <= size
      /\ n = r \/ (en - sh) + n = size
      /\ Len(new) = size
      /\ \A k \in 1..size :
           /\ k <= en - sh => new[k] = buf[sh + k]
           /\ k > en - sh /\ k <= (en - sh) + n => new[k] = rest[k - (en - sh)]
  BY <1>1 DEF Refills
<1>3. PICK e \in Nat, s1 \in Nat, p \in Nat : /\ e = en - sh /\ s1 = st - sh /\ p = en - st /\ s1 + p = e
                                              /\ sh + s1 = st
  <2>1. sh <= st /\ st <= en
    BY <1>1, <1>2
  <2>2. en - sh \in Nat /\ st - sh \in Nat /\ en - st \in Nat /\ (st - sh) + (en - st) = en - sh
        /\ sh + (st - sh) = st
    BY <2>1
  <2> QED
    BY <2>2
<1>4. PICK rest1 \in Seq(Chars), r1 \in Nat : /\ rest1 = SubSeq(rest, n + 1, Len(rest)) /\ r1 = Len(rest1)
                                 /\ r1 = r - n /\ \A i \in 1..r1 : rest1[i] = rest[n + i]
  <2>1. n <= r /\ r <= Len(rest)
    BY <1>1, <1>2
  <2>2. SubSeq(rest, n + 1, r) \in Seq(Chars) /\ IsSlice(SubSeq(rest, n + 1, r), rest, n, r)
    BY <2>1, Slice
  <2> QED
    BY <1>1, <2>2 DEF IsSlice
<1>5. scanner'.start = s1 /\ scanner'.end = e + n /\ scanner'.rest = rest1 /\ scanner'.eof = (n = 0)
  BY <1>1, <1>3, <1>4 DEF Refills
<1>6. /\ pos + p + r = Len(text)
      /\ \A k \in 1..p : buf[st + k] = text[pos + k]
      /\ \A k \in 1..r : rest[k] = text[pos + p + k]
  BY <1>1, <1>3 DEF Aligned
<1>7. PICK p1 \in Nat : p1 = p + n /\ (e + n) - s1 = p1
  <2>1. p + n \in Nat /\ (e + n) - s1 = p + n
    BY <1>3
  <2> QED
    BY <2>1
<1>8. pos + p1 + r1 = Len(text)
  <2>1. r1 + n = r
    <3>1. r1 = r - n
      BY <1>4
    <3> QED
      BY <3>1
  <2>2. pos + p1 + r1 = pos + p + r
    BY <1>7, <2>1
  <2> QED
    BY <1>6, <2>2
<1>9. ASSUME NEW k \in 1..p1 PROVE new[s1 + k] = text[pos + k]
  <2>1. s1 + k \in 1..size
    BY <1>2, <1>3, <1>7
  <2>2. CASE k <= p
    <3>1. s1 + k <= e /\ k \in 1..p /\ sh + (s1 + k) = st + k
      BY <1>3, <2>2
    <3>2. new[s1 + k] = buf[sh + (s1 + k)]
      BY <1>2, <1>3, <2>1, <3>1
    <3> QED
      BY <1>6, <3>1, <3>2
  <2>3. CASE ~(k <= p)
    <3>1. s1 + k > e /\ s1 + k <= e + n /\ (s1 + k) - e = k - p
      BY <1>3, <1>7, <2>3
    <3>2. k - p \in 1..r /\ pos + p + (k - p) = pos + k
      BY <1>2, <1>7, <2>3
    <3>3. new[s1 + k] = rest[(s1 + k) - e]
      BY <1>2, <1>3, <2>1, <3>1
    <3> QED
      BY <1>6, <3>1, <3>2, <3>3
  <2> QED
    BY <2>2, <2>3
<1>10. ASSUME NEW k \in 1..r1 PROVE rest1[k] = text[pos + p1 + k]
  <2>1. n + k \in 1..r /\ pos + p + (n + k) = pos + p1 + k
    <3>1. r1 = r - n
      BY <1>4
    <3> QED
      BY <1>7, <3>1
  <2> QED
    BY <1>4, <1>6, <2>1
<1>11. ASSUME n = 0 PROVE rest1 = <<>> /\ e + n < Len(new)
  <2>1. r = 0
    BY <1>2, <1>3, <1>11
  <2>2. r1 = 0 /\ e + n < size
    BY <1>2, <1>3, <1>4, <1>11, <2>1
  <2> QED
    BY <1>2, <1>4, <2>2, EmptySeq
<1> QED
  <2>1. scanner'.end - scanner'.start = p1 /\ Len(scanner'.rest) = r1 /\ scanner'.rest = rest1
    BY <1>4, <1>5, <1>7
  <2>2. pos + (scanner'.end - scanner'.start) + Len(scanner'.rest) = Len(text)
    BY <1>8, <2>1
  <2>3. \A k \in 1..(scanner'.end - scanner'.start) : new[scanner'.start + k] = text[pos + k]
    BY <1>5, <1>9, <2>1
  <2>4. \A k \in 1..Len(scanner'.rest) : scanner'.rest[k] = text[pos + (scanner'.end - scanner'.start) + k]
    BY <1>10, <2>1
  <2>5. scanner'.eof => scanner'.rest = <<>> /\ scanner'.end < Len(new)
    BY <1>5, <1>11
  <2> QED
    BY <2>2, <2>3, <2>4, <2>5 DEF Aligned

(* A file that is small: with no line pending nothing was read yet, or all   *)
(* was handed out.                                                           *)
LEMMA NothingLeft ==
  ASSUME Shape, Loading, ~HasToken, NEW text \in Seq(Chars), NEW pos \in Nat,
         Unmoved(Buf, scanner, text, pos)
  PROVE  \/ pos = 0 /\ scanner.start = 0 /\ scanner.end = 0 /\ scanner.rest = text
         \/ /\ scanner.rest = <<>> /\ scanner.start = scanner.end /\ pos = Len(text)
            /\ \A k \in 1..Len(text) : Buf[k] = text[k]
            /\ scanner.end = Len(text) \/ scanner.end = 0
<1>1. PICK st \in Nat, en \in Nat, size \in Nat :
        /\ st = scanner.start /\ en = scanner.end /\ st <= en /\ size = Len(text)
  BY BufferTypes
<1>2. CASE scanner.rest = <<>> /\ (\A k \in 1..size : Buf[k] = text[k]) /\ en = size /\ st = pos
  <2>1. CASE st = en
    BY <1>1, <1>2, <2>1
  <2>2. CASE st # en
    <3>1. en - st \in 1..(en - st) /\ st + (en - st) = en /\ en \in 1..size /\ size # 0
      BY <1>1, <1>2, <2>2
    <3>2. text # <<>> /\ text[size] = Newline
      BY <1>1, <3>1, EmptySeq DEF Unmoved
    <3>3. Buf[st + (en - st)] # Newline
      BY <1>1, <3>1, NoTokenFacts
    <3> QED
      BY <1>2, <3>1, <3>2, <3>3
  <2> QED
    BY <2>1, <2>2
<1> QED
  BY <1>1, <1>2 DEF Unmoved

(* A read leaves the values of a small file alone: the first one comes       *)
(* before any line was handed out, the last one finds the end of the file    *)
(* and writes nothing.                                                       *)
LEMMA ReadKept ==
  ASSUME Shape, Loading, ~HasToken, NEW sh \in Nat, NEW n \in Nat, NEW new \in Seq(Cells), Refills(sh, n, new),
         values' = values, NEW text \in Seq(Chars), NEW old, NEW pos \in Nat, KeptSoFar(text, old, pos)
  PROVE  KeptSoFar(text, old, pos)'
<1>1. PICK buf \in Seq(Cells), st \in Nat, en \in Nat, size \in Nat, a \in Nat, l \in Nat :
        /\ buf = Buf /\ st = scanner.start /\ en = scanner.end /\ st <= en /\ en <= size
        /\ size = Len(buf) /\ a = scanner.array /\ a \in 1..Len(memory)
        /\ l = Len(text)
  <2>1. Len(text) \in Nat
    OBVIOUS
  <2> QED
    BY <2>1, BufferTypes
<1>2. Unmoved(buf, scanner, text, pos) /\ l <= size /\ (text = <<>> \/ text[l] = Newline)
  BY <1>1 DEF KeptSoFar, Unmoved
<1>3. /\ memory' = [memory EXCEPT ![a] = new] /\ scanner'.array = a /\ Len(new) = size
      /\ scanner'.rest = SubSeq(scanner.rest, n + 1, Len(scanner.rest))
      /\ scanner'.start = st - sh /\ scanner'.end = (en - sh) + n
      /\ sh \in {0, st} /\ n <= Len(scanner.rest) /\ (en - sh) + n <= size
      /\ n = Len(scanner.rest) \/ (en - sh) + n = size
      /\ \A k \in 1..size :
           /\ k <= en - sh => new[k] = buf[sh + k]
           /\ k > en - sh /\ k <= (en - sh) + n => new[k] = scanner.rest[k - (en - sh)]
           /\ k > (en - sh) + n => new[k] = buf[k]
  BY <1>1 DEF Refills
<1>4. DOMAIN memory = 1..Len(memory) /\ Buf' = new /\ \A i \in 1..Len(memory) : i # a => memory'[i] = memory[i]
  <2>1. DOMAIN memory = 1..Len(memory)
    BY DEF Shape
  <2> QED
    BY <1>1, <1>3, <2>1 DEF Buf
<1>5. ASSUME NEW key \in DOMAIN values, FromBefore(text, old, pos, key) PROVE FromBefore(text, old, pos, key)'
  <2>1. PICK v : v = values[key] /\ v.array \in 1..Len(memory)
    BY DEF Shape, Inside
  <2>2. Deref(v)' = Deref(v)
    BY <1>1, <1>4, <1>5, <2>1 DEF FromBefore, Deref
  <2> QED
    BY <1>1, <1>3, <1>5, <2>1, <2>2 DEF FromBefore
<1>6. ASSUME NEW key \in DOMAIN values, NEW k \in DOMAIN text, FromLine(text, pos, key, k)
      PROVE  FromLine(text, pos, key, k)'
  BY <1>1, <1>3, <1>6 DEF FromLine
<1>7. \A key \in DOMAIN values' :
        FromBefore(text, old, pos, key)' \/ \E k \in DOMAIN text : FromLine(text, pos, key, k)'
  BY <1>5, <1>6 DEF KeptSoFar
<1>8. Unmoved(new, scanner', text, pos)
  <2>1. CASE pos = 0 /\ st = 0 /\ en = 0 /\ scanner.rest = text
    <3>1. sh = 0 /\ en - sh = 0 /\ n = l /\ st - sh = 0 /\ (en - sh) + n = l
      BY <1>1, <1>2, <1>3, <2>1
    <3>2. \A k \in 1..l : k \in 1..size /\ k > 0 /\ k <= 0 + n /\ k - 0 = k
      BY <1>2, <3>1
    <3>3. \A k \in 1..l : new[k] = text[k]
      BY <1>3, <2>1, <3>1, <3>2
    <3>4. scanner'.rest = <<>>
      <4>1. l \in Int /\ l + 1 \in Int /\ l < l + 1
        OBVIOUS
      <4> QED
        BY <1>1, <1>3, <2>1, <3>1, <4>1, SubSeqEmpty
    <3> QED
      BY <1>1, <1>2, <1>3, <2>1, <3>1, <3>3, <3>4 DEF Unmoved
  <2>2. CASE /\ scanner.rest = <<>> /\ st = en /\ pos = l
             /\ \A k \in 1..l : buf[k] = text[k]
             /\ en = l \/ en = 0
    <3>1. Len(scanner.rest) = 0 /\ n = 0
      BY <1>3, <2>2
    <3>2. scanner'.rest = <<>>
      <4>1. n + 1 \in Int /\ 0 \in Int /\ 0 < n + 1
        BY <3>1
      <4> QED
        BY <1>3, <3>1, <4>1, SubSeqEmpty
    <3>3. ASSUME NEW k \in 1..size PROVE new[k] = buf[k]
      <4>1. CASE sh = 0
        <5>1. en - sh = en /\ (en - sh) + n = en /\ sh + k = k
          BY <3>1, <4>1
        <5>2. k <= en \/ k > en
          OBVIOUS
        <5> QED
          BY <1>3, <5>1, <5>2
      <4>2. CASE sh = st
        <5>1. (en - sh) + n = 0 /\ k > 0
          BY <2>2, <3>1, <4>2
        <5> QED
          BY <1>3, <5>1
      <4> QED
        BY <1>3, <4>1, <4>2
    <3>4. \A k \in 1..l : k \in 1..size
      BY <1>2
    <3>5. \A k \in 1..l : new[k] = text[k]
      BY <2>2, <3>3, <3>4
    <3>6. \/ scanner'.start = pos /\ scanner'.end = l
          \/ scanner'.start = 0 /\ scanner'.end = 0
      <4>1. CASE sh = 0
        <5>1. en - sh = en /\ (en - sh) + n = en /\ st - sh = st
          BY <3>1, <4>1
        <5> QED
          BY <1>3, <2>2, <5>1
      <4>2. CASE sh = st
        <5>1. (en - sh) + n = 0 /\ st - sh = 0
          BY <2>2, <3>1, <4>2
        <5> QED
          BY <1>3, <5>1
      <4> QED
        BY <1>3, <4>1, <4>2
    <3> QED
      BY <1>1, <1>2, <1>3, <2>2, <3>2, <3>5, <3>6 DEF Unmoved
  <2> QED
    BY <1>1, <1>2, <2>1, <2>2, NothingLeft
<1> QED
  BY <1>4, <1>7, <1>8 DEF KeptSoFar

-----------------------------------------------------------------------------
(* One step of a Load, and its beginning and end *)

(* What a step of the scanner leaves alone.                                  *)
LEMMA SameValues ==
  ASSUME NEW text, NEW old, NEW pos, SetSoFar(text, old, pos), written = Override(old, text),
         values' = values, written' = written
  PROVE  SetSoFar(text, old, pos)' /\ written' = Override(old, text)
  BY DEF SetSoFar

(* The types of what Busy speaks of.                                         *)
LEMMA BusyTypes ==
  ASSUME NEW text, NEW old, NEW pos, Busy(text, old, pos)
  PROVE  text \in Texts /\ text \in Seq(Chars) /\ pos \in Nat /\ Len(text) \in Nat
<1>1. text \in Seq(Chars) /\ pos \in Nat /\ text \in Texts
  BY TextTypes DEF Busy
<1> QED
  BY <1>1

(* A read changes no value and hands out no line.                            *)
LEMMA ReadBusy ==
  ASSUME Shape, ScanRead, NEW text, NEW old, NEW pos, Busy(text, old, pos)
  PROVE  Busy(text, old, pos)'
<1>1. /\ Loading /\ ~HasToken /\ values' = values /\ written' = written /\ small' = small
  BY DEF ScanRead
<1>2. text \in Seq(Chars) /\ pos \in Nat
  BY BusyTypes
<1>3. PICK sh \in Nat, n \in Nat, new \in Seq(Cells) : Refills(sh, n, new)
  BY ReadFacts
<1>4. Buf' = new
  <2>1. DOMAIN memory = 1..Len(memory) /\ scanner.array \in 1..Len(memory)
    BY <1>1, BufferTypes DEF Shape
  <2> QED
    BY <1>3, <2>1 DEF Buf, Refills
<1>5. Aligned(Buf', scanner', text, pos)
  <2>1. Aligned(Buf, scanner, text, pos)
    BY DEF Busy
  <2> QED
    BY <1>1, <1>2, <1>3, <1>4, <2>1, ReadAligned
<1>6. small => KeptSoFar(text, old, pos)'
  <2>1. small => KeptSoFar(text, old, pos)
    BY DEF Busy
  <2> QED
    BY <1>1, <1>2, <1>3, <2>1, ReadKept
<1>7. SetSoFar(text, old, pos)' /\ written' = Override(old, text)
  BY <1>1, SameValues DEF Busy
<1> QED
  BY <1>1, <1>5, <1>6, <1>7 DEF Busy

(* A larger buffer is a copy of the old one; a small file never needs one.   *)
LEMMA GrowBusy ==
  ASSUME Shape, ScanGrow, NEW text, NEW old, NEW pos, Busy(text, old, pos)
  PROVE  Busy(text, old, pos)'
<1>1. Loading /\ ~HasToken /\ ~scanner.eof /\ values' = values /\ written' = written /\ small' = small
  BY DEF ScanGrow
<1>2. text \in Seq(Chars) /\ pos \in Nat
  BY BusyTypes
<1>3. PICK new \in Seq(Cells) : Grows(new)
  BY GrowFacts
<1>4. PICK size \in Nat : size = Len(Buf) /\ size >= 1 /\ scanner.start = 0 /\ scanner.end = size
                          /\ \A k \in 1..size : new[k] = Buf[k]
  BY <1>1, <1>3, BufferTypes DEF Grows
<1>5. Buf' = new /\ /\ scanner'.start = 0 /\ scanner'.end = size /\ scanner'.rest = scanner.rest
                    /\ scanner'.eof = scanner.eof
  <2>1. scanner \in Scanners /\ scanner' = [scanner EXCEPT !.array = Len(memory) + 1]
    BY <1>3 DEF Shape, Grows
  <2>2. scanner'.array = Len(memory) + 1 /\ scanner'.start = 0 /\ scanner'.end = size
        /\ scanner'.rest = scanner.rest /\ scanner'.eof = scanner.eof
    BY <1>4, <2>1 DEF Scanners
  <2>3. memory'[Len(memory) + 1] = new
    BY <1>3, MoreMemory DEF Grows
  <2> QED
    BY <2>2, <2>3 DEF Buf
<1>6. Aligned(Buf', scanner', text, pos)
  <2>1. Aligned(Buf, scanner, text, pos)
    BY DEF Busy
  <2>2. size - 0 = size /\ \A k \in 1..size : 0 + k = k
    OBVIOUS
  <2>3. /\ pos + size + Len(scanner.rest) = Len(text)
        /\ \A k \in 1..size : Buf[k] = text[pos + k]
        /\ \A k \in 1..Len(scanner.rest) : scanner.rest[k] = text[pos + size + k]
    BY <1>4, <2>1, <2>2 DEF Aligned
  <2>4. \A k \in 1..size : new[0 + k] = text[pos + k]
    BY <1>4, <2>2, <2>3
  <2> QED
    BY <1>1, <1>5, <2>2, <2>3, <2>4 DEF Aligned
<1>7. ~small
  <2>1. CASE small
    <3>1. Unmoved(Buf, scanner, text, pos)
      BY <2>1 DEF Busy, KeptSoFar
    <3>2. scanner.start = scanner.end
      BY <1>1, <1>2, <3>1, NothingLeft
    <3> QED
      BY <1>4, <3>2
  <2> QED
    BY <2>1
<1>8. SetSoFar(text, old, pos)' /\ written' = Override(old, text)
  BY <1>1, SameValues DEF Busy
<1> QED
  BY <1>1, <1>6, <1>7, <1>8 DEF Busy

(* A turn of the loop: one line more was handed out, and if it sets a key    *)
(* its value is the last one.                                                *)
LEMMA LineBusy ==
  ASSUME Shape, LoadLine, NEW text, NEW old, NEW pos, Busy(text, old, pos), NEW adv \in Nat, adv = Advance
  PROVE  Busy(text, old, pos + adv)'
<1>1. Loading /\ HasToken /\ memory' = memory /\ written' = written /\ small' = small
  BY DEF LoadLine
<1>2. text \in Seq(Chars) /\ pos \in Nat /\ Len(text) \in Nat
  BY BusyTypes
<1>3. PICK buf \in Seq(Cells), st \in Nat, en \in Nat, size \in Nat, a \in Nat :
        /\ buf = Buf /\ st = scanner.start /\ en = scanner.end /\ st <= en /\ en <= size
        /\ size = Len(buf) /\ a = scanner.array /\ size <= MaxTokenSize
  BY <1>1, BufferTypes
<1>4. PICK t \in Seq(Cells), len \in Nat :
        /\ t = Token /\ len = Len(t)
        /\ adv >= 1 /\ st + adv <= en /\ len <= adv
        /\ \A k \in 1..len : t[k] = buf[st + k] /\ buf[st + k] # Newline
        /\ \/ adv = len + 1 /\ buf[st + adv] = Newline
           \/ adv = len /\ st + adv = en /\ scanner.eof
  BY <1>1, <1>3, TokenFacts
<1>5. PICK p \in Nat, r \in Nat :
        /\ p = en - st /\ r = Len(scanner.rest) /\ pos + p + r = Len(text)
        /\ \A k \in 1..p : buf[st + k] = text[pos + k]
        /\ \A k \in 1..r : scanner.rest[k] = text[pos + p + k]
        /\ scanner.eof => scanner.rest = <<>> /\ en < size
  <2>1. en - st \in Nat /\ Len(scanner.rest) \in Nat
    BY <1>1, <1>3, BufferTypes
  <2>2. Aligned(Buf, scanner, text, pos)
    BY DEF Busy
  <2> QED
    <3>1. /\ pos + (scanner.end - scanner.start) + Len(scanner.rest) = Len(text)
          /\ \A k \in 1..(scanner.end - scanner.start) : Buf[scanner.start + k] = text[pos + k]
          /\ \A k \in 1..Len(scanner.rest) :
               scanner.rest[k] = text[pos + (scanner.end - scanner.start) + k]
          /\ scanner.eof => scanner.rest = <<>> /\ scanner.end < Len(Buf)
      BY <2>2 DEF Aligned
    <3>2. PICK p \in Nat, r \in Nat : p = en - st /\ r = Len(scanner.rest)
      BY <2>1
    <3>3. p = scanner.end - scanner.start
      BY <1>3, <3>2
    <3>4. /\ pos + p + r = Len(text)
          /\ \A k \in 1..p : buf[st + k] = text[pos + k]
          /\ \A k \in 1..r : scanner.rest[k] = text[pos + p + k]
          /\ scanner.eof => scanner.rest = <<>> /\ en < size
      BY <1>3, <3>1, <3>2, <3>3
    <3> QED
      BY <3>2, <3>4
<1>6. st + p = en /\ adv <= p /\ pos + adv <= Len(text)
  <2>1. st + p = en
    BY <1>3, <1>5
  <2>2. adv <= p
    BY <1>4, <2>1
  <2>3. pos + adv <= pos + p + r
    BY <1>2, <2>2
  <2> QED
    BY <1>5, <2>1, <2>2, <2>3
<1>7. \A k \in 1..len : t[k] = text[pos + k] /\ text[pos + k] # Newline
  <2>1. \A k \in 1..len : k \in 1..p
    BY <1>4, <1>6
  <2> QED
    BY <1>4, <1>5, <2>1
<1>8. \/ adv = len + 1 /\ text[pos + adv] = Newline
      \/ adv = len /\ pos + adv = Len(text)
  <2>1. CASE adv = len + 1 /\ buf[st + adv] = Newline
    <3>1. adv \in 1..p
      BY <1>4, <1>6
    <3> QED
      BY <1>5, <2>1, <3>1
  <2>2. CASE adv = len /\ st + adv = en /\ scanner.eof
    <3>1. r = 0
      BY <1>5, <2>2
    <3>2. adv = p
      BY <1>6, <2>2
    <3> QED
      BY <1>2, <1>5, <2>2, <3>1, <3>2
  <2> QED
    BY <1>4, <2>1, <2>2
<1>9. len < MaxTokenSize
  <2>1. PICK max \in Nat : max = MaxTokenSize
    BY BufferAssumption
  <2>2. CASE adv = len + 1
    BY <1>3, <1>4, <2>1, <2>2
  <2>3. CASE adv = len /\ scanner.eof
    <3>1. en < size
      BY <1>5, <2>3
    <3> QED
      BY <1>3, <1>4, <2>1, <2>3, <3>1
  <2> QED
    BY <1>4, <2>2, <2>3
<1>10. LineEnd(text, pos)
  BY DEF Busy
<1>11. LineEnd(text, pos + adv) /\ OneMore(text, pos, adv) /\ ComesNext(text, pos, len, adv)
  <2>1. ComesNext(text, pos, len, adv)
    BY <1>4, <1>6, <1>7, <1>8 DEF ComesNext
  <2> QED
    BY <1>2, <1>9, <1>10, <2>1, NextRead
<1>12. t = LineAt(text, pos + 1)
  <2>1. /\ LineAt(text, pos + 1) \in Seq(Chars) /\ Len(LineAt(text, pos + 1)) = len
        /\ \A k \in 1..len : LineAt(text, pos + 1)[k] = text[pos + k]
    <3>1. LineIs(text, pos + 1, pos, len)
      BY <1>2, <1>10, <1>11, NextLine
    <3> QED
      BY <3>1 DEF LineIs
  <2>2. PICK line \in Seq(Chars) : line = LineAt(text, pos + 1)
    BY <2>1
  <2>3. Len(t) = Len(line) /\ \A i \in 1..Len(t) : t[i] = line[i]
    BY <1>4, <1>7, <2>1, <2>2
  <2> QED
    BY <2>2, <2>3, SameSequence
<1>13. Matches(t) => t[1] = text[pos + 1] /\ t[1] \in Keys
  <2>1. ASSUME Matches(t) PROVE t[1] = text[pos + 1] /\ t[1] \in Keys
    <3>1. 1 \in 1..len
      BY <1>4, <2>1 DEF Matches
    <3> QED
      BY <1>7, <2>1, <3>1 DEF Matches
  <2> QED
    BY <2>1
<1>14. ASSUME NEW key, NEW j
       PROVE  j \in LinesOf(text, key) /\ j <= pos + adv <=>
                (j \in LinesOf(text, key) /\ j <= pos) \/ (j = pos + 1 /\ Matches(t) /\ t[1] = key)
  BY <1>11, <1>12, <1>13 DEF OneMore
<1>15. \A key : SetBy(text, pos + adv, key) <=> SetBy(text, pos, key) \/ (Matches(t) /\ t[1] = key)
  BY <1>14 DEF SetBy
<1>16. scanner' = [scanner EXCEPT !.start = st + adv] /\ scanner \in Scanners
  BY <1>3 DEF LoadLine, Shape
<1>17. /\ scanner'.array = a /\ scanner'.start = st + adv /\ scanner'.end = en
       /\ scanner'.rest = scanner.rest /\ scanner'.eof = scanner.eof /\ Buf' = buf
  <2>1. /\ scanner'.array = a /\ scanner'.start = st + adv /\ scanner'.end = en
        /\ scanner'.rest = scanner.rest /\ scanner'.eof = scanner.eof
    BY <1>3, <1>16 DEF Scanners
  <2> QED
    BY <1>1, <1>3, <2>1 DEF Buf
<1>18. Aligned(Buf', scanner', text, pos + adv)
  <2>1. PICK q \in Nat : q = en - (st + adv) /\ q + adv = p
    <3>1. en - (st + adv) \in Nat /\ (en - (st + adv)) + adv = p
      BY <1>4, <1>6
    <3> QED
      BY <3>1
  <2>2. (pos + adv) + q = pos + p
    BY <1>2, <2>1
  <2>3. ASSUME NEW k \in 1..q PROVE buf[(st + adv) + k] = text[(pos + adv) + k]
    <3>1. adv + k \in 1..p /\ (st + adv) + k = st + (adv + k) /\ (pos + adv) + k = pos + (adv + k)
      BY <1>2, <2>1
    <3> QED
      BY <1>5, <3>1
  <2>4. (pos + adv) + q + r = Len(text)
    BY <1>5, <2>2
  <2>5. \A k \in 1..r : scanner.rest[k] = text[(pos + adv) + q + k]
    BY <1>5, <2>2
  <2> QED
    BY <1>3, <1>5, <1>17, <2>1, <2>3, <2>4, <2>5 DEF Aligned
<1>19. PICK place : place = [array |-> a, first |-> st + 2, len |-> ValueLen(t)]
  OBVIOUS
<1>20. values' = IF Matches(t) THEN [k \in DOMAIN values \cup {t[1]} |-> IF k = t[1] THEN place ELSE values[k]]
                 ELSE values
  BY <1>3, <1>4, <1>19 DEF LoadLine, Put
<1>21. \A key : key \in DOMAIN values' <=> key \in DOMAIN values \/ (Matches(t) /\ t[1] = key)
  BY <1>20
<1>22. SetSoFar(text, old, pos + adv)'
  <2>1. SetSoFar(text, old, pos)
    BY DEF Busy
  <2> QED
    BY <1>15, <1>21, <2>1 DEF SetSoFar
<1>23. ASSUME small PROVE KeptSoFar(text, old, pos + adv)'
  <2>1. KeptSoFar(text, old, pos)
    BY <1>23 DEF Busy
  <2>2. /\ Len(text) <= size /\ (text = <<>> \/ text[Len(text)] = Newline)
        /\ scanner.rest = <<>> /\ (\A k \in 1..Len(text) : buf[k] = text[k])
        /\ en = Len(text) /\ st = pos
    <3>1. ~(st = 0 /\ en = 0)
      BY <1>4
    <3> QED
      BY <1>3, <2>1, <3>1 DEF KeptSoFar, Unmoved
  <2>3. Unmoved(Buf', scanner', text, pos + adv)
    BY <1>3, <1>17, <2>2 DEF Unmoved
  <2>4. ASSUME NEW key \in DOMAIN values', Matches(t), t[1] = key
        PROVE  FromLine(text, pos + adv, key, pos + 1)'
    <3>1. values'[key] = place
      BY <1>20, <2>4
    <3>2. (pos + 1) + 1 = st + 2
      BY <1>2, <2>2
    <3>3. values'[key] = [array |-> scanner'.array, first |-> (pos + 1) + 1, len |-> ValueLen(LineAt(text, pos + 1))]
      BY <1>12, <1>17, <1>19, <3>1, <3>2
    <3>4. pos + 1 \in LinesOf(text, key) /\ pos + 1 <= pos + adv
      BY <1>14, <2>4
    <3>5. ASSUME NEW j \in LinesOf(text, key), j <= pos + adv PROVE j <= pos + 1
      <4>1. j \in Nat
        BY <1>2, <3>5 DEF LinesOf, ReadLines, Starts
      <4>2. j <= pos \/ j = pos + 1
        BY <1>14, <3>5
      <4> QED
        BY <1>2, <4>1, <4>2
    <3> QED
      BY <3>3, <3>4, <3>5 DEF FromLine
  <2>5. ASSUME NEW key \in DOMAIN values', ~(Matches(t) /\ t[1] = key)
        PROVE  FromBefore(text, old, pos + adv, key)' \/ \E k \in DOMAIN text : FromLine(text, pos + adv, key, k)'
    <3>1. key \in DOMAIN values /\ values'[key] = values[key]
      BY <1>20, <1>21, <2>5
    <3>2. CASE FromBefore(text, old, pos, key)
      <4>1. ~SetBy(text, pos + adv, key)
        BY <1>15, <2>5, <3>2 DEF FromBefore
      <4> QED
        BY <1>1, <1>3, <1>17, <3>1, <3>2, <4>1 DEF FromBefore, Deref
    <3>3. ASSUME NEW k \in DOMAIN text, FromLine(text, pos, key, k) PROVE FromLine(text, pos + adv, key, k)'
      <4>1. k \in LinesOf(text, key) /\ k <= pos + adv
        BY <1>14, <3>3 DEF FromLine
      <4>2. \A j \in LinesOf(text, key) : j <= pos + adv => j <= k
        BY <1>14, <2>5, <3>3 DEF FromLine
      <4> QED
        BY <1>3, <1>17, <3>1, <3>3, <4>1, <4>2 DEF FromLine
    <3> QED
      BY <2>1, <3>1, <3>2, <3>3 DEF KeptSoFar
  <2>6. pos + 1 \in DOMAIN text
    BY <1>2, <1>4, <1>6
  <2> QED
    BY <2>3, <2>4, <2>5, <2>6 DEF KeptSoFar
<1>24. pos + adv \in Nat /\ text \in Texts /\ DOMAIN old \subseteq Keys /\ written' = Override(old, text)
  BY <1>1, <1>2 DEF Busy
<1> QED
  BY <1>1, <1>11, <1>18, <1>22, <1>23, <1>24 DEF Busy

(* A Load starts at the beginning of the file, in an array that no value is  *)
(* in.                                                                       *)
LEMMA LoadBusy ==
  ASSUME Shape, Between, NEW text \in Texts, Load(text)
  PROVE  Loading' /\ \E old : Busy(text, old, 0)'
<1>1. text \in Seq(Chars) /\ Len(text) \in Nat
  BY TextTypes
<1>2. PICK old : old = written
  OBVIOUS
<1>3. DOMAIN values \subseteq Keys /\ DOMAIN values = DOMAIN old
  BY <1>2 DEF Shape, Between
<1>4. PICK new \in Seq(Cells) : new = [k \in 1..StartBufSize |-> Unused] /\ Len(new) = StartBufSize
  BY FirstBuffer
<1>5. memory' = Append(memory, new) /\ values' = values
  BY <1>4 DEF Load
<1>6. PICK n \in Nat : /\ n = Len(memory) /\ memory'[n + 1] = new
                       /\ \A i \in 1..n : memory'[i] = memory[i]
                       /\ \A key \in DOMAIN values : values[key].array \in 1..n
  BY <1>5, MoreMemory
<1>7. scanner' = [array |-> n + 1, start |-> 0, end |-> 0, rest |-> text, eof |-> FALSE]
  BY <1>6 DEF Load
<1>8. /\ scanner'.array = n + 1 /\ scanner'.start = 0 /\ scanner'.end = 0 /\ scanner'.rest = text
      /\ ~scanner'.eof /\ Buf' = new /\ Loading'
  <2>1. n + 1 # 0
    OBVIOUS
  <2>2. /\ scanner'.array = n + 1 /\ scanner'.start = 0 /\ scanner'.end = 0 /\ scanner'.rest = text
        /\ ~scanner'.eof
    BY <1>7
  <2> QED
    BY <1>6, <2>1, <2>2 DEF Buf, Loading
<1>9. Aligned(Buf', scanner', text, 0)
  <2>1. 0 - 0 = 0 /\ 0 + 0 + Len(text) = Len(text) /\ 1..0 = {} /\ \A k \in 1..Len(text) : 0 + 0 + k = k
    BY <1>1
  <2> QED
    BY <1>8, <2>1 DEF Aligned
<1>10. \A k \in Starts(text) : ~(k <= 0)
  BY <1>1 DEF Starts
<1>11. LineEnd(text, 0)
  BY <1>10 DEF LineEnd
<1>12. \A key : ~SetBy(text, 0, key)
  BY <1>10 DEF SetBy, LinesOf, ReadLines
<1>13. SetSoFar(text, old, 0)'
  BY <1>3, <1>5, <1>12 DEF SetSoFar
<1>14. written' = Override(old, text)
  BY <1>2 DEF Load, Override
<1>15. ASSUME small' PROVE KeptSoFar(text, old, 0)'
  <2>1. small /\ Len(text) <= StartBufSize /\ (text = <<>> \/ text[Len(text)] = Newline)
    BY <1>15 DEF Load, Last, Shape
  <2>2. Unmoved(Buf', scanner', text, 0)
    BY <1>4, <1>8, <2>1 DEF Unmoved
  <2>3. ASSUME NEW key \in DOMAIN values PROVE FromBefore(text, old, 0, key)'
    <3>1. PICK v : v = values[key] /\ v.array \in 1..n
      BY <1>6
    <3>2. v.array # n + 1
      BY <3>1
    <3>3. Deref(v)' = Deref(v)
      BY <1>6, <3>1 DEF Deref
    <3>4. Deref(v) = old[key]
      BY <1>2, <2>1, <3>1 DEF Between
    <3> QED
      BY <1>5, <1>8, <1>12, <3>1, <3>2, <3>3, <3>4 DEF FromBefore
  <2> QED
    BY <1>5, <2>2, <2>3 DEF KeptSoFar
<1>16. Busy(text, old, 0)'
  BY <1>3, <1>9, <1>11, <1>13, <1>14, <1>15 DEF Busy
<1> QED
  BY <1>8, <1>16

(* A value that a line of a small file set stands where it was read.         *)
LEMMA LineKept ==
  ASSUME Shape, Loading, NEW text \in Seq(Chars), NEW pos \in Nat,
         Unmoved(Buf, scanner, text, pos), NEW key \in DOMAIN values, NEW k \in DOMAIN text,
         FromLine(text, pos, key, k)
  PROVE  Deref(values[key]) = SubSeq(LineAt(text, k), 2, ValueLen(LineAt(text, k)) + 1)
<1>1. PICK size \in Nat : size = Len(text) /\ k \in 1..size
  OBVIOUS
<1>2. \A j \in 1..size : Buf[j] = text[j]
  <2>1. k <= pos /\ pos # 0
    BY <1>1 DEF FromLine
  <2> QED
    BY <1>1, <2>1 DEF Unmoved
<1>3. PICK line \in Seq(Chars), l \in Nat :
        /\ line = LineAt(text, k) /\ l = Len(line) /\ k + l - 1 <= size
        /\ \A i \in 1..l : line[i] = text[k + i - 1]
  <2>1. PICK line \in Seq(Chars) : line = LineAt(text, k)
    BY LineFacts
  <2>2. Len(line) \in Nat
    OBVIOUS
  <2> QED
    BY <1>1, <2>1, <2>2, LineFacts
<1>4. Matches(line) /\ l >= 2
  BY <1>3 DEF FromLine, LinesOf, Matches
<1>5. PICK v \in Nat : v = ValueLen(line) /\ v + 1 <= l
  <2>1. Len(line) >= 1
    BY <1>3, <1>4
  <2> QED
    BY <1>3, <2>1, ValueFits
<1>6. PICK w : w = values[key] /\ w.array = scanner.array /\ w.first = k + 1 /\ w.len = v
  <2>1. values[key] = [array |-> scanner.array, first |-> k + 1, len |-> ValueLen(LineAt(text, k))]
    BY DEF FromLine
  <2>2. values[key] = [array |-> scanner.array, first |-> k + 1, len |-> v]
    BY <1>3, <1>5, <2>1
  <2>3. PICK w : w = [array |-> scanner.array, first |-> k + 1, len |-> v]
    OBVIOUS
  <2>4. w.array = scanner.array /\ w.first = k + 1 /\ w.len = v
    BY <2>3
  <2> QED
    BY <2>2, <2>3, <2>4
<1>7. Inside(memory, w) /\ memory \in Seq(Seq(Cells))
  BY <1>6 DEF Shape
<1>8. PICK d \in Seq(Cells) : /\ d = DerefIn(memory, w) /\ Len(d) = v
                              /\ \A i \in 1..v : d[i] = Buf[(k + 1) + i - 1]
  <2>1. memory[w.array] = Buf
    BY <1>6 DEF Buf
  <2>2. /\ DerefIn(memory, w) \in Seq(Cells) /\ Len(DerefIn(memory, w)) = w.len
        /\ \A i \in 1..w.len : DerefIn(memory, w)[i] = memory[w.array][w.first + i - 1]
    BY <1>7, DerefFacts
  <2>3. PICK d \in Seq(Cells) : d = DerefIn(memory, w)
    BY <2>2
  <2>4. Len(d) = w.len /\ \A i \in 1..w.len : d[i] = memory[w.array][w.first + i - 1]
    BY <2>2, <2>3
  <2>5. Len(d) = v /\ \A i \in 1..v : d[i] = Buf[(k + 1) + i - 1]
    BY <1>6, <2>1, <2>4
  <2> QED
    BY <2>3, <2>5
<1>9. Deref(values[key]) = d
  BY <1>6, <1>8 DEF Deref, DerefIn
<1>10. PICK s \in Seq(Chars) : /\ s = SubSeq(line, 2, v + 1) /\ Len(s) = v /\ \A i \in 1..v : s[i] = line[1 + i]
  <2>1. PICK m \in Nat : m = v + 1 /\ 1 \in Nat /\ 1 <= m /\ m <= Len(line) /\ m - 1 = v /\ 1 + 1 = 2
    BY <1>3, <1>5
  <2>2. SubSeq(line, 1 + 1, m) \in Seq(Chars) /\ IsSlice(SubSeq(line, 1 + 1, m), line, 1, m)
    BY <2>1, Slice
  <2>3. SubSeq(line, 2, v + 1) \in Seq(Chars) /\ IsSlice(SubSeq(line, 2, v + 1), line, 1, m)
    BY <2>1, <2>2
  <2> QED
    BY <2>1, <2>3 DEF IsSlice
<1>11. ASSUME NEW i \in 1..v PROVE d[i] = s[i]
  <2>1. k + i \in 1..size /\ (k + 1) + i - 1 = k + i /\ 1 + i \in 1..l /\ k + (1 + i) - 1 = k + i
    BY <1>1, <1>3, <1>5, SMTT(30)
  <2>2. d[i] = text[k + i]
    BY <1>2, <1>8, <2>1
  <2>3. s[i] = text[k + i]
    BY <1>3, <1>10, <2>1
  <2> QED
    BY <2>2, <2>3
<1>12. d = s
  BY <1>8, <1>10, <1>11, SameSequence
<1> QED
  BY <1>3, <1>5, <1>9, <1>10, <1>12

(* At the end of a Load every line was handed out, or the next one is too    *)
(* long, so the settings are those the text says.                            *)
LEMMA EndBetween ==
  ASSUME Shape, LoadEnd, NEW text, NEW old, NEW pos, Busy(text, old, pos)
  PROVE  ~Loading' /\ Between'
<1>1. /\ Loading /\ ~HasToken /\ scanner' = Idle
      /\ UNCHANGED <<values, memory, written, small>>
  BY DEF LoadEnd
<1>2. text \in Seq(Chars) /\ pos \in Nat /\ Len(text) \in Nat
  BY BusyTypes
<1>3. PICK st \in Nat, en \in Nat, size \in Nat, r \in Nat :
        /\ st = scanner.start /\ en = scanner.end /\ st <= en /\ size = Len(Buf)
        /\ r = Len(scanner.rest) /\ size >= 1
  <2>1. \A rest \in Seq(Chars) : Len(rest) \in Nat
    OBVIOUS
  <2> QED
    BY <1>1, <2>1, BufferTypes
<1>4. PICK p \in Nat : /\ p = en - st /\ pos + p + r = Len(text)
                       /\ \A k \in 1..p : text[pos + k] # Newline
  <2>1. en - st \in Nat
    BY <1>3
  <2>2. Aligned(Buf, scanner, text, pos)
    BY DEF Busy
  <2>3. \A k \in 1..(en - st) : Buf[st + k] = text[pos + k] /\ Buf[st + k] # Newline
    BY <1>1, <1>3, <2>2, NoTokenFacts DEF Aligned
  <2> QED
    BY <1>3, <2>1, <2>2, <2>3 DEF Aligned
<1>5. pos = Len(text) \/ (p >= MaxTokenSize /\ p >= 1)
  <2>1. CASE scanner.eof
    <3>1. en = st /\ r = 0
      BY <1>1, <1>3, <2>1, NoTokenFacts DEF Busy, Aligned
    <3> QED
      BY <1>2, <1>3, <1>4, <3>1
  <2>2. CASE ~scanner.eof
    <3>1. ShiftedEnd = size /\ size >= MaxTokenSize
      BY <1>3, <2>2 DEF LoadEnd
    <3>2. st = 0 /\ en = size
      BY <1>1, <1>3, <3>1, ShiftFacts
    <3>3. p = size
      BY <1>4, <3>2
    <3> QED
      BY <1>3, <3>1, <3>3
  <2> QED
    BY <2>1, <2>2
<1>6. \A k \in ReadLines(text) : k <= pos
  <2>1. pos + p <= Len(text)
    BY <1>2, <1>4
  <2>2. LineEnd(text, pos)
    BY DEF Busy
  <2> QED
    BY <1>2, <1>4, <1>5, <2>1, <2>2, AllRead
<1>7. \A key : \A k \in LinesOf(text, key) : k <= pos
  BY <1>6 DEF LinesOf
<1>8. \A key : SetBy(text, pos, key) <=> LinesOf(text, key) # {}
  BY <1>7 DEF SetBy
<1>9. \A key : key \in DOMAIN Says(text) <=> key \in Keys /\ LinesOf(text, key) # {}
  BY DEF Says
<1>10. DOMAIN values \subseteq Keys /\ DOMAIN old \subseteq Keys
  BY DEF Shape, Busy
<1>11. /\ DOMAIN written = DOMAIN old \cup DOMAIN Says(text)
       /\ \A key \in DOMAIN written :
            written[key] = IF key \in DOMAIN Says(text) THEN Says(text)[key] ELSE old[key]
  <2>1. written = Override(old, text)
    BY DEF Busy
  <2> QED
    BY <2>1 DEF Override
<1>12. DOMAIN values = DOMAIN written
  <2>1. \A key \in Keys : key \in DOMAIN values <=> key \in DOMAIN old \/ SetBy(text, pos, key)
    BY DEF Busy, SetSoFar
  <2>2. \A key \in Keys : key \in DOMAIN values <=> key \in DOMAIN written
    BY <1>8, <1>9, <1>11, <2>1
  <2>3. DOMAIN written \subseteq Keys
    BY <1>9, <1>10, <1>11
  <2> QED
    BY <1>10, <2>2, <2>3
<1>13. ASSUME small, NEW key \in DOMAIN values PROVE Deref(values[key]) = written[key]
  <2>1. KeptSoFar(text, old, pos)
    BY <1>13 DEF Busy
  <2>2. CASE FromBefore(text, old, pos, key)
    BY <1>8, <1>9, <1>11, <1>12, <2>2 DEF FromBefore
  <2>3. ASSUME NEW k \in DOMAIN text, FromLine(text, pos, key, k) PROVE Deref(values[key]) = written[key]
    <3>1. k \in LinesOf(text, key) /\ \A j \in LinesOf(text, key) : j <= k
      BY <1>7, <2>3 DEF FromLine
    <3>2. key \in DOMAIN Says(text)
      BY <1>9, <1>10, <3>1
    <3>3. PICK c : c = CHOOSE i \in LinesOf(text, key) : \A j \in LinesOf(text, key) : j <= i
      OBVIOUS
    <3>4. c = k
      <4>1. c \in LinesOf(text, key) /\ \A j \in LinesOf(text, key) : j <= c
        BY <3>1, <3>3
      <4>2. c \in Nat /\ k \in Nat /\ c <= k /\ k <= c
        BY <1>2, <3>1, <4>1 DEF LinesOf, ReadLines, Starts
      <4> QED
        BY <4>2
    <3>5. Says(text)[key] = SubSeq(LineAt(text, c), 2, ValueLen(LineAt(text, c)) + 1)
      BY <3>2, <3>3 DEF Says
    <3>6. Deref(values[key]) = SubSeq(LineAt(text, k), 2, ValueLen(LineAt(text, k)) + 1)
      BY <1>1, <1>2, <2>1, <2>3, LineKept DEF KeptSoFar
    <3> QED
      BY <1>11, <1>12, <3>2, <3>4, <3>5, <3>6
  <2> QED
    BY <2>1, <2>2, <2>3 DEF KeptSoFar
<1>14. ~Loading'
  BY <1>1, IdleType DEF Loading
<1>15. Between'
  BY <1>1, <1>12, <1>13 DEF Between, Deref
<1> QED
  BY <1>14, <1>15

(* Set changes the value of its key and no other.                            *)
LEMMA SetBetween ==
  ASSUME Shape, Between, NEW key \in Keys, NEW value \in SetValues, Set(key, value)
  PROVE  ~Loading' /\ Between'
<1>1. /\ scanner' = scanner /\ small' = small /\ ~Loading /\ memory' = Append(memory, value)
      /\ written' = [k \in DOMAIN written \cup {key} |-> IF k = key THEN value ELSE written[k]]
  BY DEF Set, Put
<1>2. value \in Seq(Chars) /\ value \in Seq(Cells) /\ Len(value) \in Nat /\ Shape'
  <2>1. value \in Seq(Chars) /\ Shape'
    BY SetShape
  <2>2. value \in Seq(Cells)
    BY <2>1, TextTypes, SeqMonotonic
  <2> QED
    BY <2>1, <2>2
<1>3. PICK n \in Nat : /\ n = Len(memory) /\ memory'[n + 1] = value
                       /\ \A i \in 1..n : memory'[i] = memory[i]
                       /\ \A k \in DOMAIN values : values[k].array \in 1..n
  BY <1>1, <1>2, MoreMemory
<1>4. PICK w : w = [array |-> n + 1, first |-> 1, len |-> Len(value)]
  OBVIOUS
<1>5. values' = [k \in DOMAIN values \cup {key} |-> IF k = key THEN w ELSE values[k]]
  BY <1>3, <1>4 DEF Set, Put
<1>6. DOMAIN values' = DOMAIN written'
  BY <1>1, <1>5 DEF Between
<1>7. Deref(w)' = value
  <2>1. PICK l \in Nat : l = Len(value) /\ 1 + l - 1 = l
    BY <1>2
  <2>2. Deref(w)' = SubSeq(value, 1, l)
    BY <1>3, <1>4, <2>1 DEF Deref
  <2> QED
    BY <1>2, <2>1, <2>2, SubSeqFull
<1>8. ASSUME NEW k \in DOMAIN values, small PROVE Deref(values[k])' = written[k] \/ values'[k] # values[k]
  <2>1. PICK v : v = values[k] /\ v.array \in 1..n
    BY <1>3
  <2>2. Deref(v)' = Deref(v) /\ Deref(v) = written[k]
    BY <1>3, <1>8, <2>1 DEF Deref, Between
  <2> QED
    BY <2>1, <2>2 DEF Deref
<1>9. ASSUME NEW k \in DOMAIN values', small PROVE Deref(values[k])' = written'[k]
  <2>1. CASE k = key
    <3>1. values'[k] = w /\ written'[k] = value
      BY <1>1, <1>5, <1>9, <2>1
    <3> QED
      BY <1>7, <3>1 DEF Deref
  <2>2. CASE k # key
    <3>1. k \in DOMAIN values /\ values'[k] = values[k] /\ written'[k] = written[k]
      BY <1>1, <1>5, <1>6, <2>2
    <3> QED
      BY <1>8, <1>9, <3>1
  <2> QED
    BY <2>1, <2>2
<1>10. ~Loading'
  BY <1>1 DEF Loading
<1> QED
  BY <1>1, <1>6, <1>9, <1>10 DEF Between

-----------------------------------------------------------------------------
(* The invariant of Load *)

(* The invariant.                                                            *)
LoadInv == IF Loading THEN \E text, old, pos : Busy(text, old, pos) ELSE Between

(* It holds initially,                                                       *)
LEMMA LoadInvInit == ConfigInit => LoadInv
<1> SUFFICES ASSUME ConfigInit PROVE LoadInv
  OBVIOUS
<1>1. ~Loading
  BY IdleType DEF ConfigInit, Loading
<1>2. DOMAIN values = {} /\ DOMAIN written = {}
  BY DEF ConfigInit
<1> QED
  BY <1>1, <1>2 DEF LoadInv, Between

(* is kept by every step                                                     *)
LEMMA LoadInvStep == Shape /\ LoadInv /\ [ConfigNext]_configVars => LoadInv'
<1> SUFFICES ASSUME Shape, LoadInv, [ConfigNext]_configVars PROVE LoadInv'
  OBVIOUS
<1>1. CASE UNCHANGED configVars
  BY <1>1 DEF configVars, LoadInv, Loading, Between, Busy, Buf, SetSoFar, KeptSoFar, FromBefore, FromLine, Deref
<1>2. ASSUME NEW text \in Texts, Load(text) PROVE LoadInv'
  <2>1. Between
    BY <1>2 DEF LoadInv, Load
  <2>2. Loading' /\ \E old : Busy(text, old, 0)'
    BY <1>2, <2>1, LoadBusy
  <2> QED
    BY <2>2 DEF LoadInv
<1>3. CASE LoadStep
  <2>1. Loading
    BY <1>3 DEF LoadStep, ScanRead, ScanGrow, LoadLine, LoadEnd
  <2>2. PICK text, old, pos : Busy(text, old, pos)
    BY <2>1 DEF LoadInv
  <2>3. CASE ScanRead
    <3>1. Busy(text, old, pos)'
      BY <2>2, <2>3, ReadBusy
    <3>2. Loading'
      BY <2>1, <2>3 DEF ScanRead, Loading
    <3> QED
      BY <3>1, <3>2 DEF LoadInv
  <2>4. CASE ScanGrow
    <3>1. Busy(text, old, pos)'
      BY <2>2, <2>4, GrowBusy
    <3>2. Loading'
      <4>1. scanner \in Scanners /\ memory \in Seq(Seq(Cells))
        BY DEF Shape
      <4>2. Len(memory) + 1 # 0
        BY <4>1
      <4>3. scanner'.array = Len(memory) + 1
        BY <2>4, <4>1 DEF ScanGrow, Scanners
      <4> QED
        BY <4>2, <4>3 DEF Loading
    <3> QED
      BY <3>1, <3>2 DEF LoadInv
  <2>5. CASE LoadLine
    <3>1. PICK adv \in Nat : adv = Advance
      BY <2>5, TokenFacts DEF LoadLine
    <3>2. Busy(text, old, pos + adv)'
      BY <2>2, <2>5, <3>1, LineBusy
    <3>3. Loading'
      <4>1. scanner \in Scanners /\ scanner' = [scanner EXCEPT !.start = @ + Advance]
        BY <2>5 DEF Shape, LoadLine
      <4> QED
        BY <2>1, <4>1 DEF Scanners, Loading
    <3> QED
      BY <3>2, <3>3 DEF LoadInv
  <2>6. CASE LoadEnd
    BY <2>2, <2>6, EndBetween DEF LoadInv
  <2> QED
    BY <1>3, <2>3, <2>4, <2>5, <2>6 DEF LoadStep
<1>4. ASSUME NEW key \in Keys, NEW value \in SetValues, Set(key, value) PROVE LoadInv'
  <2>1. Between
    BY <1>4 DEF LoadInv, Set
  <2> QED
    BY <1>4, <2>1, SetBetween DEF LoadInv
<1> QED
  BY <1>1, <1>2, <1>3, <1>4 DEF ConfigNext

(* and implies the property: the getters see the same values.                *)
LEMMA LoadInvMeans == LoadInv => SmallFilesAreKept
<1> SUFFICES ASSUME LoadInv, ~Loading PROVE /\ DOMAIN values = DOMAIN written
                                            /\ small => LoadKeepsValues
  BY DEF SmallFilesAreKept
<1>1. Between
  BY DEF LoadInv
<1>2. ASSUME small PROVE LoadKeepsValues
  <2>1. \A key \in Keys : Get(key) = Written(key)
    BY <1>1, <1>2 DEF Between, Get, Written
  <2>2. [key \in Keys |-> Get(key)] = [key \in Keys |-> Written(key)]
    BY <2>1
  <2> QED
    BY <2>2 DEF LoadKeepsValues
<1> QED
  BY <1>1, <1>2 DEF Between

(* For every sequence of calls of Load and Set: the keys set are those the   *)
(* files and the calls of Set name, lines after one that is too long for the *)
(* scanner aside; and while every file fits into the first buffer and ends   *)
(* in a newline, every getter returns what was said last.  So doLoad may     *)
(* keep slices of the scanner's buffer (config.go:114) as long as nothing is *)
(* moved in it; config_alias shows what happens otherwise.                   *)
THEOREM SmallFilesKeepValues == ConfigSpec => []SmallFilesAreKept
<1>1. ConfigSpec => []Shape
  BY ShapeInit, ShapeStep, PTL DEF ConfigSpec
<1>2. ConfigSpec => []LoadInv
  BY <1>1, LoadInvInit, LoadInvStep, PTL DEF ConfigSpec
<1> QED
  BY <1>2, LoadInvMeans, PTL
=============================================================================
