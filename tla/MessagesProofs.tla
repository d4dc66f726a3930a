--------------------------- MODULE MessagesProofs ---------------------------
(***************************************************************************)
(* That no read is in a block that another read has or that is free, and   *)
(* that the client reads from every message that is whole and has no other *)
(* marks the two paths the driver meant, whatever the block held before.   *)
(***************************************************************************)
EXTENDS Messages, SequenceTheorems, TLAPS

-----------------------------------------------------------------------------
(* Texts *)

LEMMA Marks ==
    /\ RenamePrefix \in Text /\ Len(RenamePrefix) = 5
    /\ RenamePrefix[1] = "." /\ RenamePrefix[2] = "^"
    /\ RenamePrefix[3] = "^" /\ RenamePrefix[4] = "^"
    /\ RenamePrefix[5] = "."
    /\ RenameSuffix \in Text /\ Len(RenameSuffix) = 4
    /\ RenameSuffix[1] = "." /\ RenameSuffix[2] = "^"
    /\ RenameSuffix[3] = "^" /\ RenameSuffix[4] = "^"
<1>1. "." \in Char /\ "^" \in Char
  BY NamesAssumption
<1>2. QED
  BY <1>1 DEF RenamePrefix, RenameSuffix, Text

PrefixHere(t, i) ==
    /\ t[i - 4] = "." /\ t[i - 3] = "^" /\ t[i - 2] = "^"
    /\ t[i - 1] = "^" /\ t[i] = "."

SuffixHere(t, i) ==
    t[i - 3] = "." /\ t[i - 2] = "^" /\ t[i - 1] = "^" /\ t[i] = "^"

\* The marks, character by character.
LEMMA PrefixAt ==
    ASSUME NEW t \in Text, NEW i \in 5 .. Len(t)
    PROVE  EndsAt(t, i, RenamePrefix) <=> PrefixHere(t, i)
<1>1. Len(RenamePrefix) = 5
  BY DEF RenamePrefix
<1>2. SubSeq(t, i - 4, i) \in Seq(Char) /\ Len(SubSeq(t, i - 4, i)) = 5
  BY DEF Text
<1>3. \A k \in 1 .. 5 : SubSeq(t, i - 4, i)[k] = t[i - 5 + k]
  BY DEF Text
<1>4. SubSeq(t, i - 4, i) = RenamePrefix <=>
        \A k \in 1 .. 5 : SubSeq(t, i - 4, i)[k] = RenamePrefix[k]
  <2>1. RenamePrefix \in Seq(Char)
    BY Marks DEF Text
  <2> DEFINE u == SubSeq(t, i - 4, i)
  <2>2. ASSUME \A k \in 1 .. 5 : u[k] = RenamePrefix[k] PROVE u = RenamePrefix
    <3>1. Len(u) = Len(RenamePrefix) /\ \A k \in 1 .. Len(u) : u[k] = RenamePrefix[k]
      BY <1>1, <1>2, <2>2
    <3>2. u \in Seq(Char)
      BY <1>2
    <3> HIDE DEF u
    <3>3. QED
      BY <2>1, <3>1, <3>2, SeqEqual, Zenon
  <2>3. QED
    BY <2>2
<1>5. QED
  BY <1>1, <1>3, <1>4 DEF EndsAt, RenamePrefix, PrefixHere

LEMMA SuffixAt ==
    ASSUME NEW t \in Text, NEW i \in 4 .. Len(t)
    PROVE  EndsAt(t, i, RenameSuffix) <=> SuffixHere(t, i)
<1>1. Len(RenameSuffix) = 4
  BY DEF RenameSuffix
<1>2. SubSeq(t, i - 3, i) \in Seq(Char) /\ Len(SubSeq(t, i - 3, i)) = 4
  BY DEF Text
<1>3. \A k \in 1 .. 4 : SubSeq(t, i - 3, i)[k] = t[i - 4 + k]
  BY DEF Text
<1>4. SubSeq(t, i - 3, i) = RenameSuffix <=>
        \A k \in 1 .. 4 : SubSeq(t, i - 3, i)[k] = RenameSuffix[k]
  <2>1. RenameSuffix \in Seq(Char)
    BY Marks DEF Text
  <2> DEFINE u == SubSeq(t, i - 3, i)
  <2>2. ASSUME \A k \in 1 .. 4 : u[k] = RenameSuffix[k] PROVE u = RenameSuffix
    <3>1. Len(u) = Len(RenameSuffix) /\ \A k \in 1 .. Len(u) : u[k] = RenameSuffix[k]
      BY <1>1, <1>2, <2>2
    <3>2. u \in Seq(Char)
      BY <1>2
    <3> HIDE DEF u
    <3>3. QED
      BY <2>1, <3>1, <3>2, SeqEqual, Zenon
  <2>3. QED
    BY <2>2
<1>5. QED
  BY <1>1, <1>3, <1>4 DEF EndsAt, RenameSuffix, SuffixHere

\* A text in which a mark is not found has it nowhere.
LEMMA NotFound ==
    ASSUME NEW t \in Text, NEW mark \in Text, Len(mark) > 0,
           ~FindSubString(t, mark),
           NEW i \in 1 .. Len(t)
    PROVE  ~EndsAt(t, i, mark)
<1>1. SUFFICES ASSUME EndsAt(t, i, mark) PROVE FALSE
  OBVIOUS
<1>2. Len(mark) \in Nat /\ i >= Len(mark)
  BY <1>1 DEF EndsAt, Text
<1> DEFINE k == i - Len(mark)
<1>3. k \in 0 .. Len(t) - Len(mark)
  BY <1>2 DEF Text
<1>4. SubSeq(t, k + 1, k + Len(mark)) = mark
  BY <1>1, <1>2 DEF EndsAt, Text
<1>5. QED
  BY <1>3, <1>4 DEF FindSubString

LEMMA Joined ==
    ASSUME NEW s \in Text, NEW t \in Text
    PROVE  /\ s \o t \in Text
           /\ Len(s) \in Nat /\ Len(t) \in Nat
           /\ Len(s \o t) = Len(s) + Len(t)
           /\ \A i \in 1 .. Len(s) : (s \o t)[i] = s[i]
           /\ \A i \in 1 .. Len(t) : (s \o t)[Len(s) + i] = t[i]
<1>1. Len(s) \in Nat /\ Len(t) \in Nat
  BY DEF Text
<1>2. /\ s \o t \in Text
      /\ Len(s \o t) = Len(s) + Len(t)
      /\ \A i \in 1 .. Len(s) + Len(t) :
           (s \o t)[i] = IF i <= Len(s) THEN s[i] ELSE t[i - Len(s)]
  BY ConcatProperties DEF Text
<1>3. QED
  BY <1>1, <1>2

\* A held path in the directory w, and what the client's buffer has when it
\* held a longer text before.
HeldText(w, n) == w \o (RenamePrefix \o n \o RenameSuffix)

BufferText(w, n, rest) == HeldText(w, n) \o rest

HasLayout(w, n, rest) ==
    LET h == HeldText(w, n)
        t == BufferText(w, n, rest)
        l == Len(w)
        m == Len(n)
    IN  /\ h \in Text /\ t \in Text /\ l \in Nat /\ m \in Nat
        /\ Len(h) = l + m + 9
        /\ Len(t) = l + m + 9 + Len(rest)
        /\ \A i \in 1 .. l + m + 9 : t[i] = h[i]
        /\ \A i \in 1 .. l : h[i] = w[i]
        /\ h[l + 1] = "." /\ h[l + 2] = "^" /\ h[l + 3] = "^"
        /\ h[l + 4] = "^" /\ h[l + 5] = "."
        /\ \A i \in 1 .. m : h[l + 5 + i] = n[i]
        /\ h[l + m + 6] = "." /\ h[l + m + 7] = "^"
        /\ h[l + m + 8] = "^" /\ h[l + m + 9] = "^"

\* Where everything is in the text of a held path and what follows it.
LEMMA Layout ==
    ASSUME NEW w \in Text, NEW n \in Text, NEW rest \in Text
    PROVE  HasLayout(w, n, rest)
<1> DEFINE l == Len(w)
           m == Len(n)
           a == RenamePrefix \o n
           b == a \o RenameSuffix
           h == w \o b
           t == h \o rest
<1>1. /\ RenamePrefix \in Text /\ Len(RenamePrefix) = 5
      /\ RenamePrefix[1] = "." /\ RenamePrefix[2] = "^"
      /\ RenamePrefix[3] = "^" /\ RenamePrefix[4] = "^"
      /\ RenamePrefix[5] = "."
      /\ RenameSuffix \in Text /\ Len(RenameSuffix) = 4
      /\ RenameSuffix[1] = "." /\ RenameSuffix[2] = "^"
      /\ RenameSuffix[3] = "^" /\ RenameSuffix[4] = "^"
  BY Marks
<1>2. l \in Nat /\ m \in Nat /\ Len(rest) \in Nat
  BY DEF Text
<1>3. /\ a \in Text /\ Len(a) = m + 5
      /\ \A i \in 1 .. 5 : a[i] = RenamePrefix[i]
      /\ \A i \in 1 .. m : a[5 + i] = n[i]
  <2>1. /\ RenamePrefix \o n \in Text
        /\ Len(RenamePrefix) \in Nat /\ Len(n) \in Nat
        /\ Len(RenamePrefix \o n) = Len(RenamePrefix) + Len(n)
        /\ \A i \in 1 .. Len(RenamePrefix) : (RenamePrefix \o n)[i] = RenamePrefix[i]
        /\ \A i \in 1 .. Len(n) : (RenamePrefix \o n)[Len(RenamePrefix) + i] = n[i]
    BY <1>1, Joined, Zenon
  <2> HIDE DEF a
  <2>2. a = RenamePrefix \o n
    BY DEF a
  <2>3. QED
    BY <1>1, <2>1, <2>2
<1>4. /\ b \in Text /\ Len(b) = m + 9
      /\ \A i \in 1 .. m + 5 : b[i] = a[i]
      /\ \A i \in 1 .. 4 : b[m + 5 + i] = RenameSuffix[i]
  <2> HIDE DEF a
  <2>1. /\ a \o RenameSuffix \in Text
        /\ Len(a) \in Nat /\ Len(RenameSuffix) \in Nat
        /\ Len(a \o RenameSuffix) = Len(a) + Len(RenameSuffix)
        /\ \A i \in 1 .. Len(a) : (a \o RenameSuffix)[i] = a[i]
        /\ \A i \in 1 .. Len(RenameSuffix) : (a \o RenameSuffix)[Len(a) + i] = RenameSuffix[i]
    BY <1>1, <1>3, Joined, Zenon
  <2> HIDE DEF b
  <2>2. b = a \o RenameSuffix
    BY DEF b
  <2>3. QED
    BY <1>1, <1>2, <1>3, <2>1, <2>2
<1>5. /\ h \in Text /\ Len(h) = l + m + 9
      /\ \A i \in 1 .. l : h[i] = w[i]
      /\ \A i \in 1 .. m + 9 : h[l + i] = b[i]
  <2> HIDE DEF b
  <2>1. /\ w \o b \in Text
        /\ Len(w) \in Nat /\ Len(b) \in Nat
        /\ Len(w \o b) = Len(w) + Len(b)
        /\ \A i \in 1 .. Len(w) : (w \o b)[i] = w[i]
        /\ \A i \in 1 .. Len(b) : (w \o b)[Len(w) + i] = b[i]
    BY <1>4, Joined, Zenon
  <2> HIDE DEF h
  <2>2. h = w \o b
    BY DEF h
  <2>3. QED
    BY <1>2, <1>4, <2>1, <2>2
<1>6. /\ t \in Text /\ Len(t) = l + m + 9 + Len(rest)
      /\ \A i \in 1 .. l + m + 9 : t[i] = h[i]
  <2> HIDE DEF h
  <2>1. /\ h \o rest \in Text
        /\ Len(h) \in Nat /\ Len(rest) \in Nat
        /\ Len(h \o rest) = Len(h) + Len(rest)
        /\ \A i \in 1 .. Len(h) : (h \o rest)[i] = h[i]
        /\ \A i \in 1 .. Len(rest) : (h \o rest)[Len(h) + i] = rest[i]
    BY <1>5, Joined, Zenon
  <2> HIDE DEF t
  <2>2. t = h \o rest
    BY DEF t
  <2>3. QED
    BY <1>2, <1>5, <2>1, <2>2
<1>7. /\ h[l + 1] = "." /\ h[l + 2] = "^" /\ h[l + 3] = "^"
      /\ h[l + 4] = "^" /\ h[l + 5] = "."
  <2> HIDE DEF a, b, h
  <2>1. \A i \in 1 .. 5 : h[l + i] = RenamePrefix[i]
    <3>1. TAKE i \in 1 .. 5
    <3>2. i \in 1 .. m + 9 /\ i \in 1 .. m + 5
      BY <1>2
    <3>3. h[l + i] = b[i] /\ b[i] = a[i] /\ a[i] = RenamePrefix[i]
      BY <1>3, <1>4, <1>5, <3>2
    <3>4. QED
      BY <3>3
  <2>2. QED
    BY <1>1, <2>1
<1>8. \A i \in 1 .. m : h[l + 5 + i] = n[i]
  <2> HIDE DEF a, b, h
  <2>1. TAKE i \in 1 .. m
  <2>2. i + 5 \in 1 .. m + 9 /\ i + 5 \in 1 .. m + 5
    BY <1>2
  <2>3. h[l + (i + 5)] = b[i + 5] /\ b[i + 5] = a[i + 5] /\ a[5 + i] = n[i]
    BY <1>3, <1>4, <1>5, <2>2
  <2>4. QED
    BY <1>2, <2>3
<1>9. /\ h[l + m + 6] = "." /\ h[l + m + 7] = "^"
      /\ h[l + m + 8] = "^" /\ h[l + m + 9] = "^"
  <2> HIDE DEF a, b, h
  <2>1. \A i \in 1 .. 4 : h[l + m + 5 + i] = RenameSuffix[i]
    <3>1. TAKE i \in 1 .. 4
    <3>2. m + 5 + i \in 1 .. m + 9
      BY <1>2
    <3>3. h[l + (m + 5 + i)] = b[m + 5 + i] /\ b[m + 5 + i] = RenameSuffix[i]
      BY <1>4, <1>5, <3>2
    <3>4. QED
      BY <1>2, <3>3
  <2>2. QED
    BY <1>1, <1>2, <2>1
<1>10. QED
  BY <1>2, <1>5, <1>6, <1>7, <1>8, <1>9 DEF Text, HeldText, BufferText, HasLayout

\* The first prefix in the text of a held path is the shield's ...
LEMMA FirstPrefix ==
    ASSUME NEW w \in Text, NEW n \in Text, NEW rest \in Text,
           ~FindSubString(w \o <<".">>, RenamePrefix)
    PROVE  LET t == BufferText(w, n, rest)
           IN  /\ EndsAt(t, Len(w) + 5, RenamePrefix)
               /\ \A i \in 5 .. Len(w) + 4 : ~EndsAt(t, i, RenamePrefix)
<1> DEFINE h == HeldText(w, n)
           t == BufferText(w, n, rest)
           l == Len(w)
           m == Len(n)
<1>1. /\ h \in Text /\ t \in Text /\ l \in Nat /\ m \in Nat
      /\ Len(h) = l + m + 9
      /\ Len(t) = l + m + 9 + Len(rest)
      /\ \A i \in 1 .. l + m + 9 : t[i] = h[i]
      /\ \A i \in 1 .. l : h[i] = w[i]
      /\ h[l + 1] = "." /\ h[l + 2] = "^" /\ h[l + 3] = "^"
      /\ h[l + 4] = "^" /\ h[l + 5] = "."
      /\ \A i \in 1 .. m : h[l + 5 + i] = n[i]
      /\ h[l + m + 6] = "." /\ h[l + m + 7] = "^"
      /\ h[l + m + 8] = "^" /\ h[l + m + 9] = "^"
  <2>1. HasLayout(w, n, rest)
    BY Layout
  <2>2. QED
    BY <2>1 DEF HasLayout
<1>2. Len(rest) \in Nat
  BY DEF Text
<1> HIDE DEF h, t
<1>3. EndsAt(t, l + 5, RenamePrefix)
  <2>1. l + 5 \in 5 .. Len(t)
    BY <1>1, <1>2
  <2>2. /\ t[(l + 5) - 4] = "." /\ t[(l + 5) - 3] = "^" /\ t[(l + 5) - 2] = "^"
        /\ t[(l + 5) - 1] = "^" /\ t[l + 5] = "."
    BY <1>1
  <2>3. QED
    BY <1>1, <2>1, <2>2, PrefixAt DEF PrefixHere
<1>4. ASSUME NEW i \in 5 .. l + 4 PROVE ~EndsAt(t, i, RenamePrefix)
  <2> DEFINE x == w \o <<".">>
  <2>1. /\ x \in Text /\ Len(x) = l + 1
        /\ \A k \in 1 .. l : x[k] = w[k]
        /\ x[l + 1] = "."
    <3>1. <<".">> \in Text /\ Len(<<".">>) = 1 /\ <<".">>[1] = "."
      BY NamesAssumption DEF Text
    <3>2. QED
      BY <1>1, <3>1, Joined
  <2>2. \A k \in 1 .. l + 1 : t[k] = x[k]
    BY <1>1, <2>1
  <2> HIDE DEF x
  <2>3. i \in 5 .. Len(t)
    BY <1>1, <1>2
  <2>4. CASE i <= l + 1
    <3>1. i \in 5 .. Len(x) /\ i \in 1 .. Len(x)
      BY <2>1, <2>4
    <3>2. ~EndsAt(x, i, RenamePrefix)
      <4>1. ~FindSubString(x, RenamePrefix)
        BY DEF x
      <4>2. Len(RenamePrefix) > 0
        BY Marks
      <4>3. QED
        BY <2>1, <3>1, <4>1, <4>2, NotFound, Marks
    <3>3. EndsAt(x, i, RenamePrefix) <=> PrefixHere(x, i)
      BY <2>1, <3>1, PrefixAt
    <3>4. EndsAt(t, i, RenamePrefix) <=> PrefixHere(t, i)
      BY <1>1, <2>3, PrefixAt
    <3>5. PrefixHere(t, i) <=> PrefixHere(x, i)
      <4>1. /\ i - 4 \in 1 .. l + 1 /\ i - 3 \in 1 .. l + 1
            /\ i - 2 \in 1 .. l + 1 /\ i - 1 \in 1 .. l + 1
            /\ i \in 1 .. l + 1
        BY <1>1, <2>4
      <4>2. QED
        BY <2>2, <4>1 DEF PrefixHere
    <3>6. QED
      BY <3>2, <3>3, <3>4, <3>5
  <2>5. CASE i > l + 1
    <3>1. t[i] = "^"
      <4>1. i \in {l + 2, l + 3, l + 4}
        BY <1>1, <2>5
      <4>2. i \in 1 .. l + m + 9
        BY <1>1, <4>1
      <4>3. h[i] = "^"
        BY <1>1, <4>1
      <4>4. QED
        BY <1>1, <4>2, <4>3
    <3>2. QED
      BY <1>1, <2>3, <3>1, PrefixAt DEF PrefixHere
  <2>6. QED
    BY <1>1, <2>4, <2>5
<1>5. QED
  BY <1>3, <1>4 DEF t, h

\* ... and so is the first suffix after that.
LEMMA FirstSuffix ==
    ASSUME NEW w \in Text, NEW n \in Text, NEW rest \in Text,
           ~FindSubString(<<".">> \o n, RenameSuffix)
    PROVE  LET t == BufferText(w, n, rest)
               last == Len(w) + Len(n) + 9
           IN  /\ EndsAt(t, last, RenameSuffix)
               /\ \A i \in Len(w) + 6 .. last - 1 : ~EndsAt(t, i, RenameSuffix)
<1> DEFINE h == HeldText(w, n)
           t == BufferText(w, n, rest)
           l == Len(w)
           m == Len(n)
<1>1. /\ h \in Text /\ t \in Text /\ l \in Nat /\ m \in Nat
      /\ Len(h) = l + m + 9
      /\ Len(t) = l + m + 9 + Len(rest)
      /\ \A i \in 1 .. l + m + 9 : t[i] = h[i]
      /\ \A i \in 1 .. l : h[i] = w[i]
      /\ h[l + 1] = "." /\ h[l + 2] = "^" /\ h[l + 3] = "^"
      /\ h[l + 4] = "^" /\ h[l + 5] = "."
      /\ \A i \in 1 .. m : h[l + 5 + i] = n[i]
      /\ h[l + m + 6] = "." /\ h[l + m + 7] = "^"
      /\ h[l + m + 8] = "^" /\ h[l + m + 9] = "^"
  <2>1. HasLayout(w, n, rest)
    BY Layout
  <2>2. QED
    BY <2>1 DEF HasLayout
<1>2. Len(rest) \in Nat
  BY DEF Text
<1> HIDE DEF h, t
<1>3. EndsAt(t, l + m + 9, RenameSuffix)
  <2>1. l + m + 9 \in 4 .. Len(t)
    BY <1>1, <1>2
  <2>2. /\ t[(l + m + 9) - 3] = "." /\ t[(l + m + 9) - 2] = "^"
        /\ t[(l + m + 9) - 1] = "^" /\ t[l + m + 9] = "^"
    BY <1>1
  <2>3. QED
    BY <1>1, <2>1, <2>2, SuffixAt DEF SuffixHere
<1>4. ASSUME NEW i \in l + 6 .. l + m + 8 PROVE ~EndsAt(t, i, RenameSuffix)
  <2> DEFINE y == <<".">> \o n
  <2>1. /\ y \in Text /\ Len(y) = m + 1
        /\ y[1] = "."
        /\ \A k \in 1 .. m : y[1 + k] = n[k]
    <3>1. <<".">> \in Text /\ Len(<<".">>) = 1 /\ <<".">>[1] = "."
      BY NamesAssumption DEF Text
    <3>2. QED
      BY <1>1, <3>1, Joined
  <2>2. \A k \in 1 .. m + 1 : t[l + 4 + k] = y[k]
    <3>1. TAKE k \in 1 .. m + 1
    <3>2. CASE k = 1
      BY <1>1, <2>1, <3>2
    <3>3. CASE k # 1
      <4> DEFINE j == k - 1
      <4>1. j \in 1 .. m /\ k = 1 + j /\ l + 4 + k = l + 5 + j
        BY <1>1, <3>3
      <4> HIDE DEF j, y
      <4>2. t[l + 5 + j] = h[l + 5 + j] /\ h[l + 5 + j] = n[j]
        <5>1. l + 5 + j \in 1 .. l + m + 9
          BY <1>1, <4>1
        <5>2. QED
          BY <1>1, <4>1, <5>1
      <4>3. QED
        BY <2>1, <4>1, <4>2
    <3>4. QED
      BY <3>2, <3>3
  <2> HIDE DEF y
  <2>3. i \in 4 .. Len(t)
    BY <1>1, <1>2
  <2>4. CASE i - 3 >= l + 5 /\ i <= l + m + 5
    <3> DEFINE k == i - l - 4
    <3>1. k \in 4 .. Len(y) /\ k \in 1 .. Len(y)
      BY <1>1, <2>1, <2>4
    <3>2. ~EndsAt(y, k, RenameSuffix)
      <4>1. ~FindSubString(y, RenameSuffix)
        BY DEF y
      <4>2. Len(RenameSuffix) > 0
        BY Marks
      <4> HIDE DEF k
      <4>3. QED
        BY <2>1, <3>1, <4>1, <4>2, NotFound, Marks
    <3>3. /\ t[i - 3] = y[k - 3] /\ t[i - 2] = y[k - 2]
          /\ t[i - 1] = y[k - 1] /\ t[i] = y[k]
      <4>1. /\ k - 3 \in 1 .. m + 1 /\ k - 2 \in 1 .. m + 1
            /\ k - 1 \in 1 .. m + 1 /\ k \in 1 .. m + 1
            /\ l + 4 + (k - 3) = i - 3 /\ l + 4 + (k - 2) = i - 2
            /\ l + 4 + (k - 1) = i - 1 /\ l + 4 + k = i
        BY <1>1, <2>4
      <4> HIDE DEF k
      <4>2. QED
        BY <2>2, <4>1
    <3> HIDE DEF k
    <3>4. EndsAt(y, k, RenameSuffix) <=> SuffixHere(y, k)
      BY <2>1, <3>1, SuffixAt
    <3>5. EndsAt(t, i, RenameSuffix) <=> SuffixHere(t, i)
      BY <1>1, <2>3, SuffixAt
    <3>6. SuffixHere(t, i) <=> SuffixHere(y, k)
      BY <3>3 DEF SuffixHere
    <3>7. QED
      BY <3>2, <3>4, <3>5, <3>6
  <2>5. CASE i - 3 < l + 5
    <3>1. t[i - 3] = "^"
      BY <1>1, <2>5
    <3>2. QED
      BY <1>1, <2>3, <3>1, SuffixAt DEF SuffixHere
  <2>6. CASE i > l + m + 5
    <3>1. t[i] = "." \/ t[i - 1] = "." \/ t[i - 2] = "."
      <4>1. \/ i = l + m + 6
            \/ i - 1 = l + m + 6
            \/ i - 2 = l + m + 6
        <5>1. l \in Nat /\ m \in Nat /\ i \in Int
          BY <1>1
        <5>2. i > l + m + 5 /\ i <= l + m + 8
          BY <2>6
        <5> HIDE DEF l, m
        <5>3. QED
          BY <5>1, <5>2
      <4>2. t[l + m + 6] = "."
        BY <1>1
      <4>3. QED
        BY <4>1, <4>2
    <3>2. QED
      BY <1>1, <2>3, <3>1, SuffixAt DEF SuffixHere
  <2>7. QED
    BY <1>1, <2>4, <2>5, <2>6
<1>5. QED
  BY <1>3, <1>4 DEF t, h

LEMMA LeastElement ==
    ASSUME NEW S \in SUBSET Int, NEW m \in S, \A x \in S : m <= x
    PROVE  Min(S) = m
<1>1. Min(S) \in S /\ \A y \in S : Min(S) =< y
  <2>1. \E x \in S : \A y \in S : x =< y
    OBVIOUS
  <2>2. QED
    BY <2>1, Zenon DEF Min
<1>2. Min(S) \in Int /\ m \in Int /\ Min(S) <= m /\ m <= Min(S)
  BY <1>1
<1>3. QED
  BY <1>2

\* So a loop that gets as far as the suffix finds both paths.
LEMMA Reading ==
    ASSUME NEW w \in Text, NEW n \in Text, NEW rest \in Text,
           NEW limit \in Nat, Len(w) + Len(n) + 9 <= limit,
           ~FindSubString(w \o <<".">>, RenamePrefix),
           ~FindSubString(<<".">> \o n, RenameSuffix)
    PROVE  PathsUpTo(limit, BufferText(w, n, rest)) =
             [valid |-> TRUE, from |-> HeldText(w, n), to |-> w \o n]
<1> DEFINE h == HeldText(w, n)
           t == BufferText(w, n, rest)
           l == Len(w)
           m == Len(n)
<1>1. /\ h \in Text /\ t \in Text /\ l \in Nat /\ m \in Nat
      /\ Len(h) = l + m + 9
      /\ Len(t) = l + m + 9 + Len(rest)
      /\ \A i \in 1 .. l + m + 9 : t[i] = h[i]
      /\ \A i \in 1 .. l : h[i] = w[i]
      /\ h[l + 1] = "." /\ h[l + 2] = "^" /\ h[l + 3] = "^"
      /\ h[l + 4] = "^" /\ h[l + 5] = "."
      /\ \A i \in 1 .. m : h[l + 5 + i] = n[i]
      /\ h[l + m + 6] = "." /\ h[l + m + 7] = "^"
      /\ h[l + m + 8] = "^" /\ h[l + m + 9] = "^"
  <2>1. HasLayout(w, n, rest)
    BY Layout
  <2>2. QED
    BY <2>1 DEF HasLayout
<1>2. Len(rest) \in Nat
  BY DEF Text
<1> DEFINE last == IF Len(t) < limit THEN Len(t) ELSE limit
           starts == {i \in 5 .. last : EndsAt(t, i, RenamePrefix)}
           pre == Min(starts)
           ends == {i \in pre + 1 .. last : EndsAt(t, i, RenameSuffix)}
           post == Min(ends)
<1>3. last \in Nat /\ last >= l + m + 9 /\ last <= Len(t)
  BY <1>1, <1>2
<1>4. /\ EndsAt(t, l + 5, RenamePrefix)
      /\ \A i \in 5 .. l + 4 : ~EndsAt(t, i, RenamePrefix)
  BY FirstPrefix
<1>5. /\ EndsAt(t, l + m + 9, RenameSuffix)
      /\ \A i \in l + 6 .. l + m + 8 : ~EndsAt(t, i, RenameSuffix)
  <2>1. (l + m + 9) - 1 = l + m + 8
    BY <1>1
  <2>2. QED
    BY <2>1, FirstSuffix
<1> HIDE DEF h, t, last
<1>6. starts # {} /\ pre = l + 5
  <2>1. starts \in SUBSET Int /\ l + 5 \in starts
    BY <1>1, <1>3, <1>4
  <2>2. \A x \in starts : l + 5 <= x
    BY <1>1, <1>3, <1>4
  <2> HIDE DEF starts
  <2>3. QED
    BY <2>1, <2>2, LeastElement
<1> HIDE DEF pre
<1>7. ends # {} /\ post = l + m + 9
  <2>1. ends \in SUBSET Int /\ l + m + 9 \in ends
    BY <1>1, <1>3, <1>5, <1>6
  <2>2. \A x \in ends : l + m + 9 <= x
    BY <1>1, <1>3, <1>5, <1>6
  <2> HIDE DEF ends
  <2>3. QED
    BY <2>1, <2>2, LeastElement
<1> HIDE DEF post
<1>8. SubSeq(t, 1, post) = h
  <2> DEFINE u == SubSeq(t, 1, l + m + 9)
  <2>1. /\ u \in Seq(Char) /\ Len(u) = l + m + 9
        /\ \A i \in 1 .. l + m + 9 : u[i] = t[i]
    <3>1. \A i \in 1 .. l + m + 9 : t[i] \in Char
      BY <1>1, <1>2, ElementOfSeq DEF Text
    <3>2. QED
      BY <1>1, <1>2, <3>1, SubSeqProperties
  <2> HIDE DEF u
  <2>2. h \in Seq(Char) /\ Len(u) = Len(h) /\ \A i \in 1 .. Len(u) : u[i] = h[i]
    BY <1>1, <2>1 DEF Text
  <2>3. u = h
    BY <2>1, <2>2, SeqEqual, Zenon
  <2>4. QED
    BY <1>7, <2>3 DEF u
<1>9. SubSeq(t, 1, pre - 5) = w
  <2> DEFINE u == SubSeq(t, 1, l)
  <2>1. /\ u \in Seq(Char) /\ Len(u) = l
        /\ \A i \in 1 .. l : u[i] = t[i]
    <3>1. \A i \in 1 .. l : t[i] \in Char
      BY <1>1, <1>2, ElementOfSeq DEF Text
    <3>2. QED
      BY <1>1, <1>2, <3>1, SubSeqProperties
  <2> HIDE DEF u
  <2>2. w \in Seq(Char) /\ Len(u) = Len(w) /\ \A i \in 1 .. Len(u) : u[i] = w[i]
    BY <1>1, <2>1 DEF Text
  <2>3. u = w
    BY <2>1, <2>2, SeqEqual, Zenon
  <2>4. pre - 5 = l
    BY <1>1, <1>6
  <2>5. QED
    BY <2>3, <2>4 DEF u
<1>10. Characters(t, pre + 1, post - pre - 4) = n
  <2> DEFINE u == SubSeq(t, l + 6, l + 5 + m)
  <2>1. /\ u \in Seq(Char) /\ Len(u) = m
        /\ \A i \in 1 .. m : u[i] = t[l + 5 + i]
    <3>1. \A i \in l + 6 .. l + 5 + m : t[i] \in Char
      BY <1>1, <1>2, ElementOfSeq DEF Text
    <3>2. l + 6 \in Int /\ l + 5 + m \in Int
      BY <1>1
    <3>3. /\ u \in Seq(Char)
          /\ Len(u) = IF l + 6 <= l + 5 + m THEN (l + 5 + m) - (l + 6) + 1 ELSE 0
          /\ \A i \in 1 .. (l + 5 + m) - (l + 6) + 1 :
               u[i] = t[(l + 6) + i - 1]
      <4> HIDE DEF t
      <4>1. QED
        BY <3>1, <3>2, SubSeqProperties
    <3> HIDE DEF u
    <3>4. m \in Nat /\ l \in Nat
      BY <1>1
    <3>5. (l + 5 + m) - (l + 6) + 1 = m
      BY <3>4
    <3>6. ASSUME NEW i \in 1 .. m PROVE u[i] = t[l + 5 + i]
      <4>1. (l + 6) + i - 1 = l + 5 + i
        BY <3>4
      <4>2. QED
        BY <3>3, <3>5, <4>1
    <3>7. Len(u) = m
      BY <3>3, <3>4
    <3>8. QED
      BY <3>3, <3>6, <3>7
  <2> HIDE DEF u
  <2>2. n \in Seq(Char) /\ Len(u) = Len(n) /\ \A i \in 1 .. Len(u) : u[i] = n[i]
    <3>1. ASSUME NEW i \in 1 .. m PROVE u[i] = n[i]
      <4>1. l + 5 + i \in 1 .. l + m + 9
        BY <1>1
      <4>2. t[l + 5 + i] = h[l + 5 + i] /\ h[l + 5 + i] = n[i]
        BY <1>1, <4>1
      <4>3. QED
        BY <2>1, <4>2
    <3>2. n \in Seq(Char) /\ Len(n) = m
      BY <1>1 DEF Text
    <3>3. QED
      BY <2>1, <3>1, <3>2
  <2>3. u = n
    BY <2>1, <2>2, SeqEqual, Zenon
  <2>4. pre + 1 = l + 6 /\ post - pre - 4 = m
    BY <1>1, <1>6, <1>7
  <2>5. Characters(t, l + 6, m) = SubSeq(t, l + 6, l + 5 + m)
    BY <1>1 DEF Characters
  <2>6. QED
    BY <2>3, <2>4, <2>5 DEF u
<1>11. PathsUpTo(limit, t) =
         IF starts = {} THEN NoPaths
         ELSE IF ends = {} THEN NoPaths
         ELSE [valid |-> TRUE,
               from  |-> SubSeq(t, 1, post),
               to    |-> SubSeq(t, 1, pre - 5)
                           \o Characters(t, pre + 1, post - pre - 4)]
  BY DEF PathsUpTo, starts, ends, pre, post, last
<1>12. QED
  BY <1>6, <1>7, <1>8, <1>9, <1>10, <1>11 DEF t, h
-----------------------------------------------------------------------------
(* Messages *)

LEMMA AppendIsText ==
    ASSUME NEW t \in Text, NEW u \in Text
    PROVE  AppendString(t, u) \in Text
BY Joined DEF AppendString

LEMMA AppendFits ==
    ASSUME NEW t \in Text, NEW u \in Text,
           Len(t) + Len(u) <= DF_FILENAME_SIZE
    PROVE  /\ AppendString(t, u) = t \o u
           /\ t \o u \in Text
           /\ Len(t \o u) = Len(t) + Len(u)
<1>1. t \o u \in Text /\ Len(t \o u) = Len(t) + Len(u)
  BY Joined, Zenon
<1>2. QED
  BY <1>1 DEF AppendString

LEMMA Associative ==
    ASSUME NEW s \in Text, NEW t \in Text, NEW u \in Text
    PROVE  (s \o t) \o u = s \o (t \o u)
BY ConcatAssociative DEF Text

LEMMA Codes == CodeBackupFile \in Text /\ Len(CodeBackupFile) = 1 /\ <<>> \in Text
<1>1. "B" \in Char
  BY NamesAssumption
<1>2. QED
  BY <1>1 DEF CodeBackupFile, Text

LEMMA RenameInfoIsText ==
    ASSUME NEW p \in Path
    PROVE  HeldName(p.name) \in Text /\ RenameInfo(p) \in Text
<1>1. Volume \in Text /\ p.dir \in Text /\ p.name \in Text
  BY NamesAssumption DEF Text, Path
<1>2. HeldName(p.name) \in Text
  BY <1>1, Codes, Marks, AppendIsText DEF HeldName
<1>3. QED
  BY <1>1, <1>2, Codes, AppendIsText DEF RenameInfo

\* When everything fits nothing is left out.
LEMMA AppendAll ==
    ASSUME NEW v \in Text, NEW d \in Text, NEW n \in Text,
           1 + Len(v) + Len(d) + Len(n) + 9 <= DF_FILENAME_SIZE
    PROVE  LET marked == RenamePrefix \o n \o RenameSuffix
           IN  /\ marked \in Text
               /\ HeldName(n) = marked
               /\ AppendString(AppendString(AppendString(CodeBackupFile, v),
                                            d), marked)
                    = CodeBackupFile \o (v \o d \o marked)
<1> DEFINE lv == Len(v)
           ld == Len(d)
           ln == Len(n)
           a == RenamePrefix \o n
           marked == a \o RenameSuffix
           b == CodeBackupFile \o v
           c == b \o d
<1>1. lv \in Nat /\ ld \in Nat /\ ln \in Nat
  BY DEF Text
<1>2. 1 + lv + ld + ln + 9 <= DF_FILENAME_SIZE /\ DF_FILENAME_SIZE \in Nat
  BY NamesAssumption
<1>3. Len(v) = lv /\ Len(d) = ld /\ Len(n) = ln
  OBVIOUS
<1> HIDE DEF lv, ld, ln
<1>4. AppendString(<<>>, RenamePrefix) = RenamePrefix
  <2>1. <<>> \in Text /\ Len(<<>>) = 0
    BY Codes DEF Text
  <2>2. RenamePrefix \in Text /\ Len(RenamePrefix) = 5
    BY Marks
  <2>3. Len(<<>>) + Len(RenamePrefix) <= DF_FILENAME_SIZE
    BY <1>1, <1>2, <2>1, <2>2
  <2>4. AppendString(<<>>, RenamePrefix) = <<>> \o RenamePrefix
    BY <2>1, <2>2, <2>3, AppendFits, Zenon
  <2>5. QED
    BY <2>2, <2>4, ConcatEmptySeq DEF Text
<1>5. AppendString(RenamePrefix, n) = a /\ a \in Text /\ Len(a) = ln + 5
  <2>1. RenamePrefix \in Text /\ Len(RenamePrefix) = 5
    BY Marks
  <2>2. n \in Text /\ Len(n) = ln
    BY <1>3
  <2>3. Len(RenamePrefix) + Len(n) <= DF_FILENAME_SIZE
        /\ Len(RenamePrefix) + Len(n) = ln + 5
    BY <1>1, <1>2, <2>1, <2>2
  <2>4. /\ AppendString(RenamePrefix, n) = a
        /\ a \in Text /\ Len(a) = Len(RenamePrefix) + Len(n)
    BY <2>1, <2>2, <2>3, AppendFits, Zenon
  <2>5. QED
    BY <2>3, <2>4
<1> HIDE DEF a
<1>6. AppendString(a, RenameSuffix) = marked /\ marked \in Text /\ Len(marked) = ln + 9
  <2>1. a \in Text /\ Len(a) = ln + 5
    BY <1>5
  <2>2. RenameSuffix \in Text /\ Len(RenameSuffix) = 4
    BY Marks
  <2>3. Len(a) + Len(RenameSuffix) <= DF_FILENAME_SIZE
        /\ Len(a) + Len(RenameSuffix) = ln + 9
    BY <1>1, <1>2, <2>1, <2>2
  <2>4. /\ AppendString(a, RenameSuffix) = marked
        /\ marked \in Text /\ Len(marked) = Len(a) + Len(RenameSuffix)
    BY <2>1, <2>2, <2>3, AppendFits, Zenon
  <2>5. QED
    BY <2>3, <2>4
<1> HIDE DEF marked
<1>7. AppendString(CodeBackupFile, v) = b /\ b \in Text /\ Len(b) = 1 + lv
  <2>1. CodeBackupFile \in Text /\ Len(CodeBackupFile) = 1
    BY Codes
  <2>2. v \in Text /\ Len(v) = lv
    BY <1>3
  <2>3. Len(CodeBackupFile) + Len(v) <= DF_FILENAME_SIZE
        /\ Len(CodeBackupFile) + Len(v) = 1 + lv
    BY <1>1, <1>2, <2>1, <2>2
  <2>4. /\ AppendString(CodeBackupFile, v) = b
        /\ b \in Text /\ Len(b) = Len(CodeBackupFile) + Len(v)
    BY <2>1, <2>2, <2>3, AppendFits, Zenon
  <2>5. QED
    BY <2>3, <2>4
<1> HIDE DEF b
<1>8. AppendString(b, d) = c /\ c \in Text /\ Len(c) = 1 + lv + ld
  <2>1. b \in Text /\ Len(b) = 1 + lv
    BY <1>7
  <2>2. d \in Text /\ Len(d) = ld
    BY <1>3
  <2>3. Len(b) + Len(d) <= DF_FILENAME_SIZE
        /\ Len(b) + Len(d) = 1 + lv + ld
    BY <1>1, <1>2, <2>1, <2>2
  <2>4. /\ AppendString(b, d) = c
        /\ c \in Text /\ Len(c) = Len(b) + Len(d)
    BY <2>1, <2>2, <2>3, AppendFits, Zenon
  <2>5. QED
    BY <2>3, <2>4
<1> HIDE DEF c
<1>9. AppendString(c, marked) = c \o marked
  <2>1. Len(c) + Len(marked) <= DF_FILENAME_SIZE
    BY <1>1, <1>2, <1>6, <1>8
  <2>2. QED
    BY <1>6, <1>8, <2>1, AppendFits, Zenon
<1>10. c \o marked = CodeBackupFile \o (v \o d \o marked)
  <2>1. v \o d \in Text
    BY Joined, Zenon
  <2>2. (CodeBackupFile \o v) \o d = CodeBackupFile \o (v \o d)
    BY Codes, Associative, Zenon
  <2>3. (CodeBackupFile \o (v \o d)) \o marked
          = CodeBackupFile \o ((v \o d) \o marked)
    <3> DEFINE vd == v \o d
    <3>1. CodeBackupFile \in Text /\ vd \in Text /\ marked \in Text
      BY <1>6, <2>1, Codes
    <3> HIDE DEF vd
    <3>2. (CodeBackupFile \o vd) \o marked = CodeBackupFile \o (vd \o marked)
      BY <3>1, Associative, Zenon
    <3>3. QED
      BY <3>2 DEF vd
  <2>4. c = CodeBackupFile \o (v \o d)
    BY <2>2 DEF b, c
  <2>5. QED
    BY <2>3, <2>4
<1>11. HeldName(n) = marked
  BY <1>4, <1>5, <1>6 DEF HeldName
<1>12. AppendString(AppendString(AppendString(CodeBackupFile, v), d), marked)
         = CodeBackupFile \o (v \o d \o marked)
  BY <1>7, <1>8, <1>9, <1>10
<1>13. QED
  BY <1>6, <1>11, <1>12 DEF marked, a

LEMMA WholeMessage ==
    ASSUME NEW p \in Path, Whole(p)
    PROVE  /\ FullPath(HeldPath(p)) = HeldText(Volume \o p.dir, p.name)
           /\ RenameInfo(p) = CodeBackupFile \o FullPath(HeldPath(p))
           /\ Len(Volume \o p.dir) + Len(p.name) + 9 <= MESSAGE_LENGTH
<1> DEFINE d == p.dir
           n == p.name
           w == Volume \o d
           marked == RenamePrefix \o n \o RenameSuffix
<1>1. /\ Volume \in Text /\ d \in Text /\ n \in Text
      /\ DF_FILENAME_SIZE \in Nat /\ MESSAGE_LENGTH \in Nat
      /\ DF_FILENAME_SIZE <= MESSAGE_LENGTH
  BY NamesAssumption DEF Text, Path
<1>2. /\ w \in Text /\ Len(w) = Len(Volume) + Len(d)
      /\ Len(Volume) \in Nat /\ Len(d) \in Nat /\ Len(n) \in Nat
  BY <1>1, Joined, Zenon
<1>3. FullPath(p) = w \o n
  BY DEF FullPath
<1> HIDE DEF w, d, n
<1>4. Len(w \o n) = Len(w) + Len(n)
  BY <1>1, <1>2, Joined, Zenon
<1>5. 1 + Len(FullPath(p)) + 5 + 4 <= DF_FILENAME_SIZE
  BY Codes, Marks DEF Whole
<1>6. 1 + Len(Volume) + Len(d) + Len(n) + 9 <= DF_FILENAME_SIZE
  BY <1>1, <1>2, <1>3, <1>4, <1>5
<1>7. /\ HeldName(n) = marked
      /\ AppendString(AppendString(AppendString(CodeBackupFile, Volume), d),
                      marked)
           = CodeBackupFile \o (Volume \o d \o marked)
  BY <1>1, <1>6, AppendAll
<1> HIDE DEF marked
<1>8. FullPath(HeldPath(p)) = w \o marked
  BY <1>7 DEF FullPath, HeldPath, w, d, n
<1>9. RenameInfo(p) = CodeBackupFile \o (w \o marked)
  BY <1>7 DEF RenameInfo, w, d, n
<1>10. w \o marked = HeldText(Volume \o p.dir, p.name)
  BY DEF HeldText, w, d, n, marked
<1>11. Len(w) + Len(n) + 9 <= MESSAGE_LENGTH
  BY <1>1, <1>2, <1>6
<1>12. QED
  BY <1>8, <1>9, <1>10, <1>11 DEF w, d, n

\* The client finds what the driver meant, whatever is left in the block.
THEOREM WholeMessageIsRead ==
    ASSUME NEW p \in Path, NEW rest \in Text, Whole(p), Unmarked(p)
    PROVE  BufferToPaths(RenameInfo(p) \o rest) =
             [valid |-> TRUE,
              from  |-> FullPath(HeldPath(p)),
              to    |-> FullPath(p)]
<1> DEFINE w == Volume \o p.dir
           h == FullPath(HeldPath(p))
<1>1. h = HeldText(w, p.name) /\ RenameInfo(p) = CodeBackupFile \o h
      /\ Len(w) + Len(p.name) + 9 <= MESSAGE_LENGTH
  BY WholeMessage
<1>2. /\ Volume \in Text /\ p.dir \in Text /\ p.name \in Text
      /\ MESSAGE_LENGTH \in Nat
  BY NamesAssumption DEF Text, Path
<1>3. w \in Text
  BY <1>2, Joined
<1>4. HasLayout(w, p.name, rest)
  BY <1>2, <1>3, Layout
<1>5. /\ HeldText(w, p.name) \in Text
      /\ BufferText(w, p.name, rest) \in Text
      /\ BufferText(w, p.name, rest) = HeldText(w, p.name) \o rest
  BY <1>4 DEF HasLayout, BufferText
<1>6. AfterCode(RenameInfo(p) \o rest) = BufferText(w, p.name, rest)
  <2> DEFINE t == BufferText(w, p.name, rest)
             x == CodeBackupFile \o t
  <2>1. RenameInfo(p) \o rest = x
    <3>1. (CodeBackupFile \o h) \o rest = CodeBackupFile \o (h \o rest)
      <4>1. CodeBackupFile \in Text /\ h \in Text
        BY <1>1, <1>5, Codes
      <4> HIDE DEF h
      <4>2. QED
        BY <4>1, Associative, Zenon
    <3>2. QED
      BY <1>1, <1>5, <3>1
  <2>2. t \in Text /\ Len(t) \in Nat
    BY <1>5, Joined
  <2> HIDE DEF t
  <2>3. /\ x \in Text /\ Len(x) = 1 + Len(t)
        /\ \A i \in 1 .. Len(t) : x[1 + i] = t[i]
    <3>1. CodeBackupFile \in Text /\ Len(CodeBackupFile) = 1
      BY Codes
    <3>2. /\ x \in Text
          /\ Len(x) = Len(CodeBackupFile) + Len(t)
          /\ \A i \in 1 .. Len(t) : x[Len(CodeBackupFile) + i] = t[i]
      BY <2>2, <3>1, Joined, Zenon
    <3> HIDE DEF x
    <3>3. QED
      BY <3>1, <3>2
  <2> HIDE DEF x
  <2> DEFINE u == SubSeq(x, 2, Len(x))
  <2>4. /\ u \in Seq(Char) /\ Len(u) = Len(t)
        /\ \A i \in 1 .. Len(t) : u[i] = x[1 + i]
    <3>1. \A i \in 2 .. Len(x) : x[i] \in Char
      BY <2>2, <2>3, ElementOfSeq DEF Text
    <3>2. QED
      BY <2>2, <2>3, <3>1, SubSeqProperties
  <2> HIDE DEF u
  <2>5. u = t
    <3>1. t \in Seq(Char) /\ Len(u) = Len(t) /\ \A i \in 1 .. Len(u) : u[i] = t[i]
      BY <2>2, <2>3, <2>4 DEF Text
    <3>2. QED
      BY <2>4, <3>1, SeqEqual, Zenon
  <2>6. QED
    BY <2>1, <2>5 DEF AfterCode, u, t
<1>7. PathsUpTo(MESSAGE_LENGTH, BufferText(w, p.name, rest)) =
        [valid |-> TRUE, from |-> HeldText(w, p.name), to |-> w \o p.name]
  <2>1. /\ ~FindSubString(w \o <<".">>, RenamePrefix)
        /\ ~FindSubString(<<".">> \o p.name, RenameSuffix)
    BY DEF Unmarked
  <2> HIDE DEF w
  <2>2. QED
    BY <1>1, <1>2, <1>3, <2>1, Reading
<1>8. FullPath(p) = w \o p.name
  BY DEF FullPath
<1>9. QED
  BY <1>1, <1>6, <1>7, <1>8 DEF BufferToPaths
-----------------------------------------------------------------------------
(* Reads *)

Entry == [block : Block, ok : BOOLEAN]

\* The variables have their types ...
ReadTypes ==
    /\ disk \subseteq Path
    /\ heap \in [Block -> Text]
    /\ letter \in [Block -> Path]
    /\ allocated \subseteq Block
    /\ posted \in Seq(Block)
    /\ completed \in Seq(Entry)

\* ... and a message that has come is at the front of its block.
Delivered ==
    \A j \in 1 .. Len(completed) :
      LET b == completed[j].block
      IN  completed[j].ok =>
            \E rest \in Text : heap[b] = RenameInfo(letter[b]) \o rest

ReadInv == ReadTypes /\ ReadsOwnTheirBlocks /\ Delivered

LEMMA HeldPathIsPath ==
    ASSUME NEW p \in Path
    PROVE  HeldPath(p) \in Path
BY RenameInfoIsText DEF HeldPath, Path

LEMMA ReadInvInit == Init => ReadInv
<1> SUFFICES ASSUME Init PROVE ReadInv
  OBVIOUS
<1>1. ReadTypes
  <2>1. disk \subseteq Path
    BY MessagesAssumption DEF Init
  <2>2. <<>> \in Text /\ Nobody \in Path
    BY Codes DEF Nobody, Path
  <2>3. heap \in [Block -> Text] /\ letter \in [Block -> Path]
    BY <2>2 DEF Init
  <2>4. allocated \subseteq Block /\ posted \in Seq(Block)
        /\ completed \in Seq(Entry)
    BY DEF Init
  <2>5. QED
    BY <2>1, <2>3, <2>4 DEF ReadTypes
<1>2. posted = <<>> /\ completed = <<>>
  BY DEF Init
<1>3. QED
  BY <1>1, <1>2 DEF ReadInv, ReadsOwnTheirBlocks, Delivered

LEMMA OverwriteIsText ==
    ASSUME NEW old \in Text, NEW message \in Text
    PROVE  \E rest \in Text : Overwrite(old, message) = message \o rest
<1> DEFINE rest == SubSeq(old, Len(message) + 1, Len(old))
<1>1. rest \in Text
  <2>1. Len(message) \in Nat /\ Len(old) \in Nat
    BY DEF Text
  <2>2. \A i \in Len(message) + 1 .. Len(old) : old[i] \in Char
    BY <2>1, ElementOfSeq DEF Text
  <2>3. QED
    BY <2>1, <2>2, SubSeqProperties DEF Text
<1>2. QED
  BY <1>1 DEF Overwrite

\* A message goes into the oldest posted read.
LEMMA SendKeepsReadInv ==
    ASSUME NEW p \in Path, ReadInv, Send(p), disk' \subseteq Path
    PROVE  ReadInv'
<1>1. CASE posted = <<>>
  BY <1>1 DEF Send, ReadInv, ReadTypes, ReadsOwnTheirBlocks, Delivered,
              readVars
<1>2. CASE posted # <<>>
  <2> DEFINE b == Head(posted)
             n == Len(completed)
             m == Len(posted)
  <2>1. /\ heap' = [heap EXCEPT ![b] = Overwrite(@, RenameInfo(p))]
        /\ letter' = [letter EXCEPT ![b] = p]
        /\ posted' = Tail(posted)
        /\ completed' = Append(completed, [block |-> b, ok |-> TRUE])
        /\ allocated' = allocated
    BY <1>2 DEF Send
  <2>2. /\ m \in Nat \ {0} /\ n \in Nat /\ b \in Block /\ b = posted[1]
        /\ posted' \in Seq(Block) /\ Len(posted') = m - 1
        /\ \A i \in 1 .. m - 1 : posted'[i] = posted[i + 1]
    BY <1>2, <2>1 DEF ReadInv, ReadTypes
  <2>3. /\ completed' \in Seq(Entry) /\ Len(completed') = n + 1
        /\ \A j \in 1 .. n : completed'[j] = completed[j]
        /\ completed'[n + 1] = [block |-> b, ok |-> TRUE]
    <3>1. [block |-> b, ok |-> TRUE] \in Entry
      BY <2>2 DEF Entry
    <3>2. QED
      BY <2>1, <3>1 DEF ReadInv, ReadTypes
  <2>4. heap[b] \in Text /\ RenameInfo(p) \in Text
    BY <2>2, RenameInfoIsText DEF ReadInv, ReadTypes
  <2>5. PICK rest \in Text :
          Overwrite(heap[b], RenameInfo(p)) = RenameInfo(p) \o rest
    BY <2>4, OverwriteIsText
  <2>6. RenameInfo(p) \o rest \in Text
    BY <2>4, Joined
  <2>7. /\ heap' \in [Block -> Text] /\ heap'[b] = RenameInfo(p) \o rest
        /\ letter' \in [Block -> Path] /\ letter'[b] = p
        /\ \A c \in Block \ {b} : heap'[c] = heap[c] /\ letter'[c] = letter[c]
    BY <2>1, <2>2, <2>5, <2>6 DEF ReadInv, ReadTypes
  <2> HIDE DEF b, n, m
  <2>8. ReadTypes'
    BY <2>1, <2>2, <2>3, <2>7 DEF ReadInv, ReadTypes
  <2>9. n = Len(completed) /\ m = Len(posted)
    BY DEF n, m
  <2>10. ReadsOwnTheirBlocks'
    <3>1. \A i \in 1 .. m - 1 : posted'[i] \in allocated'
      BY <2>1, <2>2, <2>9 DEF ReadInv, ReadsOwnTheirBlocks
    <3>2. \A j \in 1 .. n + 1 : completed'[j].block \in allocated'
      BY <2>1, <2>2, <2>3, <2>9 DEF ReadInv, ReadsOwnTheirBlocks
    <3>3. \A i, k \in 1 .. m - 1 : i # k => posted'[i] # posted'[k]
      BY <2>2, <2>9 DEF ReadInv, ReadsOwnTheirBlocks
    <3>4. \A j \in 1 .. n : completed'[j].block # b
      BY <2>2, <2>3, <2>9 DEF ReadInv, ReadsOwnTheirBlocks
    <3>5. \A j, k \in 1 .. n : j # k => completed'[j].block # completed'[k].block
      BY <2>3, <2>9 DEF ReadInv, ReadsOwnTheirBlocks
    <3>6. \A j, k \in 1 .. n + 1 :
            j # k => completed'[j].block # completed'[k].block
      BY <2>2, <2>3, <3>4, <3>5
    <3>7. \A i \in 1 .. m - 1, j \in 1 .. n + 1 :
            posted'[i] # completed'[j].block
      <4>1. TAKE i \in 1 .. m - 1, j \in 1 .. n + 1
      <4>2. i + 1 \in 1 .. m /\ 1 \in 1 .. m /\ i + 1 # 1
        BY <2>2
      <4>3. posted'[i] = posted[i + 1] /\ posted[i + 1] # posted[1]
        BY <2>2, <2>9, <4>2 DEF ReadInv, ReadsOwnTheirBlocks
      <4>4. QED
        BY <2>2, <2>3, <2>9, <4>2, <4>3 DEF ReadInv, ReadsOwnTheirBlocks
    <3>8. QED
      BY <2>2, <2>3, <3>1, <3>2, <3>3, <3>6, <3>7 DEF ReadsOwnTheirBlocks
  <2>11. Delivered'
    <3>1. SUFFICES ASSUME NEW j \in 1 .. n + 1, completed'[j].ok
                   PROVE  \E r \in Text :
                            heap'[completed'[j].block] =
                              RenameInfo(letter'[completed'[j].block]) \o r
      BY <2>3 DEF Delivered
    <3>2. CASE j = n + 1
      <4>1. completed'[j].block = b
        BY <2>3, <3>2
      <4>2. heap'[b] = RenameInfo(p) \o rest /\ letter'[b] = p
        BY <2>7
      <4>3. QED
        BY <4>1, <4>2, Zenon
    <3>3. CASE j # n + 1
      <4>1. j \in 1 .. n /\ completed'[j] = completed[j]
        BY <2>2, <2>3, <3>3
      <4>2. completed[j].block \in Block \ {b}
        BY <2>2, <2>9, <4>1
           DEF ReadInv, ReadTypes, ReadsOwnTheirBlocks, Entry
      <4>3. \E r \in Text : heap[completed[j].block] =
                              RenameInfo(letter[completed[j].block]) \o r
        BY <2>9, <3>1, <4>1 DEF ReadInv, Delivered
      <4>4. QED
        BY <2>7, <4>1, <4>2, <4>3
    <3>4. QED
      BY <3>2, <3>3
  <2>12. QED
    BY <2>8, <2>10, <2>11 DEF ReadInv
<1>3. QED
  BY <1>1, <1>2

\* What the reader takes from the completion port it has not to look at again,
\* and it may free its block.
LEMMA TakeKeepsReadInv ==
    ASSUME ReadInv, completed # <<>>, completed' = Tail(completed),
           \/ allocated' = allocated
           \/ allocated' = allocated \ {Head(completed).block},
           UNCHANGED <<disk, heap, letter, posted>>
    PROVE  ReadInv'
<1> DEFINE b == Head(completed).block
           n == Len(completed)
<1>1. /\ n \in Nat \ {0} /\ b = completed[1].block
      /\ completed' \in Seq(Entry) /\ Len(completed') = n - 1
      /\ \A j \in 1 .. n - 1 : completed'[j] = completed[j + 1]
  BY DEF ReadInv, ReadTypes
<1>2. n = Len(completed)
  OBVIOUS
<1>3. allocated' \subseteq allocated /\ allocated \ {b} \subseteq allocated'
  OBVIOUS
<1> HIDE DEF b, n
<1>4. \A j \in 1 .. n - 1 : j + 1 \in 1 .. n /\ j + 1 # 1 /\ 1 \in 1 .. n
  BY <1>1
<1>5. \A j \in 1 .. n - 1 : completed[j + 1].block # b
  BY <1>1, <1>2, <1>4 DEF ReadInv, ReadsOwnTheirBlocks
<1>6. \A i \in 1 .. Len(posted) : posted[i] # b
  BY <1>1, <1>2 DEF ReadInv, ReadsOwnTheirBlocks
<1>7. ReadTypes'
  BY <1>1, <1>3 DEF ReadInv, ReadTypes
<1>8. ReadsOwnTheirBlocks'
  <2>1. \A i \in 1 .. Len(posted) : posted[i] \in allocated'
    BY <1>3, <1>6 DEF ReadInv, ReadsOwnTheirBlocks
  <2>2. \A j \in 1 .. n - 1 : completed'[j].block \in allocated'
    <3>1. TAKE j \in 1 .. n - 1
    <3>2. completed[j + 1].block \in allocated
      BY <1>2, <1>4 DEF ReadInv, ReadsOwnTheirBlocks
    <3>3. QED
      BY <1>1, <1>3, <1>5, <3>2
  <2>3. \A j, k \in 1 .. n - 1 :
          j # k => completed'[j].block # completed'[k].block
    <3>1. TAKE j, k \in 1 .. n - 1
    <3>2. HAVE j # k
    <3>3. j + 1 \in 1 .. n /\ k + 1 \in 1 .. n /\ j + 1 # k + 1
      BY <1>1, <3>2
    <3>4. completed[j + 1].block # completed[k + 1].block
      BY <1>2, <3>3 DEF ReadInv, ReadsOwnTheirBlocks
    <3>5. QED
      BY <1>1, <3>4
  <2>4. \A i \in 1 .. Len(posted), j \in 1 .. n - 1 :
          posted[i] # completed'[j].block
    BY <1>1, <1>2, <1>4 DEF ReadInv, ReadsOwnTheirBlocks
  <2>5. QED
    BY <1>1, <2>1, <2>2, <2>3, <2>4 DEF ReadInv, ReadsOwnTheirBlocks
<1>9. Delivered'
  <2>1. SUFFICES ASSUME NEW j \in 1 .. n - 1, completed'[j].ok
                 PROVE  \E rest \in Text :
                          heap[completed'[j].block] =
                            RenameInfo(letter[completed'[j].block]) \o rest
    BY <1>1 DEF Delivered
  <2>2. j + 1 \in 1 .. Len(completed) /\ completed'[j] = completed[j + 1]
    BY <1>1, <1>2, <1>4
  <2>3. QED
    BY <2>1, <2>2 DEF ReadInv, Delivered
<1>10. QED
  BY <1>7, <1>8, <1>9 DEF ReadInv

\* A read is posted in a block that was free.
LEMMA PostKeepsReadInv == ReadInv /\ PostRead => ReadInv'
<1> SUFFICES ASSUME ReadInv, PostRead PROVE ReadInv'
  OBVIOUS
<1>1. PICK b \in Block \ allocated :
        allocated' = allocated \cup {b} /\ posted' = Append(posted, b)
  BY DEF PostRead
<1>2. UNCHANGED <<disk, heap, letter, completed>>
  BY DEF PostRead, driverVars
<1> DEFINE m == Len(posted)
<1>3. /\ m \in Nat /\ posted' \in Seq(Block) /\ Len(posted') = m + 1
      /\ \A i \in 1 .. m : posted'[i] = posted[i]
      /\ posted'[m + 1] = b
  BY <1>1 DEF ReadInv, ReadTypes
<1>4. m = Len(posted)
  OBVIOUS
<1> HIDE DEF m
<1>5. ReadTypes'
  BY <1>1, <1>2, <1>3 DEF ReadInv, ReadTypes
<1>6. ReadsOwnTheirBlocks'
  <2>1. \A i \in 1 .. m + 1 : i \in 1 .. m \/ i = m + 1
    BY <1>3
  <2>2. \A i \in 1 .. m : posted[i] \in allocated /\ posted[i] # b
    BY <1>1, <1>4 DEF ReadInv, ReadsOwnTheirBlocks
  <2>3. \A j \in 1 .. Len(completed) :
          completed[j].block \in allocated /\ completed[j].block # b
    BY <1>1 DEF ReadInv, ReadsOwnTheirBlocks
  <2>4. \A i \in 1 .. m + 1 : posted'[i] \in allocated'
    BY <1>1, <1>3, <2>1, <2>2
  <2>5. \A i, k \in 1 .. m + 1 : i # k => posted'[i] # posted'[k]
    <3>1. \A i, k \in 1 .. m : i # k => posted'[i] # posted'[k]
      BY <1>3, <1>4 DEF ReadInv, ReadsOwnTheirBlocks
    <3>2. QED
      BY <1>3, <2>1, <2>2, <3>1
  <2>6. \A i \in 1 .. m + 1, j \in 1 .. Len(completed) :
          posted'[i] # completed[j].block
    <3>1. \A i \in 1 .. m, j \in 1 .. Len(completed) :
            posted'[i] # completed[j].block
      BY <1>3, <1>4 DEF ReadInv, ReadsOwnTheirBlocks
    <3>2. QED
      BY <1>3, <2>1, <2>3, <3>1
  <2>7. QED
    BY <1>1, <1>2, <1>3, <2>3, <2>4, <2>5, <2>6
       DEF ReadInv, ReadsOwnTheirBlocks
<1>7. Delivered'
  BY <1>2 DEF ReadInv, Delivered
<1>8. QED
  BY <1>5, <1>6, <1>7 DEF ReadInv

\* The posted reads fail, one after another.
LEMMA CloseKeepsReadInv == ReadInv /\ ClosePort => ReadInv'
<1> SUFFICES ASSUME ReadInv, ClosePort PROVE ReadInv'
  OBVIOUS
<1> DEFINE n == Len(completed)
           m == Len(posted)
           failed == [i \in 1 .. m |-> [block |-> posted[i], ok |-> FALSE]]
<1>1. /\ completed' = completed \o failed /\ posted' = <<>>
      /\ UNCHANGED <<disk, heap, letter, allocated>>
  BY DEF ClosePort
<1>2. /\ completed \in Seq(Entry) /\ posted \in Seq(Block)
      /\ n \in Nat /\ m \in Nat
  BY DEF ReadInv, ReadTypes
<1>3. /\ failed \in Seq(Entry) /\ Len(failed) = m
      /\ \A i \in 1 .. m : failed[i] = [block |-> posted[i], ok |-> FALSE]
  <2>1. \A i \in 1 .. m : [block |-> posted[i], ok |-> FALSE] \in Entry
    BY <1>2 DEF Entry
  <2>2. failed \in [1 .. m -> Entry]
    BY <2>1
  <2>3. QED
    BY <1>2, <2>2
<1>4. n = Len(completed) /\ m = Len(posted)
  OBVIOUS
<1> HIDE DEF failed, n, m
<1>5. /\ completed' \in Seq(Entry) /\ Len(completed') = n + m
      /\ \A j \in 1 .. n : completed'[j] = completed[j]
      /\ \A i \in 1 .. m : completed'[n + i] = failed[i]
  <2> DEFINE all == completed \o failed
  <2>1. /\ all \in Seq(Entry)
        /\ Len(all) = Len(completed) + Len(failed)
        /\ \A i \in 1 .. Len(completed) + Len(failed) :
             all[i] = IF i <= Len(completed) THEN completed[i]
                      ELSE failed[i - Len(completed)]
    BY <1>2, <1>3, ConcatProperties, Zenon
  <2> HIDE DEF all
  <2>2. /\ Len(all) = n + m
        /\ \A j \in 1 .. n : all[j] = completed[j]
        /\ \A i \in 1 .. m : all[n + i] = failed[i]
    <3>1. /\ Len(all) = n + m
          /\ \A i \in 1 .. n + m :
               all[i] = IF i <= n THEN completed[i] ELSE failed[i - n]
      BY <1>3, <1>4, <2>1
    <3>2. \A j \in 1 .. n : all[j] = completed[j]
      BY <1>2, <3>1
    <3>3. ASSUME NEW i \in 1 .. m PROVE all[n + i] = failed[i]
      <4>1. n + i \in 1 .. n + m /\ ~(n + i <= n) /\ (n + i) - n = i
        BY <1>2
      <4>2. QED
        BY <3>1, <4>1
    <3>4. QED
      BY <3>1, <3>2, <3>3
  <2>3. QED
    BY <1>1, <2>1, <2>2 DEF all
<1>6. \A j \in 1 .. n + m :
        j \in 1 .. n \/ \E i \in 1 .. m : j = n + i
  <2>1. TAKE j \in 1 .. n + m
  <2>2. CASE j <= n
    BY <1>2, <2>2
  <2>3. CASE j > n
    <3>1. j - n \in 1 .. m /\ j = n + (j - n)
      BY <1>2, <2>3
    <3>2. QED
      BY <3>1
  <2>4. QED
    BY <1>2, <2>2, <2>3
<1>7. ReadTypes'
  BY <1>1, <1>5 DEF ReadInv, ReadTypes
<1>8. \A i \in 1 .. m : /\ completed'[n + i].block = posted[i]
                        /\ completed'[n + i].ok = FALSE
  BY <1>3, <1>5
<1>9. ReadsOwnTheirBlocks'
  <2>1. \A j \in 1 .. n + m : completed'[j].block \in allocated'
    <3>1. \A j \in 1 .. n : completed'[j].block \in allocated'
      BY <1>1, <1>4, <1>5 DEF ReadInv, ReadsOwnTheirBlocks
    <3>2. \A i \in 1 .. m : completed'[n + i].block \in allocated'
      BY <1>1, <1>4, <1>8 DEF ReadInv, ReadsOwnTheirBlocks
    <3>3. QED
      BY <1>6, <3>1, <3>2, Zenon
  <2>2. \A j, k \in 1 .. n + m :
          j # k => completed'[j].block # completed'[k].block
    <3>1. \A j, k \in 1 .. n :
            j # k => completed'[j].block # completed'[k].block
      BY <1>4, <1>5 DEF ReadInv, ReadsOwnTheirBlocks
    <3>2. \A i, k \in 1 .. m : n + i # n + k =>
            completed'[n + i].block # completed'[n + k].block
      <4>1. TAKE i, k \in 1 .. m
      <4>2. HAVE n + i # n + k
      <4>3. posted[i] # posted[k]
        BY <1>2, <1>4, <4>2 DEF ReadInv, ReadsOwnTheirBlocks
      <4>4. QED
        BY <1>8, <4>3
    <3>3. \A j \in 1 .. n, i \in 1 .. m :
            completed'[j].block # completed'[n + i].block
      BY <1>4, <1>5, <1>8 DEF ReadInv, ReadsOwnTheirBlocks
    <3>4. QED
      BY <1>6, <3>1, <3>2, <3>3, Zenon
  <2>3. Len(posted') = 0
    BY <1>1
  <2>4. QED
    BY <1>5, <2>1, <2>2, <2>3 DEF ReadsOwnTheirBlocks
<1>10. Delivered'
  <2>1. SUFFICES ASSUME NEW j \in 1 .. n + m, completed'[j].ok
                 PROVE  \E rest \in Text :
                          heap[completed'[j].block] =
                            RenameInfo(letter[completed'[j].block]) \o rest
    BY <1>1, <1>5 DEF Delivered
  <2>2. j \in 1 .. n
    BY <1>6, <1>8, <2>1
  <2>3. completed'[j] = completed[j] /\ completed[j].ok
    BY <1>5, <2>1, <2>2
  <2>4. QED
    BY <1>4, <2>2, <2>3 DEF ReadInv, Delivered
<1>11. QED
  BY <1>7, <1>9, <1>10 DEF ReadInv

\* Steps that leave the reads alone.
LEMMA ElsewhereKeepsReadInv ==
    ASSUME ReadInv, disk' \subseteq Path,
           UNCHANGED <<heap, letter, allocated, posted, completed>>
    PROVE  ReadInv'
BY DEF ReadInv, ReadTypes, ReadsOwnTheirBlocks, Delivered

LEMMA DeleteKeepsReadInv ==
    ASSUME ReadInv, NEW p \in disk, Delete(p)
    PROVE  ReadInv'
<1>1. p \in Path /\ disk \subseteq Path
  BY DEF ReadInv, ReadTypes
<1>2. HeldPath(p) \in Path
  BY <1>1, HeldPathIsPath
<1>3. CASE UNCHANGED readVars
  <2>1. disk' \subseteq Path
    BY <1>1, <1>2 DEF Delete
  <2>2. QED
    BY <1>3, <2>1, ElsewhereKeepsReadInv DEF readVars
<1>4. CASE ~UNCHANGED readVars
  <2>1. disk' = (disk \ {p}) \cup {HeldPath(p)} /\ Send(p)
    BY <1>4 DEF Delete
  <2>2. disk' \subseteq Path
    BY <1>1, <1>2, <2>1
  <2>3. QED
    BY <1>1, <2>1, <2>2, SendKeepsReadInv
<1>5. QED
  BY <1>3, <1>4

LEMMA ReadInvStep == ReadInv /\ [Next]_vars => ReadInv'
<1> SUFFICES ASSUME ReadInv, [Next]_vars PROVE ReadInv'
  OBVIOUS
<1>1. disk \subseteq Path
  BY DEF ReadInv, ReadTypes
<1>2. ASSUME NEW p \in disk, Delete(p) PROVE ReadInv'
  BY <1>2, DeleteKeepsReadInv
<1>3. ASSUME NEW p \in disk, Rename(p) PROVE ReadInv'
  BY <1>1, <1>3, ElsewhereKeepsReadInv DEF Rename, readVars
<1>4. CASE ClosePort
  BY <1>4, CloseKeepsReadInv
<1>5. CASE PostRead
  BY <1>5, PostKeepsReadInv
<1>6. CASE ReadTimesOut
  BY <1>1, <1>6, ElsewhereKeepsReadInv DEF ReadTimesOut, driverVars
<1>7. CASE SkipMessage
  BY <1>7, TakeKeepsReadInv DEF SkipMessage, Take, driverVars
<1>8. CASE QueueMessage
  BY <1>8, TakeKeepsReadInv DEF QueueMessage, Take, driverVars
<1>9. CASE ForgetMissing
  BY <1>1, <1>9, ElsewhereKeepsReadInv DEF ForgetMissing, driverVars, readVars
<1>10. CASE BackUp
  <2>1. disk' \subseteq Path /\ UNCHANGED readVars
    BY <1>1, <1>10 DEF BackUp
  <2>2. QED
    BY <2>1, ElsewhereKeepsReadInv DEF readVars
<1>11. CASE UNCHANGED vars
  BY <1>1, <1>11, ElsewhereKeepsReadInv DEF vars
<1>12. ASSUME NEW p \in disk, Pass(p) PROVE ReadInv'
  BY <1>1, <1>12, ElsewhereKeepsReadInv DEF Pass, readVars
<1>13. QED
  BY <1>2, <1>3, <1>4, <1>5, <1>6, <1>7, <1>8, <1>9, <1>10, <1>11, <1>12
     DEF Next, DriverStep, ReaderStep, RunStep

\* Whatever the order in which reads are posted, filled, failed, skipped and
\* freed, and however many there are, no two share a block and none is freed.
THEOREM ReadsAreOwned == Spec => []ReadsOwnTheirBlocks
<1>1. ReadInv => ReadsOwnTheirBlocks
  BY DEF ReadInv
<1>2. QED
  BY ReadInvInit, ReadInvStep, <1>1, PTL DEF Spec

\* Whatever earlier messages left behind, the client reads from each whole
\* message the path the file was given and the one it had.
THEOREM MessagesAreRead == Spec => []MessageIsRead
<1>1. ReadInv => MessageIsRead
  <2> SUFFICES ASSUME ReadInv, NEW i \in 1 .. Len(completed),
                      completed[i].ok,
                      Whole(letter[completed[i].block]),
                      Unmarked(letter[completed[i].block])
               PROVE  BufferToPaths(heap[completed[i].block]) =
                        [valid |-> TRUE,
                         from |-> FullPath(HeldPath(letter[completed[i].block])),
                         to   |-> FullPath(letter[completed[i].block])]
    BY DEF MessageIsRead
  <2> DEFINE b == completed[i].block
             p == letter[b]
  <2>1. p \in Path
    <3>1. completed[i] \in Entry
      BY ElementOfSeq DEF ReadInv, ReadTypes
    <3>2. QED
      BY <3>1 DEF ReadInv, ReadTypes, Entry
  <2>2. PICK rest \in Text : heap[b] = RenameInfo(p) \o rest
    BY DEF ReadInv, Delivered
  <2>3. Whole(p) /\ Unmarked(p)
    OBVIOUS
  <2> HIDE DEF p
  <2>4. BufferToPaths(RenameInfo(p) \o rest) =
          [valid |-> TRUE, from |-> FullPath(HeldPath(p)), to |-> FullPath(p)]
    BY <2>1, <2>3, WholeMessageIsRead
  <2>5. QED
    BY <2>2, <2>4, Zenon DEF p
<1>2. QED
  BY ReadInvInit, ReadInvStep, <1>1, PTL DEF Spec
=============================================================================
