--------------------------- MODULE HeldFilesProofs ---------------------------
(***************************************************************************)
(* That the client lists held files only, each with the path it had, and   *)
(* that a held file stays until it was uploaded under that path: whatever  *)
(* is left out of a message, was in its block before or is in the names.   *)
(* And that held names are in the classes of names that Volume and Shield  *)
(* put them in.                                                            *)
(***************************************************************************)
EXTENDS MessagesProofs, WellFoundedInduction

-----------------------------------------------------------------------------
(* The names of held files *)

MarkedName(n) == RenamePrefix \o n \o RenameSuffix

\* NTFS takes a held name only if it has both marks: without room for the
\* suffix the name would be too long with the prefix alone.
LEMMA HeldNameIsWhole ==
    ASSUME NEW p \in Path, Len(p.name) <= MaxComponent, CanBeHeld(p)
    PROVE  HeldName(p.name) = MarkedName(p.name)
<1> DEFINE n == p.name
           a == RenamePrefix \o n
<1>1. n \in Text /\ Len(n) \in Nat
  BY DEF Path, Text
<1>2. /\ RenamePrefix \in Text /\ Len(RenamePrefix) = 5
      /\ RenameSuffix \in Text /\ Len(RenameSuffix) = 4
  BY Marks
<1>3. /\ MaxComponent \in Nat /\ DF_FILENAME_SIZE \in Nat
      /\ MaxComponent + 5 <= DF_FILENAME_SIZE
  BY <1>2, NamesAssumption, MarksAssumption
<1>4. AppendString(<<>>, RenamePrefix) = RenamePrefix
  <2>1. Len(<<>>) + Len(RenamePrefix) <= DF_FILENAME_SIZE
    BY <1>2, <1>3
  <2>2. AppendString(<<>>, RenamePrefix) = <<>> \o RenamePrefix
    BY <2>1, <1>2, Codes, AppendFits
  <2>3. QED
    BY <2>2, <1>2, ConcatEmptySeq DEF Text
<1>5. a \in Text /\ Len(a) = 5 + Len(n) /\ AppendString(RenamePrefix, n) = a
  <2>1. Len(RenamePrefix) + Len(n) <= DF_FILENAME_SIZE
    BY <1>1, <1>2, <1>3
  <2>2. QED
    BY <2>1, <1>1, <1>2, AppendFits
<1> HIDE DEF a
<1>6. HeldName(n) = AppendString(a, RenameSuffix)
  BY <1>4, <1>5 DEF HeldName
<1>7. CASE Len(a) + 4 <= DF_FILENAME_SIZE
  BY <1>2, <1>6, <1>7 DEF AppendString, MarkedName, a
<1>8. CASE ~(Len(a) + 4 <= DF_FILENAME_SIZE)
  <2>1. HeldName(n) = a
    BY <1>2, <1>6, <1>8 DEF AppendString
  <2>2. Len(a) <= MaxComponent
    BY <2>1 DEF CanBeHeld
  <2>3. QED
    BY <1>1, <1>3, <1>5, <1>8, <2>2
<1>9. QED
  BY <1>7, <1>8

HasNameLayout(h, n) ==
    LET m == Len(n)
    IN  /\ h \in Text /\ m \in Nat
        /\ Len(h) = m + 9
        /\ h[1] = "." /\ h[2] = "^" /\ h[3] = "^" /\ h[4] = "^" /\ h[5] = "."
        /\ \A i \in 1 .. m : h[5 + i] = n[i]
        /\ h[m + 6] = "." /\ h[m + 7] = "^"
        /\ h[m + 8] = "^" /\ h[m + 9] = "^"

\* Where everything is in a held name: it is a held path with no directory
\* before it and nothing after it.
LEMMA HeldNameLayout ==
    ASSUME NEW n \in Text
    PROVE  HasNameLayout(MarkedName(n), n)
<1> DEFINE h == MarkedName(n)
           m == Len(n)
<1>1. <<>> \in Text /\ Len(<<>>) = 0
  BY Codes
<1>2. h \in Text
  <2>1. RenamePrefix \o n \in Text
    BY Marks, Joined
  <2>2. QED
    BY <2>1, Marks, Joined DEF MarkedName
<1>3. HeldText(<<>>, n) = h
  <2>1. <<>> \o h = h
    BY <1>2, ConcatEmptySeq DEF Text
  <2>2. QED
    BY <2>1 DEF HeldText, MarkedName
<1>4. HasLayout(<<>>, n, <<>>)
  BY <1>1, Layout
<1> HIDE DEF h, m
<1>5. /\ m \in Nat /\ Len(h) = 0 + m + 9
      /\ h[0 + 1] = "." /\ h[0 + 2] = "^" /\ h[0 + 3] = "^"
      /\ h[0 + 4] = "^" /\ h[0 + 5] = "."
      /\ \A i \in 1 .. m : h[0 + 5 + i] = n[i]
      /\ h[0 + m + 6] = "." /\ h[0 + m + 7] = "^"
      /\ h[0 + m + 8] = "^" /\ h[0 + m + 9] = "^"
  BY <1>1, <1>3, <1>4 DEF HasLayout, m
<1>6. HasNameLayout(h, n)
  BY <1>2, <1>5 DEF HasNameLayout, m
<1>7. QED
  BY <1>6 DEF h

\* The greatest of a set of integers, which Max picks.
LEMMA GreatestElement ==
    ASSUME NEW S \in SUBSET Int, NEW m \in S, \A x \in S : x <= m
    PROVE  Max(S) = m
<1>1. Max(S) \in S /\ \A y \in S : Max(S) >= y
  <2>1. \E x \in S : \A y \in S : x >= y
    OBVIOUS
  <2>2. QED
    BY <2>1, Zenon DEF Max
<1>2. Max(S) \in Int /\ m \in Int /\ Max(S) <= m /\ m <= Max(S)
  BY <1>1
<1>3. QED
  BY <1>2

\* A held file has an extension, and it is the last three of the marks.
LEMMA HeldExtension ==
    ASSUME NEW n \in Text
    PROVE  Extension(MarkedName(n)) = <<"^", "^", "^">>
<1> DEFINE h == MarkedName(n)
           m == Len(n)
           dots == {i \in 1 .. Len(h) : h[i] = "."}
           x == SubSeq(h, m + 7, m + 9)
           y == <<"^", "^", "^">>
<1>1. /\ h \in Text /\ m \in Nat /\ Len(h) = m + 9
      /\ h[m + 6] = "." /\ h[m + 7] = "^"
      /\ h[m + 8] = "^" /\ h[m + 9] = "^"
  BY HeldNameLayout DEF HasNameLayout
<1> HIDE DEF h, m
<1>2. m + 6 \in dots /\ dots \in SUBSET Int
  BY <1>1
<1>3. \A i \in dots : i <= m + 6
  <2>1. TAKE i \in dots
  <2>2. i \in 1 .. m + 9 /\ h[i] = "."
    BY <1>1
  <2>3. i # m + 7 /\ i # m + 8 /\ i # m + 9
    BY <1>1, <2>2
  <2>4. QED
    BY <1>1, <2>2, <2>3
<1>4. Max(dots) = m + 6
  BY <1>2, <1>3, GreatestElement
<1>5. dots # {}
  BY <1>2
<1>6. Extension(h) = SubSeq(h, (m + 6) + 1, m + 9)
  BY <1>1, <1>4, <1>5, Zenon DEF Extension
<1>7. (m + 6) + 1 = m + 7
  BY <1>1
<1>8. x \in Seq(Char) /\ Len(x) = 3 /\ \A k \in 1 .. 3 : x[k] = y[k]
  <2>1. x \in Seq(Char) /\ Len(x) = 3 /\ \A k \in 1 .. 3 : x[k] = h[m + 6 + k]
    BY <1>1 DEF Text
  <2>2. y[1] = "^" /\ y[2] = "^" /\ y[3] = "^"
    OBVIOUS
  <2> HIDE DEF x, y
  <2>3. x[1] = h[m + 7] /\ x[2] = h[m + 8] /\ x[3] = h[m + 9]
    BY <1>1, <2>1
  <2>4. QED
    BY <1>1, <2>1, <2>2, <2>3
<1>9. y \in Seq(Char) /\ Len(y) = 3
  BY NamesAssumption
<1> HIDE DEF x, y
<1>10. x = y
  <2>1. Len(x) = Len(y) /\ \A k \in 1 .. Len(x) : x[k] = y[k]
    BY <1>8, <1>9
  <2>2. QED
    BY <1>8, <1>9, <2>1, SeqEqual, Zenon
<1>11. QED
  BY <1>6, <1>7, <1>10 DEF h, x, y

\* The k characters after the i-th of s are those after the j-th of t ...
Agree(s, i, t, j, k) ==
    /\ i + k <= Len(s)
    /\ j + k <= Len(t)
    /\ \A x \in 1 .. k : s[i + x] = t[j + x]

\* ... and then so are the parts that these make up.
LEMMA SameSubSeq ==
    ASSUME NEW s \in Text, NEW t \in Text, NEW i \in Nat, NEW j \in Nat,
           NEW k \in Nat, Agree(s, i, t, j, k)
    PROVE  SubSeq(s, i + 1, i + k) = SubSeq(t, j + 1, j + k)
<1> DEFINE a == SubSeq(s, i + 1, i + k)
           b == SubSeq(t, j + 1, j + k)
<1>1. a \in Seq(Char) /\ Len(a) = k /\ \A x \in 1 .. k : a[x] = s[i + x]
  BY DEF Agree, Text
<1>2. b \in Seq(Char) /\ Len(b) = k /\ \A x \in 1 .. k : b[x] = t[j + x]
  BY DEF Agree, Text
<1> HIDE DEF a, b
<1>3. Len(a) = Len(b) /\ \A x \in 1 .. Len(a) : a[x] = b[x]
  BY <1>1, <1>2 DEF Agree
<1>4. a = b
  BY <1>1, <1>2, <1>3, SeqEqual, Zenon
<1>5. QED
  BY <1>4 DEF a, b

\* A word that is in a name is in the held name ...
LEMMA WordIsKept ==
    ASSUME NEW n \in Text, NEW w \in Text, FindSubString(n, w)
    PROVE  FindSubString(MarkedName(n), w)
<1> DEFINE h == MarkedName(n)
           m == Len(n)
           k == Len(w)
<1>1. PICK i \in 0 .. m - k : SubSeq(n, i + 1, i + k) = w
  BY DEF FindSubString
<1>2. /\ h \in Text /\ m \in Nat /\ Len(h) = m + 9
      /\ \A x \in 1 .. m : h[5 + x] = n[x]
  BY HeldNameLayout DEF HasNameLayout
<1>3. k \in Nat
  BY DEF Text
<1>4. m = Len(n) /\ k = Len(w)
  OBVIOUS
<1> HIDE DEF h, m, k
<1>5. /\ i \in Nat /\ i + 5 \in Nat /\ i + k <= Len(n) /\ (i + 5) + k <= Len(h)
      /\ \A x \in 1 .. k : n[i + x] = h[(i + 5) + x]
  <2>1. i \in Nat /\ i + k <= m
    BY <1>1, <1>2, <1>3
  <2>2. ASSUME NEW x \in 1 .. k PROVE n[i + x] = h[(i + 5) + x]
    <3>1. i + x \in 1 .. m /\ (i + 5) + x = 5 + (i + x)
      BY <1>2, <1>3, <2>1
    <3>2. QED
      BY <1>2, <3>1
  <2>3. QED
    BY <1>2, <1>3, <1>4, <2>1, <2>2
<1>6. SubSeq(h, (i + 5) + 1, (i + 5) + k) = w
  <2>1. SubSeq(n, i + 1, i + k) = SubSeq(h, (i + 5) + 1, (i + 5) + k)
    BY <1>2, <1>3, <1>5, SameSubSeq DEF Agree
  <2>2. QED
    BY <1>1, <2>1
<1>7. i + 5 \in 0 .. Len(h) - k
  BY <1>2, <1>3, <1>5
<1>8. QED
  BY <1>4, <1>6, <1>7 DEF FindSubString, h

\* ... and a word without the marks' characters that is not in a path is not
\* in the held path either: it cannot lie across a mark.
LEMMA WordIsNotAdded ==
    ASSUME NEW d \in Text, NEW n \in Text, NEW w \in Text,
           \A i \in 1 .. Len(w) : w[i] \notin {".", "^"},
           FindSubString(d \o MarkedName(n), w)
    PROVE  FindSubString(d \o n, w)
<1> DEFINE h == d \o MarkedName(n)
           u == d \o n
           l == Len(d)
           m == Len(n)
           k == Len(w)
<1>1. /\ h \in Text /\ l \in Nat /\ m \in Nat
      /\ Len(h) = l + m + 9
      /\ \A i \in 1 .. l : h[i] = d[i]
      /\ h[l + 1] = "." /\ h[l + 2] = "^" /\ h[l + 3] = "^"
      /\ h[l + 4] = "^" /\ h[l + 5] = "."
      /\ \A i \in 1 .. m : h[l + 5 + i] = n[i]
      /\ h[l + m + 6] = "." /\ h[l + m + 7] = "^"
      /\ h[l + m + 8] = "^" /\ h[l + m + 9] = "^"
  <2>1. HasLayout(d, n, <<>>)
    BY Codes, Layout
  <2>2. HeldText(d, n) = h
    BY DEF HeldText, MarkedName
  <2> HIDE DEF h
  <2>3. QED
    BY <2>1, <2>2 DEF HasLayout
<1>2. /\ u \in Text /\ Len(u) = l + m
      /\ \A i \in 1 .. l : u[i] = d[i]
      /\ \A i \in 1 .. m : u[l + i] = n[i]
  BY Joined
<1>3. k \in Nat /\ k = Len(w)
  BY DEF Text
<1>4. PICK i \in 0 .. Len(h) - k : SubSeq(h, i + 1, i + k) = w
  BY DEF FindSubString
<1> HIDE DEF h, u, l, m, k
<1>5. i \in Nat /\ i + k <= l + m + 9
  BY <1>1, <1>3, <1>4
<1>6. \A x \in 1 .. k : h[i + x] \notin {".", "^"}
  <2>1. TAKE x \in 1 .. k
  <2>2. SubSeq(h, i + 1, i + k)[x] = h[i + x]
    BY <1>1, <1>3, <1>5 DEF Text
  <2>3. QED
    BY <1>3, <1>4, <2>2
<1>7. ASSUME NEW j \in Nat, j + k <= l + m,
             \A x \in 1 .. k : h[i + x] = u[j + x]
      PROVE  FindSubString(u, w)
  <2>1. SubSeq(h, i + 1, i + k) = SubSeq(u, j + 1, j + k)
    <3>1. Agree(h, i, u, j, k)
      BY <1>1, <1>2, <1>3, <1>5, <1>7 DEF Agree
    <3>2. \A x, y, z \in Nat : Agree(h, x, u, y, z) =>
            SubSeq(h, x + 1, x + z) = SubSeq(u, y + 1, y + z)
      BY <1>1, <1>2, SameSubSeq, Zenon
    <3>3. QED
      BY <1>3, <1>5, <3>1, <3>2, Zenon
  <2>2. j \in 0 .. Len(u) - Len(w)
    BY <1>1, <1>2, <1>3, <1>7
  <2>3. SubSeq(u, j + 1, j + Len(w)) = w
    BY <1>3, <1>4, <2>1
  <2>4. QED
    BY <2>2, <2>3 DEF FindSubString
<1>8. CASE k = 0
  <2>1. 0 \in Nat /\ 0 + k <= l + m /\ \A x \in 1 .. k : h[i + x] = u[0 + x]
    BY <1>1, <1>8
  <2>2. QED
    BY <1>7, <2>1 DEF u
<1>9. CASE k # 0 /\ i + 1 <= l
  <2>1. i + k <= l
    <3>1. SUFFICES ASSUME i + k > l PROVE FALSE
      BY <1>1, <1>3, <1>5
    <3>2. l + 1 - i \in 1 .. k /\ i + (l + 1 - i) = l + 1
      BY <1>1, <1>3, <1>5, <1>9, <3>1
    <3>3. h[l + 1] \notin {".", "^"}
      BY <1>6, <3>2
    <3>4. QED
      BY <1>1, <3>3
  <2>2. \A x \in 1 .. k : h[i + x] = u[i + x]
    <3>1. TAKE x \in 1 .. k
    <3>2. i + x \in 1 .. l
      BY <1>1, <1>3, <1>5, <2>1
    <3>3. QED
      BY <1>1, <1>2, <3>2
  <2>3. i + k <= l + m
    BY <1>1, <1>3, <1>5, <2>1
  <2>4. QED
    BY <1>5, <1>7, <2>2, <2>3 DEF u
<1>10. CASE k # 0 /\ i + 1 > l
  <2>1. i + 1 >= l + 6
    <3>1. 1 \in 1 .. k
      BY <1>3, <1>10
    <3>2. h[i + 1] \notin {".", "^"}
      BY <1>6, <3>1
    <3>3. /\ i + 1 # l + 1 /\ i + 1 # l + 2 /\ i + 1 # l + 3
          /\ i + 1 # l + 4 /\ i + 1 # l + 5
      BY <1>1, <3>2
    <3>4. QED
      BY <1>1, <1>5, <1>10, <3>3
  <2>2. i + k <= l + m + 5
    <3>1. SUFFICES ASSUME i + k > l + m + 5 PROVE FALSE
      BY <1>1, <1>3, <1>5
    <3>2. h[i + k] \notin {".", "^"}
      BY <1>3, <1>6, <1>10
    <3>3. /\ i + k # l + m + 6 /\ i + k # l + m + 7
          /\ i + k # l + m + 8 /\ i + k # l + m + 9
      BY <1>1, <3>2
    <3>4. QED
      BY <1>1, <1>3, <1>5, <3>1, <3>3
  <2> DEFINE j == i - 5
  <2>3. j \in Nat /\ j >= l /\ j + k <= l + m
    BY <1>1, <1>3, <1>5, <2>1, <2>2
  <2>4. \A x \in 1 .. k : h[i + x] = u[j + x]
    <3>1. TAKE x \in 1 .. k
    <3> DEFINE y == i - 5 + x - l
    <3>2. y \in 1 .. m /\ i + x = l + 5 + y /\ j + x = l + y
      BY <1>1, <1>3, <1>5, <2>1, <2>2
    <3> HIDE DEF y, j
    <3>3. h[l + 5 + y] = n[y] /\ u[l + y] = n[y]
      BY <1>1, <1>2, <3>2
    <3>4. QED
      BY <3>2, <3>3
  <2> HIDE DEF j
  <2>5. QED
    BY <1>7, <2>3, <2>4 DEF u
<1>11. QED
  BY <1>1, <1>5, <1>8, <1>9, <1>10 DEF u

\* Two names with the same held name are the same.
LEMMA MarkedNameOnce ==
    ASSUME NEW n \in Text, NEW q \in Text, MarkedName(n) = MarkedName(q)
    PROVE  n = q
<1> DEFINE h == MarkedName(n)
<1>1. /\ Len(n) \in Nat /\ Len(h) = Len(n) + 9
      /\ \A i \in 1 .. Len(n) : h[5 + i] = n[i]
  BY HeldNameLayout DEF HasNameLayout
<1>2. /\ Len(q) \in Nat /\ Len(h) = Len(q) + 9
      /\ \A i \in 1 .. Len(q) : h[5 + i] = q[i]
  <2>1. HasNameLayout(MarkedName(q), q)
    BY HeldNameLayout
  <2>2. HasNameLayout(h, q)
    BY <2>1
  <2> HIDE DEF h
  <2>3. QED
    BY <2>2 DEF HasNameLayout
<1> HIDE DEF h
<1>3. Len(n) = Len(q) /\ \A i \in 1 .. Len(n) : n[i] = q[i]
  BY <1>1, <1>2
<1>4. QED
  BY <1>3, SeqEqual, Zenon DEF Text

LEMMA MarkedHasPrefix ==
    ASSUME NEW n \in Text
    PROVE  HasRenamePrefix(MarkedName(n))
<1> DEFINE h == MarkedName(n)
<1>1. /\ h \in Text /\ Len(n) \in Nat /\ Len(h) = Len(n) + 9
      /\ h[1] = "." /\ h[2] = "^" /\ h[3] = "^" /\ h[4] = "^" /\ h[5] = "."
  BY HeldNameLayout DEF HasNameLayout
<1> HIDE DEF h
<1>2. 5 \in 5 .. Len(h) /\ PrefixHere(h, 5)
  BY <1>1 DEF PrefixHere
<1>3. EndsAt(h, 5, RenamePrefix)
  BY <1>1, <1>2, PrefixAt
<1>4. SubSeq(h, 1, Len(RenamePrefix)) = RenamePrefix
  BY <1>3, Marks DEF EndsAt
<1>5. Len(RenamePrefix) <= Len(h)
  BY <1>1, Marks
<1>6. QED
  BY <1>1, <1>4, <1>5 DEF HasRenamePrefix, IsPrefix, h

\* What gets a backup gets one under its held name too: the extension is the
\* marks', the name is long enough and ends with a mark, and no word is added.
LEMMA HeldGetsBackup ==
    ASSUME NEW p \in Path, Len(p.name) <= MaxComponent, CanBeHeld(p),
           IsBackupAllowed(p)
    PROVE  IsBackupAllowed(HeldPath(p))
<1> DEFINE n == p.name
           d == p.dir
           q == HeldPath(p)
<1>1. n \in Text /\ d \in Text
  BY DEF Path
<1>2. q.dir = d /\ q.name = MarkedName(n)
  BY HeldNameIsWhole DEF HeldPath
<1>3. \A w \in IgnoreSubdirInPath : ~FindSubString(d \o n, w)
  BY DEF IsBackupAllowed
<1> HIDE DEF n, d, q
<1>4. /\ Len(n) \in Nat /\ Len(MarkedName(n)) = Len(n) + 9
      /\ MarkedName(n)[Len(n) + 9] = "^"
  BY <1>1, HeldNameLayout DEF HasNameLayout
<1>5. Extension(q.name) = <<"^", "^", "^">>
  BY <1>1, <1>2, HeldExtension
<1>6. Extension(q.name) # <<>>
  BY <1>5
<1>7. Extension(q.name) \notin BackupExtentionsIgnore
  BY <1>5, MarksAssumption
<1>8. Len(q.name) > 1 /\ q.name[Len(q.name)] # "~"
  BY <1>2, <1>4
<1>9. ASSUME NEW w \in IgnoreSubdirInPath
      PROVE  ~FindSubString(q.dir \o q.name, w)
  <2>1. w \in Text /\ \A i \in 1 .. Len(w) : w[i] \notin {".", "^"}
    BY MarksAssumption
  <2>2. ~FindSubString(d \o n, w)
    BY <1>3
  <2>3. ~FindSubString(d \o MarkedName(n), w)
    BY <1>1, <2>1, <2>2, WordIsNotAdded
  <2>4. QED
    BY <1>2, <2>3
<1>10. IsBackupAllowed(q)
  BY <1>6, <1>7, <1>8, <1>9 DEF IsBackupAllowed
<1>11. QED
  BY <1>10 DEF q

\* The names of held files are in the classes that Shield gives them: no
\* request renames a held file or holds it again, the filter for backups lets
\* it through if it let the file through, and what was protected still is.
THEOREM HeldNamesKeepTheirClass ==
    ASSUME NEW p \in Path, Len(p.name) <= MaxComponent, CanBeHeld(p)
    PROVE  LET q == HeldPath(p)
           IN  /\ HasRenamePrefix(q.name)
               /\ ~IsRenameAllowed(q)
               /\ IsBackupAllowed(p) => IsBackupAllowed(q)
               /\ HasProtectedWord(p.name) => HasProtectedWord(q.name)
<1> DEFINE q == HeldPath(p)
<1>1. p.name \in Text /\ q.name = MarkedName(p.name)
  BY HeldNameIsWhole DEF HeldPath, Path
<1>2. HasRenamePrefix(q.name)
  BY <1>1, MarkedHasPrefix
<1>3. ~IsRenameAllowed(q)
  BY <1>2 DEF IsRenameAllowed
<1>4. IsBackupAllowed(p) => IsBackupAllowed(q)
  BY HeldGetsBackup
<1>5. HasProtectedWord(p.name) => HasProtectedWord(q.name)
  <2>1. SUFFICES ASSUME NEW w \in ProtectedWords, FindSubString(p.name, w)
                 PROVE  HasProtectedWord(q.name)
    BY DEF HasProtectedWord
  <2>2. w \in Text
    BY MarksAssumption
  <2>3. FindSubString(q.name, w)
    BY <1>1, <2>1, <2>2, WordIsKept
  <2>4. QED
    BY <2>3 DEF HasProtectedWord
<1>6. QED
  BY <1>2, <1>3, <1>4, <1>5

\* Two files share a held path only if they had the same path: what is read
\* from it, uploaded from it and deleted at it is one path's.
THEOREM HeldPathsDiffer ==
    ASSUME NEW p \in Path, Len(p.name) <= MaxComponent, CanBeHeld(p),
           NEW q \in Path, Len(q.name) <= MaxComponent, CanBeHeld(q),
           HeldPath(p) = HeldPath(q)
    PROVE  p = q
<1>1. p.dir = q.dir /\ MarkedName(p.name) = MarkedName(q.name)
  BY HeldNameIsWhole DEF HeldPath
<1>2. p.name \in Text /\ q.name \in Text
  BY DEF Path
<1>3. p.name = q.name
  BY <1>1, <1>2, MarkedNameOnce
<1>4. QED
  BY <1>1, <1>3 DEF Path

-----------------------------------------------------------------------------
(* What buffer_to_paths takes for a held path *)

\* A set of naturals has a least element, which Min picks.
LEMMA LeastOfNaturals ==
    ASSUME NEW S \in SUBSET Nat, S # {}
    PROVE  Min(S) \in S /\ \A x \in S : Min(S) <= x
<1> DEFINE R == OpToRel(<, Nat)
<1>1. IsWellFoundedOn(R, Nat)
  BY NatLessThanWellFounded
<1>2. \A x, y \in Nat : <<y, x>> \in R <=> y < x
  BY DEF OpToRel
<1> HIDE DEF R
<1>3. PICK x \in S : \A y \in S : ~(<<y, x>> \in R)
  BY <1>1, WFMin, Zenon
<1>4. \A y \in S : x <= y
  <2>1. TAKE y \in S
  <2>2. x \in Nat /\ y \in Nat /\ ~(y < x)
    BY <1>2, <1>3, Zenon
  <2>3. QED
    BY <2>2
<1>5. QED
  BY <1>4, Zenon DEF Min

\* A reading of the text t: the first prefix in it ends at pre, the first
\* suffix after that at post.
IsReading(t, pre, post, r) ==
    /\ pre \in 5 .. post - 1
    /\ post \in 1 .. Len(t)
    /\ EndsAt(t, pre, RenamePrefix)
    /\ EndsAt(t, post, RenameSuffix)
    /\ \A i \in 5 .. pre - 1 : ~EndsAt(t, i, RenamePrefix)
    /\ \A i \in pre + 1 .. post - 1 : ~EndsAt(t, i, RenameSuffix)
    /\ r.from = SubSeq(t, 1, post)
    /\ r.to = SubSeq(t, 1, pre - 5) \o Characters(t, pre + 1, post - pre - 4)

LEMMA ValidReading ==
    ASSUME NEW limit \in Nat, NEW t \in Text, PathsUpTo(limit, t).valid
    PROVE  \E pre, post \in Nat : IsReading(t, pre, post, PathsUpTo(limit, t))
<1> DEFINE last == IF Len(t) < limit THEN Len(t) ELSE limit
           starts == {i \in 5 .. last : EndsAt(t, i, RenamePrefix)}
           pre == Min(starts)
           ends == {i \in pre + 1 .. last : EndsAt(t, i, RenameSuffix)}
           post == Min(ends)
           r == PathsUpTo(limit, t)
<1>1. r = IF starts = {} THEN NoPaths
          ELSE IF ends = {} THEN NoPaths
          ELSE [valid |-> TRUE,
                from  |-> SubSeq(t, 1, post),
                to    |-> SubSeq(t, 1, pre - 5)
                            \o Characters(t, pre + 1, post - pre - 4)]
  BY DEF PathsUpTo
<1>2. last \in Nat /\ last <= Len(t)
  BY DEF Text
<1>3. starts # {} /\ ends # {}
  <2>1. r.valid
    OBVIOUS
  <2>2. NoPaths.valid = FALSE
    BY DEF NoPaths
  <2> HIDE DEF starts, ends, pre, post, r
  <2>3. QED
    BY <1>1, <2>1, <2>2
<1>4. /\ r.from = SubSeq(t, 1, post)
      /\ r.to = SubSeq(t, 1, pre - 5)
                  \o Characters(t, pre + 1, post - pre - 4)
  <2> HIDE DEF starts, ends, pre, post, r
  <2>1. QED
    BY <1>1, <1>3
<1> HIDE DEF last, r
<1>5. pre \in starts /\ \A i \in starts : pre <= i
  <2>1. starts \in SUBSET Nat
    BY <1>2
  <2> HIDE DEF starts
  <2>2. QED
    BY <1>3, <2>1, LeastOfNaturals
<1>6. pre \in 5 .. last
  BY <1>5
<1>7. EndsAt(t, pre, RenamePrefix)
  BY <1>5
<1>8. \A i \in 5 .. pre - 1 : ~EndsAt(t, i, RenamePrefix)
  <2>1. \A i \in 5 .. last : EndsAt(t, i, RenamePrefix) => pre <= i
    BY <1>5
  <2> HIDE DEF pre
  <2>2. QED
    BY <1>2, <1>6, <2>1
<1> HIDE DEF pre, starts
<1>9. post \in ends /\ \A i \in ends : post <= i
  <2>1. ends \in SUBSET Nat
    BY <1>2, <1>6
  <2> HIDE DEF ends
  <2>2. QED
    BY <1>3, <2>1, LeastOfNaturals
<1>10. post \in pre + 1 .. last /\ EndsAt(t, post, RenameSuffix)
  BY <1>9
<1>11. \A i \in pre + 1 .. post - 1 : ~EndsAt(t, i, RenameSuffix)
  <2>1. \A i \in pre + 1 .. last : EndsAt(t, i, RenameSuffix) => post <= i
    BY <1>9
  <2> HIDE DEF post
  <2>2. QED
    BY <1>2, <1>6, <1>10, <2>1
<1> HIDE DEF post, ends
<1>12. /\ pre \in Nat /\ post \in Nat
       /\ pre \in 5 .. post - 1 /\ post \in 1 .. Len(t)
  BY <1>2, <1>6, <1>10
<1>13. IsReading(t, pre, post, r)
  BY <1>4, <1>7, <1>8, <1>10, <1>11, <1>12 DEF IsReading
<1>14. QED
  BY <1>12, <1>13, Zenon DEF r

\* A text that is read as the held path of name n in the directory w is read
\* with that name and directory: a prefix that ends earlier would have the
\* suffix end within the shield's own prefix.
LEMMA HeldTextIsRead ==
    ASSUME NEW t \in Text, NEW w \in Text, NEW n \in Text,
           NEW pre \in Nat, NEW post \in Nat, NEW r,
           IsReading(t, pre, post, r), r.from = HeldText(w, n)
    PROVE  /\ r.to = w \o n
           /\ pre = Len(w) + 5
           /\ post = Len(w) + Len(n) + 9
<1> DEFINE h == HeldText(w, n)
           l == Len(w)
           m == Len(n)
<1>1. /\ h \in Text /\ l \in Nat /\ m \in Nat
      /\ Len(h) = l + m + 9
      /\ \A i \in 1 .. l : h[i] = w[i]
      /\ h[l + 1] = "." /\ h[l + 2] = "^" /\ h[l + 3] = "^"
      /\ h[l + 4] = "^" /\ h[l + 5] = "."
      /\ \A i \in 1 .. m : h[l + 5 + i] = n[i]
  <2>1. HasLayout(w, n, <<>>)
    BY Codes, Layout
  <2>2. QED
    BY <2>1 DEF HasLayout
<1>2. /\ Len(t) \in Nat /\ pre \in 5 .. post - 1 /\ post \in 1 .. Len(t)
      /\ EndsAt(t, pre, RenamePrefix)
      /\ \A i \in 5 .. pre - 1 : ~EndsAt(t, i, RenamePrefix)
      /\ \A i \in pre + 1 .. post - 1 : ~EndsAt(t, i, RenameSuffix)
      /\ h = SubSeq(t, 1, post)
      /\ r.to = SubSeq(t, 1, pre - 5)
                  \o Characters(t, pre + 1, post - pre - 4)
  BY DEF IsReading, Text
<1>3. l = Len(w) /\ m = Len(n)
  OBVIOUS
<1> HIDE DEF h, l, m
<1>4. post = l + m + 9 /\ \A i \in 1 .. post : t[i] = h[i]
  <2>1. /\ SubSeq(t, 1, post) \in Seq(Char)
        /\ Len(SubSeq(t, 1, post)) = post
        /\ \A i \in 1 .. post : SubSeq(t, 1, post)[i] = t[i]
    BY <1>2 DEF Text
  <2>2. QED
    BY <1>1, <1>2, <2>1
<1>5. pre \in 5 .. Len(t) /\ PrefixHere(t, pre)
  <2>1. pre \in 5 .. Len(t)
    BY <1>2
  <2>2. QED
    BY <1>2, <2>1, PrefixAt
<1>6. /\ t[l + 1] = "." /\ t[l + 2] = "^" /\ t[l + 3] = "^"
      /\ t[l + 4] = "^" /\ t[l + 5] = "."
  BY <1>1, <1>4
<1>7. pre <= l + 5
  <2>1. SUFFICES ASSUME pre > l + 5 PROVE FALSE
    BY <1>1, <1>2
  <2>2. l + 5 \in 5 .. Len(t) /\ l + 5 \in 5 .. pre - 1
    BY <1>1, <1>2, <2>1
  <2>3. PrefixHere(t, l + 5)
    BY <1>1, <1>6 DEF PrefixHere
  <2>4. QED
    BY <1>2, <2>2, <2>3, PrefixAt
<1>8. pre # l + 2 /\ pre # l + 3 /\ pre # l + 4
  BY <1>5, <1>6 DEF PrefixHere
<1>9. ~(pre <= l + 1)
  <2>1. SUFFICES ASSUME pre <= l + 1 PROVE FALSE
    OBVIOUS
  <2>2. l + 4 \in 4 .. Len(t) /\ l + 4 \in pre + 1 .. post - 1
    BY <1>1, <1>2, <1>4, <2>1
  <2>3. SuffixHere(t, l + 4)
    BY <1>1, <1>6 DEF SuffixHere
  <2>4. QED
    BY <1>2, <2>2, <2>3, SuffixAt
<1>10. pre = l + 5
  BY <1>1, <1>2, <1>7, <1>8, <1>9
<1>11. SubSeq(t, 1, l) = w
  <2> DEFINE a == SubSeq(t, 1, l)
  <2>1. a \in Seq(Char) /\ Len(a) = l /\ \A i \in 1 .. l : a[i] = t[i]
    BY <1>1, <1>2, <1>4 DEF Text
  <2> HIDE DEF a
  <2>2. Len(a) = Len(w) /\ \A i \in 1 .. Len(a) : a[i] = w[i]
    BY <1>1, <1>3, <1>4, <2>1
  <2>3. a = w
    BY <2>1, <2>2, SeqEqual, Zenon DEF Text
  <2>4. QED
    BY <2>3 DEF a
<1>12. Characters(t, l + 6, m) = n
  <2> DEFINE a == SubSeq(t, l + 6, l + 6 + m - 1)
  <2>1. a \in Seq(Char) /\ Len(a) = m /\ \A i \in 1 .. m : a[i] = t[l + 5 + i]
    BY <1>1, <1>2, <1>4 DEF Text
  <2>2. Characters(t, l + 6, m) = a
    BY <1>1 DEF Characters
  <2> HIDE DEF a
  <2>3. \A i \in 1 .. m : t[l + 5 + i] = h[l + 5 + i]
    BY <1>1, <1>4
  <2>4. Len(a) = Len(n) /\ \A i \in 1 .. Len(a) : a[i] = n[i]
    BY <1>1, <1>3, <2>1, <2>3
  <2>5. a = n
    BY <2>1, <2>4, SeqEqual, Zenon DEF Text
  <2>6. QED
    BY <2>2, <2>5
<1>13. pre - 5 = l /\ pre + 1 = l + 6 /\ post - pre - 4 = m
  BY <1>1, <1>4, <1>10
<1>14. QED
  BY <1>2, <1>3, <1>4, <1>10, <1>11, <1>12, <1>13

\* What is read as a path looks like one of the shield's.
LEMMA ReadingLooksHeld ==
    ASSUME NEW t \in Text, NEW pre \in Nat, NEW post \in Nat, NEW r,
           IsReading(t, pre, post, r), NEW p \in Path, FullPath(p) = r.from
    PROVE  LooksHeld(p)
<1> DEFINE u == FullPath(p)
<1>1. /\ pre \in 5 .. post - 1 /\ post \in 1 .. Len(t) /\ Len(t) \in Nat
      /\ EndsAt(t, pre, RenamePrefix) /\ EndsAt(t, post, RenameSuffix)
      /\ u = SubSeq(t, 1, post)
  BY DEF IsReading, Text
<1> HIDE DEF u
<1>2. u \in Text /\ Len(u) = post /\ \A i \in 1 .. post : u[i] = t[i]
  BY <1>1 DEF Text
<1>3. EndsAt(u, pre, RenamePrefix)
  <2>1. pre \in 5 .. Len(t) /\ pre \in 5 .. Len(u)
    BY <1>1, <1>2
  <2>2. PrefixHere(t, pre)
    BY <1>1, <2>1, PrefixAt
  <2>3. PrefixHere(u, pre)
    BY <1>1, <1>2, <2>2 DEF PrefixHere
  <2>4. QED
    BY <1>2, <2>1, <2>3, PrefixAt
<1>4. EndsAt(u, Len(u), RenameSuffix)
  <2>1. post \in 4 .. Len(t) /\ post \in 4 .. Len(u)
    BY <1>1, <1>2
  <2>2. SuffixHere(t, post)
    BY <1>1, <2>1, SuffixAt
  <2>3. SuffixHere(u, post)
    BY <1>1, <1>2, <2>2 DEF SuffixHere
  <2>4. QED
    BY <1>2, <2>1, <2>3, SuffixAt
<1>5. pre \in 5 .. Len(u) - 1
  BY <1>1, <1>2
<1>6. QED
  BY <1>3, <1>4, <1>5 DEF LooksHeld, u

-----------------------------------------------------------------------------
(* Which whole messages are read *)

\* A mark that is found in a text ends somewhere in it.
LEMMA Found ==
    ASSUME NEW t \in Text, NEW mark \in Text, FindSubString(t, mark)
    PROVE  \E i \in Len(mark) .. Len(t) : EndsAt(t, i, mark)
<1>1. PICK k \in 0 .. Len(t) - Len(mark) :
        SubSeq(t, k + 1, k + Len(mark)) = mark
  BY DEF FindSubString
<1>2. Len(t) \in Nat /\ Len(mark) \in Nat /\ k \in Nat
  BY DEF Text
<1> DEFINE i == k + Len(mark)
<1>3. i \in Len(mark) .. Len(t) /\ i - Len(mark) + 1 = k + 1
  BY <1>1, <1>2
<1>4. EndsAt(t, i, mark)
  <2>1. i >= Len(mark)
    BY <1>2
  <2>2. SubSeq(t, i - Len(mark) + 1, i) = mark
    BY <1>1, <1>3
  <2>3. QED
    BY <2>1, <2>2 DEF EndsAt
<1>5. QED
  BY <1>3, <1>4

\* A held path that is read as such has no prefix before the shield's and no
\* suffix before the shield's: the reading would begin, or end, there.
LEMMA HeldReadingIsUnmarked ==
    ASSUME NEW t \in Text, NEW w \in Text, NEW n \in Text,
           NEW pre \in Nat, NEW post \in Nat, NEW r,
           IsReading(t, pre, post, r), r.from = HeldText(w, n)
    PROVE  /\ ~FindSubString(w \o <<".">>, RenamePrefix)
           /\ ~FindSubString(<<".">> \o n, RenameSuffix)
<1> DEFINE h == HeldText(w, n)
           l == Len(w)
           m == Len(n)
<1>1. /\ h \in Text /\ l \in Nat /\ m \in Nat
      /\ Len(h) = l + m + 9
      /\ \A i \in 1 .. l : h[i] = w[i]
      /\ h[l + 1] = "." /\ h[l + 5] = "."
      /\ \A i \in 1 .. m : h[l + 5 + i] = n[i]
  <2>1. HasLayout(w, n, <<>>)
    BY Codes, Layout
  <2>2. QED
    BY <2>1 DEF HasLayout
<1>2. pre = l + 5 /\ post = l + m + 9
  BY HeldTextIsRead
<1>3. /\ Len(t) \in Nat /\ post \in 1 .. Len(t)
      /\ \A i \in 5 .. pre - 1 : ~EndsAt(t, i, RenamePrefix)
      /\ \A i \in pre + 1 .. post - 1 : ~EndsAt(t, i, RenameSuffix)
      /\ h = SubSeq(t, 1, post)
  BY DEF IsReading, Text
<1>4. Len(RenamePrefix) = 5 /\ Len(RenameSuffix) = 4
      /\ RenamePrefix \in Text /\ RenameSuffix \in Text /\ <<".">> \in Text
      /\ Len(<<".">>) = 1 /\ <<".">>[1] = "."
  BY Marks, NamesAssumption DEF Text
<1> DEFINE before == w \o <<".">>
           after == <<".">> \o n
<1>5. /\ before \in Text /\ Len(before) = l + 1
      /\ \A i \in 1 .. l : before[i] = w[i]
      /\ before[l + 1] = "."
  <2>1. /\ before \in Text
        /\ Len(before) = Len(w) + Len(<<".">>)
        /\ \A i \in 1 .. Len(w) : before[i] = w[i]
        /\ \A i \in 1 .. Len(<<".">>) : before[Len(w) + i] = <<".">>[i]
    BY <1>4, Joined, Zenon
  <2> HIDE DEF before
  <2>2. QED
    BY <1>4, <2>1
<1>6. /\ after \in Text /\ Len(after) = m + 1
      /\ after[1] = "."
      /\ \A i \in 1 .. m : after[1 + i] = n[i]
  <2>1. /\ after \in Text
        /\ Len(after) = Len(<<".">>) + Len(n)
        /\ \A i \in 1 .. Len(<<".">>) : after[i] = <<".">>[i]
        /\ \A i \in 1 .. Len(n) : after[Len(<<".">>) + i] = n[i]
    BY <1>4, Joined, Zenon
  <2> HIDE DEF after
  <2>2. QED
    BY <1>1, <1>4, <2>1
<1> HIDE DEF h, l, m, before, after
<1>7. \A i \in 1 .. post : t[i] = h[i]
  <2>1. \A i \in 1 .. post : SubSeq(t, 1, post)[i] = t[i]
    BY <1>3 DEF Text
  <2>2. QED
    BY <1>3, <2>1
<1>8. \A i \in 1 .. l + 1 : t[i] = before[i]
  BY <1>1, <1>2, <1>5, <1>7
<1>9. \A i \in 1 .. m + 1 : t[l + 4 + i] = after[i]
  <2>1. TAKE i \in 1 .. m + 1
  <2>2. l + 4 + i \in 1 .. post
    BY <1>1, <1>2
  <2>3. CASE i = 1
    BY <1>1, <1>6, <1>7, <2>2, <2>3
  <2>4. CASE i # 1
    <3>1. i - 1 \in 1 .. m /\ l + 5 + (i - 1) = l + 4 + i /\ 1 + (i - 1) = i
      BY <1>1, <2>4
    <3>2. h[l + 5 + (i - 1)] = n[i - 1] /\ after[1 + (i - 1)] = n[i - 1]
      BY <1>1, <1>6, <3>1
    <3>3. QED
      BY <1>7, <2>2, <3>1, <3>2
  <2>5. QED
    BY <2>3, <2>4
<1>10. ~FindSubString(before, RenamePrefix)
  <2>1. SUFFICES ASSUME FindSubString(before, RenamePrefix) PROVE FALSE
    OBVIOUS
  <2>2. PICK i \in 5 .. l + 1 : EndsAt(before, i, RenamePrefix)
    <3>1. \E i \in Len(RenamePrefix) .. Len(before) :
            EndsAt(before, i, RenamePrefix)
      BY <1>4, <1>5, <2>1, Found
    <3>2. QED
      BY <1>4, <1>5, <3>1
  <2>3. i \in 5 .. Len(before) /\ i \in 5 .. Len(t) /\ i \in 5 .. pre - 1
    BY <1>1, <1>2, <1>3, <1>5
  <2>4. PrefixHere(before, i)
    BY <1>5, <2>2, <2>3, PrefixAt
  <2>5. PrefixHere(t, i)
    BY <1>1, <1>8, <2>2, <2>4 DEF PrefixHere
  <2>6. EndsAt(t, i, RenamePrefix)
    BY <2>3, <2>5, PrefixAt
  <2>7. QED
    BY <1>3, <2>3, <2>6
<1>11. ~FindSubString(after, RenameSuffix)
  <2>1. SUFFICES ASSUME FindSubString(after, RenameSuffix) PROVE FALSE
    OBVIOUS
  <2>2. PICK i \in 4 .. m + 1 : EndsAt(after, i, RenameSuffix)
    <3>1. \E i \in Len(RenameSuffix) .. Len(after) :
            EndsAt(after, i, RenameSuffix)
      BY <1>4, <1>6, <2>1, Found
    <3>2. QED
      BY <1>4, <1>6, <3>1
  <2> DEFINE k == l + 4 + i
  <2>3. /\ i \in 4 .. Len(after) /\ k \in 4 .. Len(t)
        /\ k \in pre + 1 .. post - 1
    BY <1>1, <1>2, <1>3, <1>6
  <2>4. SuffixHere(after, i)
    BY <1>6, <2>2, <2>3, SuffixAt
  <2>5. SuffixHere(t, k)
    <3>1. /\ t[l + 4 + (i - 3)] = after[i - 3]
          /\ t[l + 4 + (i - 2)] = after[i - 2]
          /\ t[l + 4 + (i - 1)] = after[i - 1]
          /\ t[l + 4 + i] = after[i]
      BY <1>1, <1>9, <2>2
    <3>2. /\ k - 3 = l + 4 + (i - 3) /\ k - 2 = l + 4 + (i - 2)
          /\ k - 1 = l + 4 + (i - 1)
      BY <1>1, <2>2
    <3>3. QED
      BY <2>4, <3>1, <3>2 DEF SuffixHere
  <2> HIDE DEF k
  <2>6. EndsAt(t, k, RenameSuffix)
    BY <2>3, <2>5, SuffixAt
  <2>7. QED
    BY <1>3, <2>3, <2>6
<1>12. QED
  BY <1>10, <1>11 DEF before, after

\* What the driver reads after the code is the path the client has sent.
LEMMA AfterCodeIs ==
    ASSUME NEW code \in Text, NEW path \in Text, Len(code) = 1
    PROVE  AfterCode(code \o path) = path
<1> DEFINE c == code \o path
           a == SubSeq(c, 2, Len(c))
<1>1. /\ c \in Text /\ Len(path) \in Nat /\ Len(c) = 1 + Len(path)
      /\ \A i \in 1 .. Len(path) : c[1 + i] = path[i]
  <2>1. /\ c \in Text /\ Len(path) \in Nat /\ Len(c) = Len(code) + Len(path)
        /\ \A i \in 1 .. Len(path) : c[Len(code) + i] = path[i]
    BY Joined, Zenon
  <2> HIDE DEF c
  <2>2. QED
    BY <2>1
<1>2. a = AfterCode(c)
  BY DEF AfterCode
<1> HIDE DEF c
<1>3. a \in Seq(Char) /\ Len(a) = Len(path) /\ \A i \in 1 .. Len(a) : a[i] = c[1 + i]
  BY <1>1 DEF Text
<1> HIDE DEF a
<1>4. \A i \in 1 .. Len(a) : a[i] = path[i]
  BY <1>1, <1>3
<1>5. a = path
  BY <1>3, <1>4, SeqEqual, Zenon DEF Text
<1>6. QED
  BY <1>2, <1>5 DEF c

\* The path of a whole message is read as the one the file was given exactly
\* when the file's own path has no mark that the search meets first: with an
\* earlier prefix, or a suffix in the name, the client looks for another file,
\* whatever is left in the block (ShieldClient.cpp:264-291).
THEOREM ReadIffUnmarked ==
    ASSUME NEW p \in Path, NEW rest \in Text, Whole(p)
    PROVE  BufferToPaths(RenameInfo(p) \o rest).from = FullPath(HeldPath(p))
             <=> Unmarked(p)
<1> DEFINE w == Volume \o p.dir
           n == p.name
           h == FullPath(HeldPath(p))
           t == h \o rest
           r == PathsUpTo(MESSAGE_LENGTH, t)
<1>1. h = HeldText(w, n) /\ RenameInfo(p) = CodeBackupFile \o h
  BY WholeMessage
<1>2. w \in Text /\ n \in Text /\ MESSAGE_LENGTH \in Nat
  <2>1. Volume \in Text /\ p.dir \in Text
    BY NamesAssumption DEF Text, Path
  <2>2. QED
    BY <2>1, Joined, NamesAssumption DEF Path
<1>3. h \in Text /\ Len(h) > 0
  <2>1. HasLayout(w, n, <<>>)
    BY <1>2, Codes, Layout
  <2>2. HeldText(w, n) \in Text /\ Len(w) \in Nat /\ Len(n) \in Nat
        /\ Len(HeldText(w, n)) = Len(w) + Len(n) + 9
    BY <2>1 DEF HasLayout
  <2> HIDE DEF w, n, h
  <2>3. QED
    BY <1>1, <2>2
<1>4. t \in Text
  BY <1>3, Joined
<1>5. BufferToPaths(RenameInfo(p) \o rest) = r
  <2>1. CodeBackupFile \in Text /\ Len(CodeBackupFile) = 1
    BY Codes
  <2>2. (CodeBackupFile \o h) \o rest = CodeBackupFile \o t
    <3> HIDE DEF h
    <3>1. QED
      BY <1>3, <2>1, Associative, Zenon
  <2>3. AfterCode(CodeBackupFile \o t) = t
    <3> HIDE DEF t
    <3>1. QED
      BY <1>4, <2>1, AfterCodeIs
  <2>4. RenameInfo(p) \o rest = CodeBackupFile \o t
    BY <1>1, <2>2
  <2> HIDE DEF t
  <2>5. QED
    BY <2>3, <2>4 DEF BufferToPaths
<1>6. ASSUME Unmarked(p) PROVE r.from = h
  BY <1>5, <1>6, WholeMessageIsRead
<1>7. ASSUME r.from = h PROVE Unmarked(p)
  <2>1. r.valid
    <3>1. SUFFICES ASSUME ~r.valid PROVE r = NoPaths
      <4>1. Len(NoPaths.from) = 0
        BY DEF NoPaths
      <4> HIDE DEF r, h
      <4>2. QED
        BY <1>3, <1>7, <4>1
    <3>2. QED
      BY <3>1 DEF PathsUpTo
  <2>2. PICK pre \in Nat, post \in Nat : IsReading(t, pre, post, r)
    <3> HIDE DEF t
    <3>1. QED
      BY <1>2, <1>4, <2>1, ValidReading DEF r
  <2>3. /\ ~FindSubString(w \o <<".">>, RenamePrefix)
        /\ ~FindSubString(<<".">> \o n, RenameSuffix)
    <3> HIDE DEF t, r, w, n, h
    <3>1. QED
      BY <1>1, <1>2, <1>4, <1>7, <2>2, HeldReadingIsUnmarked
  <2>4. QED
    BY <2>3 DEF Unmarked
<1>8. QED
  BY <1>5, <1>6, <1>7

-----------------------------------------------------------------------------
(* The client's list and the files that are held *)

\* Only files that get a backup and whose held name NTFS takes are held ...
HeldFrom ==
    held \subseteq {p \in UserFile : IsBackupAllowed(p) /\ CanBeHeld(p)}

\* ... on the volume is nothing but users' files and held ones ...
DiskFrom == disk \subseteq UserFile \cup {HeldPath(p) : p \in held}

\* ... and every entry of the list was read from some text.
ListIsRead ==
    /\ files_to_backup_ \in Seq([from : Text, to : Text])
    /\ \A i \in 1 .. Len(files_to_backup_) :
         \E t \in Text, pre, post \in Nat :
           IsReading(t, pre, post, files_to_backup_[i])

KeepInv ==
    /\ HeldFrom
    /\ DiskFrom
    /\ ListIsRead
    /\ ListedFilesAreHeld
    /\ HeldFilesAreKept

\* The paths of a file that can be held.
LEMMA HeldFullPath ==
    ASSUME NEW p \in UserFile, CanBeHeld(p)
    PROVE  /\ p \in Path /\ HeldPath(p) \in Path
           /\ HeldPath(p).name = MarkedName(p.name)
           /\ Volume \o p.dir \in Text /\ p.name \in Text
           /\ FullPath(HeldPath(p)) = HeldText(Volume \o p.dir, p.name)
           /\ FullPath(p) = (Volume \o p.dir) \o p.name
           /\ FullPath(HeldPath(p)) \in Text /\ FullPath(p) \in Text
<1>1. p \in Path /\ Len(p.name) <= MaxComponent
  BY MessagesAssumption
<1>2. p.dir \in Text /\ p.name \in Text /\ Volume \in Text
  BY <1>1, NamesAssumption DEF Path, Text
<1>3. Volume \o p.dir \in Text
  BY <1>2, Joined
<1>4. HeldName(p.name) = MarkedName(p.name)
  BY <1>1, HeldNameIsWhole
<1>5. HeldPath(p).name = MarkedName(p.name) /\ HeldPath(p).dir = p.dir
  BY <1>4 DEF HeldPath
<1>6. FullPath(HeldPath(p)) = HeldText(Volume \o p.dir, p.name)
  BY <1>5 DEF FullPath, HeldText, MarkedName
<1>7. FullPath(p) = (Volume \o p.dir) \o p.name /\ FullPath(p) \in Text
  BY <1>2, <1>3, Joined DEF FullPath
<1>8. FullPath(HeldPath(p)) \in Text
  <2>1. MarkedName(p.name) \in Text
    BY <1>2, HeldNameLayout DEF HasNameLayout
  <2>2. QED
    BY <1>3, <1>5, <2>1, Joined DEF FullPath
<1>9. HeldPath(p) \in Path
  BY <1>1, HeldPathIsPath
<1>10. QED
  BY <1>1, <1>2, <1>3, <1>5, <1>6, <1>7, <1>8, <1>9

\* Whatever text a path on the volume is read from, it is the path of a held
\* file, and the other path that is read is the one every file has that would
\* be held there.
LEMMA ReadOnDisk ==
    ASSUME KeepInv, NEW t \in Text, NEW pre \in Nat, NEW post \in Nat, NEW r,
           IsReading(t, pre, post, r), NEW q \in disk, FullPath(q) = r.from
    PROVE  \E p \in held : /\ q = HeldPath(p)
                           /\ r.from = FullPath(HeldPath(p))
                           /\ r.to = FullPath(p)
<1>1. q \notin UserFile
  <2>1. SUFFICES ASSUME q \in UserFile PROVE FALSE
    OBVIOUS
  <2>2. q \in Path /\ ~LooksHeld(q)
    BY <2>1, MessagesAssumption
  <2>3. QED
    BY <2>2, ReadingLooksHeld
<1>2. PICK p \in held : q = HeldPath(p)
  BY <1>1 DEF KeepInv, DiskFrom
<1>3. p \in UserFile /\ CanBeHeld(p)
  BY DEF KeepInv, HeldFrom
<1>4. r.from = HeldText(Volume \o p.dir, p.name)
  BY <1>2, <1>3, HeldFullPath
<1>5. r.to = FullPath(p)
  <2> DEFINE w == Volume \o p.dir
             n == p.name
  <2>1. w \in Text /\ n \in Text /\ FullPath(p) = w \o n
    BY <1>3, HeldFullPath
  <2>2. r.from = HeldText(w, n)
    BY <1>4
  <2> HIDE DEF w, n
  <2>3. r.to = w \o n
    BY <2>1, <2>2, HeldTextIsRead
  <2>4. QED
    BY <2>1, <2>3
<1>6. QED
  BY <1>2, <1>5

LEMMA KeepInvInit == Init => KeepInv
<1> SUFFICES ASSUME Init PROVE KeepInv
  OBVIOUS
<1>1. held = {} /\ disk \subseteq UserFile /\ files_to_backup_ = <<>>
  BY DEF Init
<1>2. HeldFrom /\ DiskFrom /\ HeldFilesAreKept
  BY <1>1 DEF HeldFrom, DiskFrom, HeldFilesAreKept
<1>3. ListIsRead /\ ListedFilesAreHeld
  <2>1. <<>> \in Seq([from : Text, to : Text]) /\ Len(<<>>) = 0
    OBVIOUS
  <2>2. QED
    BY <1>1, <2>1 DEF ListIsRead, ListedFilesAreHeld
<1>4. QED
  BY <1>2, <1>3 DEF KeepInv

\* The list may lose its first entry, and files may be taken.
LEMMA ShorterList ==
    ASSUME ListIsRead, ListedFilesAreHeld, held \subseteq held',
           \/ files_to_backup_' = files_to_backup_
           \/ files_to_backup_ # <<>> /\ files_to_backup_' = Tail(files_to_backup_)
    PROVE  ListIsRead' /\ ListedFilesAreHeld'
<1> DEFINE Entries == [from : Text, to : Text]
           n == Len(files_to_backup_)
<1>1. files_to_backup_ \in Seq(Entries) /\ n \in Nat
  BY DEF ListIsRead
<1>2. CASE files_to_backup_' = files_to_backup_
  BY <1>2 DEF ListIsRead, ListedFilesAreHeld
<1>3. CASE files_to_backup_ # <<>> /\ files_to_backup_' = Tail(files_to_backup_)
  <2> HIDE DEF Entries
  <2>1. /\ files_to_backup_' \in Seq(Entries)
        /\ Len(files_to_backup_') = n - 1
        /\ \A i \in 1 .. n - 1 : /\ i + 1 \in 1 .. n
                                 /\ files_to_backup_'[i] = files_to_backup_[i + 1]
    BY <1>1, <1>3
  <2>2. ListIsRead'
    <3>1. ASSUME NEW i \in 1 .. n - 1
          PROVE  \E t \in Text, pre, post \in Nat :
                   IsReading(t, pre, post, files_to_backup_'[i])
      <4>1. \E t \in Text, pre, post \in Nat :
              IsReading(t, pre, post, files_to_backup_[i + 1])
        BY <2>1 DEF ListIsRead
      <4>2. QED
        BY <2>1, <4>1
    <3>2. QED
      BY <2>1, <3>1 DEF ListIsRead, Entries
  <2>3. ListedFilesAreHeld'
    <3>1. ASSUME NEW i \in 1 .. n - 1
          PROVE  \E p \in held' : files_to_backup_'[i] =
                   [from |-> FullPath(HeldPath(p)), to |-> FullPath(p)]
      <4>1. \E p \in held : files_to_backup_[i + 1] =
                   [from |-> FullPath(HeldPath(p)), to |-> FullPath(p)]
        BY <2>1 DEF ListedFilesAreHeld
      <4>2. QED
        BY <2>1, <4>1
    <3>2. QED
      BY <2>1, <3>1 DEF ListedFilesAreHeld
  <2>4. QED
    BY <2>2, <2>3
<1>4. QED
  BY <1>2, <1>3

\* Steps that touch neither the volume nor the cloud.
LEMMA ListStepKeeps ==
    ASSUME KeepInv, UNCHANGED <<disk, held, bypassed, cloud>>,
           \/ files_to_backup_' = files_to_backup_
           \/ files_to_backup_ # <<>> /\ files_to_backup_' = Tail(files_to_backup_)
    PROVE  KeepInv'
<1>1. HeldFrom' /\ DiskFrom' /\ HeldFilesAreKept'
  BY DEF KeepInv, HeldFrom, DiskFrom, HeldFilesAreKept
<1>2. ListIsRead' /\ ListedFilesAreHeld'
  BY ShorterList DEF KeepInv
<1>3. QED
  BY <1>1, <1>2 DEF KeepInv

\* What the reader puts on the list it has just found on the volume.
LEMMA QueueKeeps == ReadInv /\ KeepInv /\ QueueMessage => KeepInv'
<1> SUFFICES ASSUME ReadInv, KeepInv, QueueMessage PROVE KeepInv'
  OBVIOUS
<1> DEFINE b == Head(completed).block
           t == AfterCode(heap[b])
           r == BufferToPaths(heap[b])
           new == [from |-> r.from, to |-> r.to]
           n == Len(files_to_backup_)
           Entries == [from : Text, to : Text]
<1>1. /\ completed # <<>> /\ r.valid /\ OnDisk(r.from)
      /\ files_to_backup_' = Append(files_to_backup_, new)
      /\ UNCHANGED <<disk, held, bypassed, cloud>>
  BY DEF QueueMessage, Take, driverVars
<1>2. heap[b] \in Text
  <2>1. Head(completed) \in Entry
    BY <1>1 DEF ReadInv, ReadTypes
  <2>2. QED
    BY <2>1 DEF ReadInv, ReadTypes, Entry
<1>3. t \in Text
  BY <1>2 DEF AfterCode, Text
<1>4. r = PathsUpTo(MESSAGE_LENGTH, t) /\ MESSAGE_LENGTH \in Nat
  BY NamesAssumption DEF BufferToPaths
<1> HIDE DEF b, t, r
<1>5. PICK pre, post \in Nat : IsReading(t, pre, post, r)
  BY <1>1, <1>3, <1>4, ValidReading
<1>6. PICK p \in held : r.from = FullPath(HeldPath(p)) /\ r.to = FullPath(p)
  <2>1. PICK q \in disk : FullPath(q) = r.from
    BY <1>1 DEF OnDisk
  <2>2. QED
    BY <1>3, <1>5, <2>1, ReadOnDisk
<1>7. new = [from |-> FullPath(HeldPath(p)), to |-> FullPath(p)]
  BY <1>6
<1>8. new \in Entries
  <2>1. p \in UserFile /\ CanBeHeld(p)
    BY DEF KeepInv, HeldFrom
  <2>2. FullPath(HeldPath(p)) \in Text /\ FullPath(p) \in Text
    BY <2>1, HeldFullPath
  <2>3. QED
    BY <1>7, <2>2
<1>9. IsReading(t, pre, post, new)
  <2>1. new.from = r.from /\ new.to = r.to
    OBVIOUS
  <2> HIDE DEF new
  <2>2. QED
    BY <1>5, <2>1 DEF IsReading
<1> HIDE DEF new, Entries
<1>10. /\ files_to_backup_' \in Seq(Entries)
       /\ n \in Nat /\ Len(files_to_backup_') = n + 1
       /\ \A i \in 1 .. n : files_to_backup_'[i] = files_to_backup_[i]
       /\ files_to_backup_'[n + 1] = new
  BY <1>1, <1>8 DEF KeepInv, ListIsRead, Entries
<1> HIDE DEF n
<1>11. ListIsRead'
  <2>1. ASSUME NEW i \in 1 .. n + 1
        PROVE  \E u \in Text, x, y \in Nat :
                 IsReading(u, x, y, files_to_backup_'[i])
    <3>1. CASE i = n + 1
      BY <1>3, <1>5, <1>9, <1>10, <3>1
    <3>2. CASE i \in 1 .. n
      BY <1>10, <3>2 DEF KeepInv, ListIsRead, n
    <3>3. i = n + 1 \/ i \in 1 .. n
      BY <1>10
    <3>4. QED
      BY <3>1, <3>2, <3>3, Zenon
  <2>2. QED
    BY <1>10, <2>1 DEF ListIsRead, Entries
<1>12. ListedFilesAreHeld'
  <2>1. ASSUME NEW i \in 1 .. n + 1
        PROVE  \E q \in held' : files_to_backup_'[i] =
                 [from |-> FullPath(HeldPath(q)), to |-> FullPath(q)]
    <3>1. CASE i = n + 1
      BY <1>1, <1>7, <1>10, <3>1
    <3>2. CASE i \in 1 .. n
      BY <1>1, <1>10, <3>2 DEF KeepInv, ListedFilesAreHeld, n
    <3>3. QED
      BY <1>10, <3>1, <3>2
  <2>2. QED
    BY <1>10, <2>1 DEF ListedFilesAreHeld
<1>13. HeldFrom' /\ DiskFrom' /\ HeldFilesAreKept'
  BY <1>1 DEF KeepInv, HeldFrom, DiskFrom, HeldFilesAreKept
<1>14. QED
  BY <1>11, <1>12, <1>13 DEF KeepInv

\* The files that go with a delete command were uploaded under the names they
\* had: the path was read in one way, and that is theirs.
LEMMA BackUpKeeps == KeepInv /\ BackUp => KeepInv'
<1> SUFFICES ASSUME KeepInv, BackUp PROVE KeepInv'
  OBVIOUS
<1> DEFINE e == Head(files_to_backup_)
           gone == {p \in disk : FullPath(p) = CommandFileName(DeleteCode \o e.from)}
<1>1. /\ files_to_backup_ # <<>> /\ held' = held /\ bypassed' = bypassed
      /\ cloud' = cloud \cup {<<e.from, e.to>>}
      /\ disk' = disk \/ disk' = disk \ gone
      /\ \/ files_to_backup_' = files_to_backup_
         \/ files_to_backup_' = Tail(files_to_backup_)
  BY DEF BackUp
<1>2. e \in [from : Text, to : Text]
  <2> DEFINE Entries == [from : Text, to : Text]
  <2>1. files_to_backup_ \in Seq(Entries)
    BY DEF KeepInv, ListIsRead
  <2> HIDE DEF Entries
  <2>2. e \in Entries
    BY <1>1, <2>1
  <2>3. QED
    BY <2>2 DEF Entries
<1>3. PICK t \in Text, pre \in Nat, post \in Nat : IsReading(t, pre, post, e)
  <2>1. e = files_to_backup_[1] /\ 1 \in 1 .. Len(files_to_backup_)
    BY <1>1 DEF KeepInv, ListIsRead
  <2>2. QED
    BY <2>1 DEF KeepInv, ListIsRead
<1>4. CommandFileName(DeleteCode \o e.from) = e.from
  <2>1. DeleteCode \in Text /\ Len(DeleteCode) = 1
    BY NamesAssumption DEF DeleteCode, Text
  <2>2. QED
    BY <1>2, <2>1, AfterCodeIs DEF CommandFileName
<1>5. ASSUME NEW q \in gone
      PROVE  \E p \in held : /\ q = HeldPath(p)
                             /\ e.from = FullPath(HeldPath(p))
                             /\ e.to = FullPath(p)
  <2>1. q \in disk /\ FullPath(q) = e.from
    BY <1>4
  <2> HIDE DEF e, gone
  <2>2. QED
    BY <1>3, <2>1, ReadOnDisk
<1> HIDE DEF e, gone
<1>6. HeldFilesAreKept'
  <2>1. SUFFICES ASSUME NEW p \in held
                 PROVE  \/ HeldPath(p) \in disk'
                        \/ HeldPath(p) \in bypassed'
                        \/ <<FullPath(HeldPath(p)), FullPath(p)>> \in cloud'
    BY <1>1 DEF HeldFilesAreKept
  <2>2. CASE \/ HeldPath(p) \in bypassed
             \/ <<FullPath(HeldPath(p)), FullPath(p)>> \in cloud
    BY <1>1, <2>2
  <2>3. CASE HeldPath(p) \in disk /\ HeldPath(p) \notin gone
    BY <1>1, <2>3
  <2>4. CASE HeldPath(p) \in gone
    <3>1. PICK q \in held : /\ HeldPath(p) = HeldPath(q)
                            /\ e.from = FullPath(HeldPath(q))
                            /\ e.to = FullPath(q)
      BY <1>5, <2>4
    <3>2. /\ p \in Path /\ Len(p.name) <= MaxComponent /\ CanBeHeld(p)
          /\ q \in Path /\ Len(q.name) <= MaxComponent /\ CanBeHeld(q)
      BY MessagesAssumption DEF KeepInv, HeldFrom
    <3>3. p = q
      BY <3>1, <3>2, HeldPathsDiffer
    <3>4. QED
      BY <1>1, <3>1, <3>3
  <2>5. QED
    BY <2>2, <2>3, <2>4 DEF KeepInv, HeldFilesAreKept
<1>7. HeldFrom' /\ DiskFrom'
  BY <1>1 DEF KeepInv, HeldFrom, DiskFrom
<1>8. ListIsRead' /\ ListedFilesAreHeld'
  BY <1>1, ShorterList DEF KeepInv
<1>9. QED
  BY <1>6, <1>7, <1>8 DEF KeepInv

\* No request that is judged renames a held file.
LEMMA RenameKeeps ==
    ASSUME KeepInv, NEW q \in disk, Rename(q)
    PROVE  KeepInv'
<1>1. /\ IsRenameAllowed(q) /\ disk' = disk \ {q}
      /\ UNCHANGED <<held, bypassed, cloud, files_to_backup_>>
  BY DEF Rename
<1>2. HeldFilesAreKept'
  <2>1. SUFFICES ASSUME NEW p \in held PROVE HeldPath(p) # q
    BY <1>1 DEF KeepInv, HeldFilesAreKept
  <2>2. p \in Path /\ Len(p.name) <= MaxComponent /\ CanBeHeld(p)
    BY MessagesAssumption DEF KeepInv, HeldFrom
  <2>3. ~IsRenameAllowed(HeldPath(p))
    BY <2>2, HeldNamesKeepTheirClass, Zenon
  <2>4. QED
    BY <1>1, <2>3
<1>3. HeldFrom' /\ DiskFrom'
  BY <1>1 DEF KeepInv, HeldFrom, DiskFrom
<1>4. ListIsRead' /\ ListedFilesAreHeld'
  BY <1>1, ShorterList DEF KeepInv
<1>5. QED
  BY <1>2, <1>3, <1>4 DEF KeepInv

\* What passes unjudged is counted.
LEMMA PassKeeps ==
    ASSUME KeepInv, NEW q \in disk, Pass(q)
    PROVE  KeepInv'
<1>1. /\ disk' = disk \ {q}
      /\ bypassed' = bypassed \cup {x \in {q} : \E r \in held : x = HeldPath(r)}
      /\ UNCHANGED <<held, cloud, files_to_backup_>>
  BY DEF Pass
<1>2. HeldFilesAreKept'
  <2>1. SUFFICES ASSUME NEW p \in held
                 PROVE  \/ HeldPath(p) \in disk'
                        \/ HeldPath(p) \in bypassed'
                        \/ <<FullPath(HeldPath(p)), FullPath(p)>> \in cloud
    BY <1>1 DEF HeldFilesAreKept
  <2>2. CASE HeldPath(p) = q
    BY <1>1, <2>2
  <2>3. CASE HeldPath(p) # q
    BY <1>1, <2>3 DEF KeepInv, HeldFilesAreKept
  <2>4. QED
    BY <2>2, <2>3
<1>3. HeldFrom' /\ DiskFrom'
  BY <1>1 DEF KeepInv, HeldFrom, DiskFrom
<1>4. ListIsRead' /\ ListedFilesAreHeld'
  BY <1>1, ShorterList DEF KeepInv
<1>5. QED
  BY <1>2, <1>3, <1>4 DEF KeepInv

\* No request that is judged deletes a held file, or has it held again.
LEMMA DeleteKeeps ==
    ASSUME KeepInv, NEW q \in disk, Delete(q)
    PROVE  KeepInv'
<1>1. UNCHANGED <<cloud, files_to_backup_>>
  BY DEF Delete
<1>2. CASE UNCHANGED <<disk, held, bypassed>>
  BY <1>1, <1>2, ListStepKeeps
<1>3. CASE /\ ~IsBackupAllowed(q) /\ disk' = disk \ {q}
           /\ UNCHANGED <<held, bypassed>>
  <2>1. HeldFilesAreKept'
    <3>1. SUFFICES ASSUME NEW p \in held PROVE HeldPath(p) # q
      BY <1>1, <1>3 DEF KeepInv, HeldFilesAreKept
    <3>2. /\ p \in Path /\ Len(p.name) <= MaxComponent /\ CanBeHeld(p)
          /\ IsBackupAllowed(p)
      BY MessagesAssumption DEF KeepInv, HeldFrom
    <3>3. IsBackupAllowed(HeldPath(p))
      BY <3>2, HeldGetsBackup
    <3>4. QED
      BY <1>3, <3>3
  <2>2. HeldFrom' /\ DiskFrom'
    BY <1>3 DEF KeepInv, HeldFrom, DiskFrom
  <2>3. ListIsRead' /\ ListedFilesAreHeld'
    BY <1>1, <1>3, ShorterList DEF KeepInv
  <2>4. QED
    BY <2>1, <2>2, <2>3 DEF KeepInv
<1>4. CASE /\ IsBackupAllowed(q) /\ ~HasRenamePrefix(q.name) /\ CanBeHeld(q)
           /\ disk' = (disk \ {q}) \cup {HeldPath(q)}
           /\ held' = held \cup {q}
           /\ bypassed' = bypassed \ {HeldPath(q)}
  <2>1. \A p \in held : HeldPath(p) # q
    <3>1. TAKE p \in held
    <3>2. p \in Path /\ Len(p.name) <= MaxComponent /\ CanBeHeld(p)
      BY MessagesAssumption DEF KeepInv, HeldFrom
    <3>3. HasRenamePrefix(HeldPath(p).name)
      BY <3>2, HeldNamesKeepTheirClass, Zenon
    <3>4. QED
      BY <1>4, <3>3
  <2>2. q \in UserFile
    BY <2>1 DEF KeepInv, DiskFrom
  <2>3. HeldFrom' /\ DiskFrom'
    BY <1>4, <2>2 DEF KeepInv, HeldFrom, DiskFrom
  <2>4. HeldFilesAreKept'
    <3>1. SUFFICES ASSUME NEW p \in held'
                   PROVE  \/ HeldPath(p) \in disk'
                          \/ HeldPath(p) \in bypassed'
                          \/ <<FullPath(HeldPath(p)), FullPath(p)>> \in cloud
      BY <1>1 DEF HeldFilesAreKept
    <3>2. CASE HeldPath(p) = HeldPath(q)
      BY <1>4, <3>2
    <3>3. CASE HeldPath(p) # HeldPath(q)
      <4>1. p \in held
        BY <1>4, <3>1, <3>3
      <4>2. \/ HeldPath(p) \in disk
            \/ HeldPath(p) \in bypassed
            \/ <<FullPath(HeldPath(p)), FullPath(p)>> \in cloud
        BY <4>1 DEF KeepInv, HeldFilesAreKept
      <4>3. QED
        BY <1>4, <2>1, <3>3, <4>1, <4>2
    <3>4. QED
      BY <3>2, <3>3
  <2>5. ListIsRead' /\ ListedFilesAreHeld'
    <3>1. held \subseteq held' /\ files_to_backup_' = files_to_backup_
      BY <1>1, <1>4
    <3>2. QED
      BY <3>1, ShorterList DEF KeepInv
  <2>6. QED
    BY <2>3, <2>4, <2>5 DEF KeepInv
<1>5. QED
  BY <1>2, <1>3, <1>4 DEF Delete

LEMMA KeepInvStep == ReadInv /\ KeepInv /\ [Next]_vars => KeepInv'
<1> SUFFICES ASSUME ReadInv, KeepInv, [Next]_vars PROVE KeepInv'
  OBVIOUS
<1>1. ASSUME NEW p \in disk, Delete(p) PROVE KeepInv'
  BY <1>1, DeleteKeeps
<1>2. ASSUME NEW p \in disk, Rename(p) PROVE KeepInv'
  BY <1>2, RenameKeeps
<1>3. CASE ClosePort
  BY <1>3, ListStepKeeps DEF ClosePort
<1>4. CASE PostRead
  BY <1>4, ListStepKeeps DEF PostRead, driverVars
<1>5. CASE ReadTimesOut
  BY <1>5, ListStepKeeps DEF ReadTimesOut, driverVars
<1>6. CASE SkipMessage
  BY <1>6, ListStepKeeps DEF SkipMessage, driverVars
<1>7. CASE QueueMessage
  BY <1>7, QueueKeeps
<1>8. CASE ForgetMissing
  BY <1>8, ListStepKeeps DEF ForgetMissing, driverVars
<1>9. CASE BackUp
  BY <1>9, BackUpKeeps
<1>10. CASE UNCHANGED vars
  BY <1>10, ListStepKeeps DEF vars
<1>11. ASSUME NEW p \in disk, Pass(p) PROVE KeepInv'
  BY <1>11, PassKeeps
<1>12. QED
  BY <1>1, <1>2, <1>3, <1>4, <1>5, <1>6, <1>7, <1>8, <1>9, <1>10, <1>11
     DEF Next, DriverStep, ReaderStep, RunStep

LEMMA KeepInvariant == Spec => [](ReadInv /\ KeepInv)
<1>1. ReadInv /\ KeepInv /\ [Next]_vars => (ReadInv /\ KeepInv)'
  BY ReadInvStep, KeepInvStep
<1>2. QED
  BY ReadInvInit, KeepInvInit, <1>1, PTL DEF Spec

\* Whatever is left out of messages, was in their blocks before or is in the
\* names of files and directories, the client's list has held files only, each
\* with the path it had.
THEOREM ListHasHeldFiles == Spec => []ListedFilesAreHeld
<1>1. KeepInv => ListedFilesAreHeld
  BY DEF KeepInv
<1>2. QED
  BY KeepInvariant, <1>1, PTL

\* A held file is on the volume until it was uploaded under the path it had, or
\* a request that the shield does not judge removes it: no request that is
\* judged gets past the filters, and no command deletes it before.
THEOREM HeldFilesStay == Spec => []HeldFilesAreKept
<1>1. KeepInv => HeldFilesAreKept
  BY DEF KeepInv
<1>2. QED
  BY KeepInvariant, <1>1, PTL
=============================================================================
