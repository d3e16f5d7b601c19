-------------------------- MODULE NotificationsProofs --------------------------
(***************************************************************************)
(* Proofs about MessageSplit, for any text and any max_len, and about      *)
(* AlertBroadcast, for any number of alerts of any length, every number of *)
(* attempts and every size of the thread pool.                             *)
(***************************************************************************)
EXTENDS MessageSplit, AlertBroadcast, SequenceTheorems, WellFoundedInduction, TLAPS

\* A nonempty set of naturals has a least element.
LEMMA LeastNatural ==
    ASSUME NEW T \in SUBSET Nat, T # {}
    PROVE  \E n \in T : \A k \in T : n <= k
<1> DEFINE R == OpToRel(<, Nat)
<1>1. IsWellFoundedOn(R, Nat)
    BY NatLessThanWellFounded
<1>2. \A a, b \in Nat : <<a, b>> \in R <=> a < b
    BY DEF OpToRel
<1> HIDE DEF R
<1>3. \E x \in T : \A y \in T : ~ (<<y, x>> \in R)
    BY <1>1, WFMin, Zenon
<1>4. PICK x \in T : \A y \in T : ~ (<<y, x>> \in R)
    BY <1>3
<1>5. \A y \in T : y \in Nat /\ x \in Nat /\ ~(y < x)
    BY <1>2, <1>4, Zenon
<1> QED
    BY <1>5

\* Nor is a nonempty set of naturals with a bound without a greatest element.
LEMMA GreatestNatural ==
    ASSUME NEW m \in Nat, NEW T \in SUBSET (0 .. m), T # {}
    PROVE  \E n \in T : \A k \in T : k <= n
<1> DEFINE D == {m - k : k \in T}
<1>1. D \in SUBSET Nat /\ D # {}
  <2>1. \A k \in T : m - k \in Nat
      OBVIOUS
  <2> QED
      BY <2>1
<1>2. PICK d \in D : \A e \in D : d <= e
    BY <1>1, LeastNatural, Zenon
<1>3. PICK n \in T : d = m - n
    BY <1>2
<1>4. ASSUME NEW k \in T PROVE k <= n
  <2>1. m - k \in D
      OBVIOUS
  <2>2. d <= m - k
      BY <1>2, <2>1, Zenon
  <2> QED
      BY <1>3, <2>2
<1> QED
    BY <1>4

\* rstrip keeps the text up to its last ink.
LEMMA RStripKeepsInk ==
    ASSUME NEW s \in Seq(Int)
    PROVE  /\ RStrip(s) \in Seq(Int)
           /\ Len(RStrip(s)) <= Len(s)
           /\ \A i \in 1 .. Len(RStrip(s)) : RStrip(s)[i] = s[i]
           /\ \A i \in Len(RStrip(s)) + 1 .. Len(s) : ~IsInk(s[i])
<1> DEFINE T == {n \in 0 .. Len(s) : n = 0 \/ IsInk(s[n])}
           EndsAt(n) == /\ n > 0 => IsInk(s[n])
                        /\ \A i \in n + 1 .. Len(s) : ~IsInk(s[i])
           end == CHOOSE n \in 0 .. Len(s) : EndsAt(n)
<1>1. T \in SUBSET (0 .. Len(s)) /\ 0 \in T /\ Len(s) \in Nat
    OBVIOUS
<1>2. PICK n \in T : \A k \in T : k <= n
    BY <1>1, GreatestNatural
<1>3. EndsAt(n)
    BY <1>2
<1>4. end \in 0 .. Len(s) /\ EndsAt(end)
    BY <1>2, <1>3
<1> HIDE DEF end
<1>5. RStrip(s) = SubSeq(s, 1, end)
    BY DEF RStrip, end
<1>6. \A i \in 1 .. end : s[i] \in Int
    BY <1>4
<1>7. /\ SubSeq(s, 1, end) \in Seq(Int)
      /\ Len(SubSeq(s, 1, end)) = IF 1 <= end THEN end - 1 + 1 ELSE 0
      /\ \A i \in 1 .. end - 1 + 1 : SubSeq(s, 1, end)[i] = s[1 + i - 1]
    BY <1>4, <1>6, SubSeqProperties
<1>8. Len(RStrip(s)) = end /\ end <= Len(s)
    BY <1>4, <1>5, <1>7
<1>9. ASSUME NEW i \in 1 .. end PROVE RStrip(s)[i] = s[i]
  <2>1. i \in 1 .. end - 1 + 1 /\ 1 + i - 1 = i
      BY <1>4
  <2> QED
      BY <1>5, <1>7, <2>1
<1> QED
    BY <1>4, <1>5, <1>7, <1>8, <1>9

\* lstrip("\n") removes line breaks only.
LEMMA LStripKeepsInk ==
    ASSUME NEW s \in Seq(Int)
    PROVE  /\ LStrip(s) \in Seq(Int)
           /\ Len(LStrip(s)) <= Len(s)
           /\ \A i \in 1 .. Len(LStrip(s)) : LStrip(s)[i] = s[Len(s) - Len(LStrip(s)) + i]
           /\ \A i \in 1 .. Len(s) - Len(LStrip(s)) : s[i] = Break
           /\ Len(LStrip(s)) > 0 => LStrip(s)[1] # Break
<1> DEFINE T == {n \in 1 .. Len(s) + 1 : n <= Len(s) => s[n] # Break}
           StartsAt(n) == /\ n <= Len(s) => s[n] # Break
                          /\ \A i \in 1 .. n - 1 : s[i] = Break
           start == CHOOSE n \in 1 .. Len(s) + 1 : StartsAt(n)
<1>1. T \in SUBSET Nat /\ Len(s) + 1 \in T /\ Len(s) \in Nat
    OBVIOUS
<1>2. PICK n \in T : \A k \in T : n <= k
    BY <1>1, LeastNatural
<1>3. StartsAt(n)
    BY <1>2
<1>4. start \in 1 .. Len(s) + 1 /\ StartsAt(start)
    BY <1>2, <1>3
<1> HIDE DEF start
<1>5. LStrip(s) = SubSeq(s, start, Len(s))
    BY DEF LStrip, start
<1>6. \A i \in start .. Len(s) : s[i] \in Int
    BY <1>4
<1>7. /\ SubSeq(s, start, Len(s)) \in Seq(Int)
      /\ Len(SubSeq(s, start, Len(s))) = IF start <= Len(s) THEN Len(s) - start + 1 ELSE 0
      /\ \A i \in 1 .. Len(s) - start + 1 : SubSeq(s, start, Len(s))[i] = s[start + i - 1]
    BY <1>4, <1>6, SubSeqProperties
<1>8. PICK old \in Nat, new \in Nat :
          old = Len(s) /\ new = Len(LStrip(s)) /\ new = old - start + 1 /\ old - new = start - 1
    BY <1>4, <1>5, <1>7
<1>9. ASSUME NEW i \in 1 .. new PROVE LStrip(s)[i] = s[old - new + i]
  <2>1. i \in 1 .. Len(s) - start + 1 /\ start + i - 1 = old - new + i
      BY <1>4, <1>8
  <2> QED
      BY <1>5, <1>7, <2>1
<1>10. \A i \in 1 .. old - new : s[i] = Break
    BY <1>4, <1>8
<1>11. new > 0 => LStrip(s)[1] # Break
  <2>1. new > 0 => 1 \in 1 .. new /\ old - new + 1 = start /\ start <= Len(s)
      BY <1>4, <1>8
  <2> QED
      BY <1>4, <1>9, <2>1
<1>12. new <= old
    BY <1>4, <1>8
<1> QED
    BY <1>5, <1>7, <1>8, <1>9, <1>10, <1>11, <1>12

\* Where a text is cut: at a line break within reach, or at the full length
\* when none is.
LEMMA SplitWithinReach ==
    ASSUME NEW s \in Seq(Int), Len(s) > MaxLen
    PROVE  /\ SplitAt(s) \in 1 .. MaxLen
           /\ \/ s[SplitAt(s) + 1] = Break
              \/ SplitAt(s) = MaxLen /\ \A i \in 2 .. MaxLen : s[i] # Break
<1>1. CASE Breaks(s) = {}
  <2>1. SplitAt(s) = MaxLen
      BY <1>1 DEF SplitAt
  <2>2. ASSUME NEW i \in 2 .. MaxLen PROVE s[i] # Break
    <3>1. i - 1 \in 1 .. MaxLen - 1 /\ (i - 1) + 1 = i
        BY SplitAssumption
    <3> QED
        BY <1>1, <3>1 DEF Breaks
  <2> QED
      BY <2>1, <2>2, SplitAssumption
<1>2. CASE Breaks(s) # {}
  <2>1. Breaks(s) \in SUBSET (0 .. MaxLen) /\ MaxLen \in Nat
      BY SplitAssumption DEF Breaks
  <2>2. \E n \in Breaks(s) : \A k \in Breaks(s) : k <= n
      BY <1>2, <2>1, GreatestNatural, Zenon
  <2>3. SplitAt(s) \in Breaks(s)
      BY <1>2, <2>2 DEF SplitAt
  <2> QED
      BY <2>3, SplitAssumption DEF Breaks
<1> QED
    BY <1>1, <1>2
-----------------------------------------------------------------------------
\* The first character of the message that is not cut off yet.
From == Len(text) - Len(remaining) + 1

\* What remains is the end of the message.
RestOfText ==
    /\ From \in 1 .. Len(text) + 1
    /\ \A i \in 1 .. Len(remaining) : remaining[i] = text[From + i - 1]

\* It begins with a line break only when the message does.
NoBreakFirst ==
    text # <<>> /\ text[1] # Break => (Len(remaining) > 0 => remaining[1] # Break)

\* Ink that was cut off is in a chunk.
InkKept ==
    \A c \in 1 .. From - 1 : IsInk(text[c]) =>
        \E i \in 1 .. Len(chunks) : \E k \in 1 .. Len(chunks[i]) : chunks[i][k] = c

\* The ink of the chunks is ink of the message that was cut off, in order.
InkInOrder ==
    \A i \in 1 .. Len(chunks) : \A k \in 1 .. Len(chunks[i]) : IsInk(chunks[i][k]) =>
        /\ chunks[i][k] < From
        /\ text[chunks[i][k]] = chunks[i][k]
        /\ \A j \in 1 .. Len(chunks) : \A l \in 1 .. Len(chunks[j]) :
               IsInk(chunks[j][l]) /\ (i < j \/ (i = j /\ k < l)) => chunks[i][k] < chunks[j][l]

\* A line of the message that fits in a chunk.
Line(first, last) ==
    /\ first <= last
    /\ last - first < MaxLen
    /\ first = 1 \/ text[first - 1] = Break
    /\ last = Len(text) \/ text[last + 1] = Break
    /\ \A i \in first .. last : text[i] # Break

Holds(i, first, last) == \E k \in 1 .. Len(chunks[i]) : chunks[i][k] \in first .. last

\* The next cut is not within such a line, and one chunk at most holds of it.
LinesKept ==
    text # <<>> /\ text[1] # Break =>
        \A first, last \in 1 .. Len(text) : Line(first, last) =>
            /\ From <= first \/ last < From
            /\ \A i, j \in 1 .. Len(chunks) :
                   Holds(i, first, last) /\ Holds(j, first, last) => i = j

SplitInv ==
    /\ SplitTypeOK
    /\ text \in Texts
    /\ RestOfText
    /\ NoBreakFirst
    /\ ChunksFit
    /\ InkKept
    /\ InkInOrder
    /\ LinesKept

LEMMA SplitInitially == SplitInit => SplitInv
<1> SUFFICES ASSUME SplitInit PROVE SplitInv
    OBVIOUS
<1>1. SplitTypeOK /\ text \in Texts
    BY SplitAssumption DEF SplitInit, SplitTypeOK
<1>2. From = 1 /\ Len(text) \in Nat /\ remaining = text /\ Len(chunks) = 0 /\ chunks = <<>>
    BY <1>1 DEF SplitInit, SplitTypeOK, From
<1>3. RestOfText
    BY <1>1, <1>2 DEF RestOfText, SplitTypeOK
<1>4. NoBreakFirst
    BY <1>2 DEF NoBreakFirst
<1>5. ChunksFit /\ InkKept /\ InkInOrder
    BY <1>2 DEF ChunksFit, InkKept, InkInOrder
<1>6. LinesKept
    BY <1>2 DEF LinesKept
<1> QED
    BY <1>1, <1>3, <1>4, <1>5, <1>6 DEF SplitInv

\* A piece is taken off the front of what remains, and some characters that
\* are not ink after it.
Taken(piece) ==
    /\ piece \in Seq(Int)
    /\ remaining' \in Seq(Int)
    /\ Len(piece) <= MaxLen
    /\ Len(piece) + Len(remaining') <= Len(remaining)
    /\ \A i \in 1 .. Len(piece) : piece[i] = remaining[i]
    /\ \A i \in Len(piece) + 1 .. Len(remaining) - Len(remaining') : ~IsInk(remaining[i])
    /\ \A i \in 1 .. Len(remaining') :
           remaining'[i] = remaining[Len(remaining) - Len(remaining') + i]
    /\ Len(remaining') > 0 => remaining'[1] # Break
    /\ chunks' = Append(chunks, piece)
    /\ text' = text
    /\ cutting' \in BOOLEAN

\* Whoever takes a piece and tears no line keeps the invariant.
LEMMA TakingKeeps ==
    ASSUME SplitInv, NEW piece, Taken(piece),
           text # <<>> /\ text[1] # Break =>
               \A first, last \in 1 .. Len(text) :
                   Line(first, last) /\ From <= first => From' <= first \/ last < From'
    PROVE  SplitInv'
<1>1. /\ text \in Seq(Int) /\ remaining \in Seq(Int) /\ chunks \in Seq(Seq(Int))
      /\ piece \in Seq(Int) /\ remaining' \in Seq(Int) /\ text' = text
    BY DEF SplitInv, SplitTypeOK, Taken
<1>2. /\ chunks' \in Seq(Seq(Int))
      /\ Len(chunks') = Len(chunks) + 1
      /\ \A i \in 1 .. Len(chunks) : chunks'[i] = chunks[i]
      /\ chunks'[Len(chunks) + 1] = piece
    BY <1>1, AppendProperties DEF Taken
<1>3. SplitTypeOK' /\ (text \in Texts)'
    BY <1>1, <1>2 DEF SplitInv, SplitTypeOK, Taken
<1>4. /\ Len(text) \in Nat /\ Len(remaining) \in Nat /\ Len(remaining') \in Nat
      /\ Len(piece) \in Nat /\ Len(chunks) \in Nat
      /\ From \in 1 .. Len(text) + 1 /\ From' \in 1 .. Len(text) + 1
      /\ From' = From + Len(remaining) - Len(remaining')
      /\ From + Len(piece) <= From'
    BY <1>1 DEF SplitInv, RestOfText, From, Taken
<1>5. RestOfText'
  <2> SUFFICES ASSUME NEW i \in 1 .. Len(remaining')
               PROVE  remaining'[i] = text[From' + i - 1]
      BY <1>1, <1>4 DEF RestOfText
  <2> DEFINE k == Len(remaining) - Len(remaining') + i
  <2>1. k \in 1 .. Len(remaining) /\ From + k - 1 = From' + i - 1
      BY <1>4
  <2>2. remaining'[i] = remaining[k]
      BY DEF Taken
  <2>3. remaining[k] = text[From + k - 1]
      BY <2>1 DEF SplitInv, RestOfText
  <2> QED
      BY <2>1, <2>2, <2>3
<1>6. NoBreakFirst'
    BY DEF NoBreakFirst, Taken
<1>7. ChunksFit'
  <2>1. \A i \in 1 .. Len(chunks) : Len(chunks[i]) <= MaxLen
      BY <1>1 DEF SplitInv, ChunksFit
  <2>2. Len(piece) <= MaxLen
      BY DEF Taken
  <2>3. ASSUME NEW i \in 1 .. Len(chunks') PROVE Len(chunks'[i]) <= MaxLen
    <3>1. i \in 1 .. Len(chunks) \/ i = Len(chunks) + 1
        BY <1>2, <1>4
    <3> QED
        BY <1>2, <2>1, <2>2, <3>1
  <2> QED
      BY <1>1, <1>2, <2>3 DEF ChunksFit
\* The numbers of chunks, of the characters before and after the piece.
<1>8. PICK n \in Nat, f \in Nat, g \in Nat :
          n = Len(chunks) /\ f = From /\ g = From' /\ 1 <= f /\ f + Len(piece) <= g
    BY <1>4
\* The piece is made of the characters of the message from f on.
<1>9. \A k \in 1 .. Len(piece) : f + k - 1 \in 1 .. Len(text) /\ piece[k] = text[f + k - 1]
  <2>1. \A k \in 1 .. Len(piece) : k \in 1 .. Len(remaining) /\ f + k - 1 \in 1 .. Len(text)
      BY <1>4, <1>8
  <2> QED
      BY <1>8, <2>1 DEF SplitInv, RestOfText, Taken
<1>10. \A c \in 1 .. Len(text) : IsInk(text[c]) => text[c] = c
    BY <1>1, SplitAssumption DEF SplitInv, IsInk
<1>11. ASSUME NEW k \in 1 .. Len(piece), IsInk(piece[k])
       PROVE  piece[k] = f + k - 1 /\ text[piece[k]] = piece[k]
    BY <1>9, <1>10, <1>11, Zenon
\* A chunk is an old one or the piece, whose ink comes after the old ones'.
<1>12. ASSUME NEW i \in 1 .. Len(chunks')
       PROVE  (i \in 1 .. n /\ chunks'[i] = chunks[i]) \/ (i = n + 1 /\ chunks'[i] = piece)
    BY <1>2, <1>8
<1>13. /\ \A i \in 1 .. n : i \in 1 .. Len(chunks') /\ chunks'[i] = chunks[i]
       /\ n + 1 \in 1 .. Len(chunks') /\ chunks'[n + 1] = piece
    BY <1>2, <1>8
<1>14. \A i \in 1 .. n : \A k \in 1 .. Len(chunks[i]) : IsInk(chunks[i][k]) =>
           /\ chunks[i][k] < f
           /\ text[chunks[i][k]] = chunks[i][k]
           /\ \A j \in 1 .. n : \A l \in 1 .. Len(chunks[j]) :
                  IsInk(chunks[j][l]) /\ (i < j \/ (i = j /\ k < l)) => chunks[i][k] < chunks[j][l]
    BY <1>8 DEF SplitInv, InkInOrder
<1>15. \A i \in 1 .. n : \A k \in 1 .. Len(chunks[i]) : chunks[i][k] \in Int
    BY <1>1, <1>8
<1>16. InkKept'
  <2> SUFFICES ASSUME NEW c \in 1 .. g - 1, IsInk(text[c])
               PROVE  \E i \in 1 .. Len(chunks') : \E k \in 1 .. Len(chunks'[i]) : chunks'[i][k] = c
      BY <1>1, <1>8 DEF InkKept
  <2>1. CASE c < f
    <3>1. c \in 1 .. f - 1
        BY <2>1
    <3>2. PICK i \in 1 .. n : \E k \in 1 .. Len(chunks[i]) : chunks[i][k] = c
        BY <1>8, <3>1 DEF SplitInv, InkKept
    <3> QED
        BY <1>13, <3>2, Zenon
  <2>2. CASE c >= f
    <3>1. PICK k \in Nat : k = c - f + 1
        BY <2>2
    <3>2. /\ k \in 1 .. Len(remaining) - Len(remaining') /\ k \in 1 .. Len(remaining)
          /\ f + k - 1 = c
        BY <1>4, <1>8, <2>2, <3>1
    <3>3. remaining[k] = text[c]
        BY <1>8, <3>2 DEF SplitInv, RestOfText
    <3>4. k \notin Len(piece) + 1 .. Len(remaining) - Len(remaining')
        BY <3>3 DEF Taken
    <3>5. k \in 1 .. Len(piece)
        BY <1>4, <3>2, <3>4
    <3>6. piece[k] = c
        BY <1>9, <1>11, <3>2, <3>5
    <3> QED
        BY <1>13, <3>5, <3>6
  <2> QED
      BY <2>1, <2>2
<1>17. InkInOrder'
  <2>1. ASSUME NEW i \in 1 .. Len(chunks'), NEW k \in 1 .. Len(chunks'[i]), IsInk(chunks'[i][k])
        PROVE  chunks'[i][k] < g /\ text[chunks'[i][k]] = chunks'[i][k]
    <3>1. CASE i \in 1 .. n /\ chunks'[i] = chunks[i]
      <4>1. chunks[i][k] \in Int /\ chunks[i][k] < f /\ text[chunks[i][k]] = chunks[i][k]
          BY <1>14, <1>15, <2>1, <3>1
      <4>2. f <= g
          BY <1>4, <1>8
      <4>3. chunks[i][k] < g
          BY <4>1, <4>2
      <4> QED
          BY <3>1, <4>1, <4>3
    <3>2. CASE i = n + 1 /\ chunks'[i] = piece
      <4>1. k \in 1 .. Len(piece) /\ piece[k] = f + k - 1 /\ text[piece[k]] = piece[k]
          BY <1>11, <2>1, <3>2
      <4>2. f + k - 1 < g
          BY <1>4, <1>8, <4>1
      <4> QED
          BY <3>2, <4>1, <4>2
    <3> QED
        BY <1>12, <3>1, <3>2
  <2>2. ASSUME NEW i \in 1 .. Len(chunks'), NEW k \in 1 .. Len(chunks'[i]), IsInk(chunks'[i][k]),
               NEW j \in 1 .. Len(chunks'), NEW l \in 1 .. Len(chunks'[j]), IsInk(chunks'[j][l]),
               i < j \/ (i = j /\ k < l)
        PROVE  chunks'[i][k] < chunks'[j][l]
    <3>1. CASE i \in 1 .. n /\ chunks'[i] = chunks[i] /\ j \in 1 .. n /\ chunks'[j] = chunks[j]
        BY <1>14, <2>2, <3>1
    <3>2. CASE i \in 1 .. n /\ chunks'[i] = chunks[i] /\ j = n + 1 /\ chunks'[j] = piece
      <4>1. chunks[i][k] \in Int /\ chunks[i][k] < f
          BY <1>14, <1>15, <2>2, <3>2
      <4>2. l \in 1 .. Len(piece) /\ piece[l] = f + l - 1
          BY <1>11, <2>2, <3>2
      <4>3. chunks[i][k] < f + l - 1
          BY <4>1, <4>2
      <4> QED
          BY <3>2, <4>2, <4>3
    <3>3. CASE i = n + 1 /\ chunks'[i] = piece /\ j = n + 1 /\ chunks'[j] = piece
      <4>1. k \in 1 .. Len(piece) /\ piece[k] = f + k - 1
          BY <1>11, <2>2, <3>3
      <4>2. l \in 1 .. Len(piece) /\ piece[l] = f + l - 1
          BY <1>11, <2>2, <3>3
      <4>3. k < l
          BY <2>2, <3>3
      <4>4. f + k - 1 < f + l - 1
          BY <4>1, <4>2, <4>3
      <4> QED
          BY <3>3, <4>1, <4>2, <4>4
    <3>4. CASE i = n + 1 /\ j \in 1 .. n
        BY <2>2, <3>4
    <3> QED
        BY <1>12, <3>1, <3>2, <3>3, <3>4
  <2> QED
      BY <1>1, <1>8, <2>1, <2>2 DEF InkInOrder
<1>18. LinesKept'
  <2> SUFFICES ASSUME text # <<>> /\ text[1] # Break,
                      NEW first \in 1 .. Len(text), NEW last \in 1 .. Len(text), Line(first, last)
               PROVE  /\ g <= first \/ last < g
                      /\ \A i, j \in 1 .. Len(chunks') :
                             Holds(i, first, last)' /\ Holds(j, first, last)' => i = j
      BY <1>1, <1>8 DEF LinesKept, Line
  <2>1. first \in Int /\ last \in Int
      BY <1>4
  <2>2. f <= first \/ last < f
      BY <1>8 DEF SplitInv, LinesKept
  <2>3. g <= first \/ last < g
    <3>1. CASE f <= first
        BY <1>8, <3>1
    <3>2. CASE last < f
        BY <1>4, <1>8, <2>1, <3>2
    <3> QED
        BY <2>2, <3>1, <3>2
\* An old chunk holds of a line that begins before f only, the piece of one
\* that does not end before it.
  <2>4. ASSUME NEW i \in 1 .. Len(chunks'), Holds(i, first, last)', i \in 1 .. n, chunks'[i] = chunks[i]
        PROVE  first < f /\ Holds(i, first, last)
    <3>1. PICK k \in 1 .. Len(chunks[i]) : chunks[i][k] \in first .. last
        BY <2>4 DEF Holds
    <3>2. PICK c \in Int : c = chunks[i][k] /\ c \in first .. last
        BY <1>15, <2>4, <3>1
    <3>3. c > 0
        BY <2>1, <3>2
    <3>4. c < f
        BY <1>14, <2>4, <3>1, <3>2, <3>3 DEF IsInk
    <3>5. first < f
        BY <2>1, <3>2, <3>4
    <3> QED
        BY <3>1, <3>5 DEF Holds
  <2>5. ASSUME NEW i \in 1 .. Len(chunks'), Holds(i, first, last)', chunks'[i] = piece
        PROVE  f <= last
    <3>1. PICK k \in 1 .. Len(piece) : piece[k] \in first .. last
        BY <2>5 DEF Holds
    <3>2. PICK c \in Int : c = piece[k] /\ c \in first .. last
        BY <1>1, <3>1
    <3>3. c > 0
        BY <2>1, <3>2
    <3>4. c = f + k - 1
        BY <1>11, <3>2, <3>3 DEF IsInk
    <3>5. k >= 1 /\ k \in Int
        BY <1>4
    <3> QED
        BY <2>1, <3>2, <3>4, <3>5
  <2>6. \A i, j \in 1 .. n : Holds(i, first, last) /\ Holds(j, first, last) => i = j
      BY <1>8 DEF SplitInv, LinesKept
  <2>7. ASSUME NEW i \in 1 .. Len(chunks'), NEW j \in 1 .. Len(chunks'),
               Holds(i, first, last)', Holds(j, first, last)'
        PROVE  i = j
    <3>1. CASE i \in 1 .. n /\ chunks'[i] = chunks[i] /\ j \in 1 .. n /\ chunks'[j] = chunks[j]
        BY <2>4, <2>6, <2>7, <3>1
    <3>2. CASE i \in 1 .. n /\ chunks'[i] = chunks[i] /\ j = n + 1 /\ chunks'[j] = piece
      <4>1. first < f /\ f <= last
          BY <2>4, <2>5, <2>7, <3>2
      <4> QED
          BY <2>1, <2>2, <4>1
    <3>3. CASE i = n + 1 /\ chunks'[i] = piece /\ j \in 1 .. n /\ chunks'[j] = chunks[j]
      <4>1. first < f /\ f <= last
          BY <2>4, <2>5, <2>7, <3>3
      <4> QED
          BY <2>1, <2>2, <4>1
    <3>4. CASE i = n + 1 /\ j = n + 1
        BY <3>4
    <3> QED
        BY <1>12, <3>1, <3>2, <3>3, <3>4
  <2> QED
      BY <2>3, <2>7
<1> QED
    BY <1>3, <1>5, <1>6, <1>7, <1>16, <1>17, <1>18 DEF SplitInv
\* A cut takes what rstrip leaves of the characters up to it, and lstrip leaves
\* what remains after it.
LEMMA CutTakes ==
    ASSUME SplitInv, Cut
    PROVE  LET at == SplitAt(remaining)
               piece == RStrip(SubSeq(remaining, 1, at))
           IN  /\ Taken(piece)
               /\ \A i \in at + 1 .. Len(remaining) - Len(remaining') : remaining[i] = Break
               /\ Len(remaining) - Len(remaining') >= at
<1> DEFINE at == SplitAt(remaining)
           front == SubSeq(remaining, 1, at)
           back == SubSeq(remaining, at + 1, Len(remaining))
<1>1. remaining \in Seq(Int) /\ Len(remaining) \in Nat /\ Len(remaining) > MaxLen /\ MaxLen \in Nat
    BY SplitAssumption DEF SplitInv, SplitTypeOK, Cut
<1>2. PICK a \in 1 .. MaxLen : a = at
    BY <1>1, SplitWithinReach
<1>3. PICK n \in Nat : n = Len(remaining) /\ a < n
    BY <1>1, <1>2
<1>4. /\ chunks' = Append(chunks, RStrip(front)) /\ remaining' = LStrip(back)
      /\ text' = text /\ cutting' \in BOOLEAN
    BY DEF Cut, SplitInv, SplitTypeOK
<1> HIDE DEF at
<1>5. \A i \in 1 .. a : remaining[i] \in Int
    BY <1>1, <1>2, <1>3
<1>6. /\ front \in Seq(Int)
      /\ Len(front) = IF 1 <= a THEN a - 1 + 1 ELSE 0
      /\ \A i \in 1 .. a - 1 + 1 : front[i] = remaining[1 + i - 1]
    BY <1>2, <1>5, SubSeqProperties
<1>7. Len(front) = a /\ \A i \in 1 .. a : front[i] = remaining[i]
    BY <1>2, <1>6
<1>8. \A i \in a + 1 .. n : remaining[i] \in Int
    BY <1>1, <1>2, <1>3
<1>9. /\ back \in Seq(Int)
      /\ Len(back) = IF a + 1 <= n THEN n - (a + 1) + 1 ELSE 0
      /\ \A i \in 1 .. n - (a + 1) + 1 : back[i] = remaining[(a + 1) + i - 1]
    BY <1>2, <1>3, <1>8, SubSeqProperties
<1>10. Len(back) = n - a /\ \A i \in 1 .. n - a : back[i] = remaining[a + i]
  <2>1. \A i \in 1 .. n - a : i \in 1 .. n - (a + 1) + 1 /\ (a + 1) + i - 1 = a + i
      BY <1>2, <1>3
  <2> QED
      BY <1>2, <1>3, <1>9, <2>1
<1> DEFINE piece == RStrip(front)
<1> HIDE DEF front, back, piece
<1>11. PICK p \in Nat : p = Len(piece) /\ p <= a
    BY <1>6, <1>7, RStripKeepsInk DEF piece
<1>12. PICK r \in Nat : r = Len(remaining') /\ r <= n - a
    BY <1>4, <1>9, <1>10, LStripKeepsInk
<1>13. piece \in Seq(Int) /\ remaining' \in Seq(Int)
    BY <1>4, <1>6, <1>9, RStripKeepsInk, LStripKeepsInk DEF piece
<1>14. ASSUME NEW i \in 1 .. p PROVE piece[i] = remaining[i]
  <2>1. piece[i] = front[i]
      BY <1>6, <1>11, RStripKeepsInk DEF piece
  <2> QED
      BY <1>2, <1>7, <1>11, <2>1
<1>15. ASSUME NEW i \in a + 1 .. n - r PROVE remaining[i] = Break
  <2>1. PICK k \in 1 .. n - a - r : i = a + k
    <3>1. i - a \in 1 .. n - a - r /\ i = a + (i - a)
        BY <1>2, <1>3, <1>12
    <3> QED
        BY <3>1
  <2>2. back[k] = Break
    <3>1. \A j \in 1 .. Len(back) - Len(LStrip(back)) : back[j] = Break
        BY <1>9, LStripKeepsInk
    <3> QED
        BY <1>4, <1>10, <1>12, <3>1
  <2>3. back[k] = remaining[a + k]
    <3>1. k \in 1 .. n - a
        BY <1>2, <1>3, <1>12
    <3> QED
        BY <1>10, <3>1
  <2> QED
      BY <2>1, <2>2, <2>3
<1>16. ASSUME NEW i \in p + 1 .. n - r PROVE ~IsInk(remaining[i])
  <2>1. CASE i <= a
    <3>1. i \in 1 .. a /\ i \in p + 1 .. a
        BY <1>2, <1>11, <2>1
    <3>2. \A j \in Len(piece) + 1 .. Len(front) : ~IsInk(front[j])
        BY <1>6, RStripKeepsInk DEF piece
    <3>3. ~IsInk(front[i])
        BY <1>7, <1>11, <3>1, <3>2
    <3> QED
        BY <1>7, <3>1, <3>3
  <2>2. CASE i > a
    <3>1. i \in a + 1 .. n - r
        BY <1>2, <1>3, <1>11, <1>12, <2>2
    <3> QED
        BY <1>15, <3>1 DEF IsInk, Break
  <2> QED
      BY <1>2, <1>11, <2>1, <2>2
<1>17. ASSUME NEW i \in 1 .. r PROVE remaining'[i] = remaining[n - r + i]
  <2>1. LStrip(back)[i] = back[Len(back) - r + i]
      BY <1>4, <1>9, <1>12, LStripKeepsInk
  <2>2. PICK k \in 1 .. n - a : k = n - a - r + i /\ a + k = n - r + i
    <3>1. n - a - r + i \in 1 .. n - a /\ a + (n - a - r + i) = n - r + i
        BY <1>2, <1>3, <1>12
    <3> QED
        BY <3>1
  <2>3. back[k] = remaining[a + k]
      BY <1>10, <2>2
  <2> QED
      BY <1>4, <1>10, <2>1, <2>2, <2>3
<1>18. r > 0 => remaining'[1] # Break
    BY <1>4, <1>9, <1>12, LStripKeepsInk
<1>19. p <= MaxLen /\ p + r <= n /\ n - r >= a
    BY <1>1, <1>2, <1>3, <1>11, <1>12
<1>20. Taken(piece)
    BY <1>3, <1>4, <1>11, <1>12, <1>13, <1>14, <1>16, <1>17, <1>18, <1>19 DEF Taken, piece
<1> QED
    BY <1>2, <1>3, <1>12, <1>15, <1>19, <1>20 DEF at, front, piece

\* A cut tears no line that fits: it is at a break, or the line begins at the
\* very end of what fits, whose break is then within reach.
LEMMA CutTearsNoLine ==
    ASSUME SplitInv, Cut, text # <<>> /\ text[1] # Break,
           NEW first \in 1 .. Len(text), NEW last \in 1 .. Len(text),
           Line(first, last), From <= first
    PROVE  From' <= first \/ last < From'
<1> DEFINE at == SplitAt(remaining)
<1>1. /\ remaining \in Seq(Int) /\ remaining' \in Seq(Int) /\ text \in Seq(Int) /\ text' = text
      /\ MaxLen \in Nat \ {0} /\ Len(remaining) > MaxLen
  <2>1. Taken(RStrip(SubSeq(remaining, 1, at)))
      BY CutTakes
  <2> QED
      BY <2>1, SplitAssumption DEF Taken, SplitInv, SplitTypeOK, Cut
<1>2. /\ at \in 1 .. MaxLen
      /\ remaining[at + 1] = Break \/ (at = MaxLen /\ \A i \in 2 .. MaxLen : remaining[i] # Break)
    BY <1>1, SplitWithinReach
<1>3. /\ \A i \in at + 1 .. Len(remaining) - Len(remaining') : remaining[i] = Break
      /\ Len(remaining) - Len(remaining') >= at
    BY CutTakes
<1> HIDE DEF at
<1>4. PICK a \in 1 .. MaxLen, n \in Nat, r \in Nat, f \in Nat, g \in Nat, t \in Nat :
          /\ a = at /\ n = Len(remaining) /\ r = Len(remaining') /\ t = Len(text)
          /\ f = From /\ g = From' /\ f >= 1 /\ f = t - n + 1 /\ g = t - r + 1
          /\ n - r >= a /\ n > MaxLen
  <2>1. Len(text) \in Nat /\ Len(remaining) \in Nat /\ Len(remaining') \in Nat
      BY <1>1
  <2>2. From = Len(text) - Len(remaining) + 1 /\ From' = Len(text) - Len(remaining') + 1
      BY <1>1 DEF From
  <2>3. From \in 1 .. Len(text) + 1
      BY DEF SplitInv, RestOfText
  <2>4. From \in Nat /\ From' \in Nat /\ From >= 1
      BY <1>2, <1>3, <2>1, <2>2, <2>3
  <2> QED
      BY <1>1, <1>2, <1>3, <2>1, <2>2, <2>4
\* The characters of the line in what remains.
<1>5. \A i \in 1 .. n : remaining[i] = text[f + i - 1]
    BY <1>4 DEF SplitInv, RestOfText
<1>6. SUFFICES ASSUME first < g, g <= last PROVE FALSE
    BY <1>4
<1>7. first \in Int /\ last \in Int /\ last <= t /\ first >= f /\ MaxLen \in Nat
    BY <1>1, <1>4
<1>8. /\ \A i \in first .. last : text[i] # Break
      /\ first = 1 \/ text[first - 1] = Break
      /\ last - first < MaxLen
    BY DEF Line
<1>9. CASE first <= f + a - 1 /\ last >= f + a
  <2>1. a + 1 \in 1 .. n /\ f + (a + 1) - 1 = f + a /\ f + a \in first .. last
      BY <1>4, <1>7, <1>9
  <2>2. remaining[a + 1] # Break
      BY <1>5, <1>8, <2>1
  <2>3. a = MaxLen /\ \A i \in 2 .. MaxLen : remaining[i] # Break
      BY <1>2, <1>4, <2>2
  <2>4. first > f
    <3>1. a = MaxLen
        BY <2>3
    <3> QED
        BY <1>4, <1>7, <1>8, <1>9, <3>1
  <2>5. text[first - 1] = Break
      BY <1>4, <1>7, <1>8, <2>4
  <2>6. PICK k \in 1 .. MaxLen : k = first - f
    <3>1. first - f \in 1 .. MaxLen
        BY <1>4, <1>7, <1>9, <2>4
    <3> QED
        BY <3>1
  <2>7. k \in 1 .. n /\ f + k - 1 = first - 1
      BY <1>4, <1>7, <2>6
  <2>8. remaining[k] = Break
      BY <1>5, <2>5, <2>7
  <2>9. k = 1
    <3>1. k \notin 2 .. MaxLen
        BY <2>3, <2>8
    <3> QED
        BY <1>7, <2>6, <3>1
  <2>10. remaining[1] # Break
      BY <1>4, <2>7 DEF SplitInv, NoBreakFirst
  <2> QED
      BY <2>8, <2>9, <2>10
\* Else the whole line is after the cut, where only breaks are stripped.
<1>10. CASE first >= f + a
  <2>1. PICK k \in 1 .. n : k = first - f + 1 /\ f + k - 1 = first /\ k \in a + 1 .. n - r
    <3>1. /\ first - f + 1 \in 1 .. n /\ f + (first - f + 1) - 1 = first
          /\ first - f + 1 \in a + 1 .. n - r
        BY <1>4, <1>6, <1>7, <1>10
    <3> QED
        BY <3>1
  <2>2. remaining[k] = Break
      BY <1>3, <1>4, <2>1
  <2>3. remaining[k] = text[first]
      BY <1>5, <2>1
  <2>4. first \in first .. last
      BY <1>6, <1>7, <1>4
  <2> QED
      BY <1>8, <2>2, <2>3, <2>4
<1>11. CASE first <= f + a - 1 /\ last < f + a
  <2>1. g >= f + a
      BY <1>4
  <2> QED
      BY <1>4, <1>6, <1>7, <1>11, <2>1
<1> QED
    BY <1>4, <1>7, <1>9, <1>10, <1>11

LEMMA SplitStep == SplitInv /\ [SplitNext]_splitVars => SplitInv'
<1> SUFFICES ASSUME SplitInv, [SplitNext]_splitVars PROVE SplitInv'
    OBVIOUS
<1>1. CASE Cut
  <2>1. PICK piece : Taken(piece)
      BY <1>1, CutTakes
  <2>2. text # <<>> /\ text[1] # Break =>
            \A first, last \in 1 .. Len(text) :
                Line(first, last) /\ From <= first => From' <= first \/ last < From'
      BY <1>1, CutTearsNoLine
  <2> QED
      BY <2>1, <2>2, TakingKeeps
<1>2. CASE Finish
  <2>1. /\ text \in Seq(Int) /\ text' = text /\ remaining \in Seq(Int) /\ Len(remaining) <= MaxLen
        /\ remaining' = <<>> /\ Len(remaining') = 0 /\ cutting' \in BOOLEAN
      BY <1>2 DEF SplitInv, SplitTypeOK, Finish
  <2>2. CASE chunks' = Append(chunks, remaining)
    <3>1. Taken(remaining)
        BY <2>1, <2>2 DEF Taken
    <3>2. From' = Len(text) + 1
        BY <2>1 DEF From
    <3>3. \A last \in 1 .. Len(text) : last < From'
        BY <2>1, <3>2
    <3> QED
        BY <3>1, <3>3, TakingKeeps
  <2>3. CASE chunks' = chunks /\ remaining = <<>>
      BY <2>1, <2>3 DEF SplitInv, SplitTypeOK, RestOfText, NoBreakFirst, ChunksFit, InkKept, InkInOrder,
                        LinesKept, Line, Holds, From
  <2> QED
      BY <1>2, <2>2, <2>3 DEF Finish
<1>3. CASE UNCHANGED splitVars
    BY <1>3 DEF splitVars, SplitInv, SplitTypeOK, RestOfText, NoBreakFirst, ChunksFit, InkKept, InkInOrder,
                LinesKept, Line, Holds, From
<1> QED
    BY <1>1, <1>2, <1>3 DEF SplitNext
-----------------------------------------------------------------------------
\* The invariant holds in every state of every behaviour.
LEMMA SplitInvariant == SplitSpec => []SplitInv
<1> QED
    BY SplitInitially, SplitStep, PTL DEF SplitSpec

\* Texts, chunks and what remains are sequences of characters, for any text
\* and max_len of _split_discord_chunks.
THEOREM SplitTypeCorrect == SplitSpec => []SplitTypeOK
<1>1. SplitInv => SplitTypeOK
    BY DEF SplitInv
<1> QED
    BY <1>1, SplitInvariant, PTL

\* No chunk of any message is longer than max_len, so _post_discord_payload
\* never cuts one silently.
THEOREM ChunksAlwaysFit == SplitSpec => []ChunksFit
<1>1. SplitInv => ChunksFit
    BY DEF SplitInv
<1> QED
    BY <1>1, SplitInvariant, PTL

\* Splitting any message loses no ink, repeats none and keeps its order.
THEOREM InkAlwaysSurvives == SplitSpec => []InkSurvives
<1>1. ASSUME SplitInv PROVE InkSurvives
  <2>1. /\ chunks \in Seq(Seq(Int)) /\ remaining \in Seq(Int) /\ text \in Seq(Int)
        /\ Len(text) \in Nat /\ Len(remaining) \in Nat
      BY <1>1 DEF SplitInv, SplitTypeOK
  <2>2. /\ Pieces \in Seq(Seq(Int))
        /\ Len(Pieces) = Len(chunks) + 1
        /\ \A i \in 1 .. Len(chunks) : Pieces[i] = chunks[i]
        /\ Pieces[Len(chunks) + 1] = remaining
      BY <2>1, AppendProperties DEF Pieces
  <2>3. PICK n \in Nat, f \in Nat, t \in Nat :
            n = Len(chunks) /\ f = From /\ t = Len(text) /\ f >= 1 /\ f + Len(remaining) = t + 1
    <3>1. From \in 1 .. Len(text) + 1 /\ From + Len(remaining) = Len(text) + 1
        BY <1>1, <2>1 DEF SplitInv, RestOfText, From
    <3> QED
        BY <2>1, <3>1
  <2>4. DOMAIN Pieces = 1 .. n + 1 /\ DOMAIN text = 1 .. t /\ DOMAIN remaining = 1 .. Len(remaining)
      BY <2>1, <2>2, <2>3
  <2>5. \A i \in 1 .. n + 1 : (i \in 1 .. n /\ Pieces[i] = chunks[i]) \/ (i = n + 1 /\ Pieces[i] = remaining)
      BY <2>2, <2>3
  <2>6. \A i \in 1 .. n : DOMAIN chunks[i] = 1 .. Len(chunks[i]) /\ \A k \in DOMAIN chunks[i] : chunks[i][k] \in Int
      BY <2>1, <2>3
  <2>7. \A i \in 1 .. n : \A k \in 1 .. Len(chunks[i]) : IsInk(chunks[i][k]) =>
            /\ chunks[i][k] < f
            /\ text[chunks[i][k]] = chunks[i][k]
            /\ \A j \in 1 .. n : \A l \in 1 .. Len(chunks[j]) :
                   IsInk(chunks[j][l]) /\ (i < j \/ (i = j /\ k < l)) => chunks[i][k] < chunks[j][l]
      BY <1>1, <2>3 DEF SplitInv, InkInOrder
  <2>8. \A c \in 1 .. t : IsInk(text[c]) => text[c] = c
      BY <1>1, <2>3, SplitAssumption DEF SplitInv, IsInk
  <2>9. \A k \in 1 .. Len(remaining) : f + k - 1 \in 1 .. t /\ remaining[k] = text[f + k - 1]
    <3>1. \A k \in 1 .. Len(remaining) : f + k - 1 \in 1 .. t
        BY <2>1, <2>3
    <3> QED
        BY <1>1, <2>3, <3>1 DEF SplitInv, RestOfText
  <2>10. ASSUME NEW k \in 1 .. Len(remaining), IsInk(remaining[k])
         PROVE  remaining[k] = f + k - 1 /\ remaining[k] \in Range(text)
    <3>1. remaining[k] = f + k - 1
        BY <2>8, <2>9, <2>10, Zenon
    <3>2. remaining[k] \in Range(text)
        BY <2>4, <2>9 DEF Range
    <3> QED
        BY <3>1, <3>2
  <2>11. ASSUME NEW i \in 1 .. n, NEW c \in Ink(chunks[i]) PROVE c \in Int /\ c < f /\ c \in Ink(text)
    <3>1. PICK k \in 1 .. Len(chunks[i]) : c = chunks[i][k] /\ IsInk(c)
        BY <2>6, <2>11 DEF Ink, Range
    <3>2. c \in Int /\ c < f /\ text[c] = c
        BY <2>6, <2>7, <3>1
    <3>3. c \in 1 .. t
        BY <2>1, <2>3, <3>1, <3>2 DEF IsInk
    <3> QED
        BY <2>4, <3>1, <3>2, <3>3 DEF Ink, Range
  <2>12. ASSUME NEW c \in Ink(remaining) PROVE c \in Int /\ c >= f /\ c \in Ink(text)
    <3>1. PICK k \in 1 .. Len(remaining) : c = remaining[k] /\ IsInk(c)
        BY <2>4, <2>12 DEF Ink, Range
    <3>2. c = f + k - 1 /\ c \in Range(text)
        BY <2>10, <3>1
    <3>3. c \in Int /\ c >= f
        BY <2>1, <2>3, <3>2
    <3> QED
        BY <3>1, <3>2, <3>3 DEF Ink
  <2>13. UNION {Ink(Pieces[i]) : i \in DOMAIN Pieces} = Ink(text)
    <3>1. ASSUME NEW i \in 1 .. n + 1, NEW c \in Ink(Pieces[i]) PROVE c \in Ink(text)
        BY <2>5, <2>11, <2>12, <3>1
    <3>2. ASSUME NEW c \in Ink(text) PROVE \E i \in 1 .. n + 1 : c \in Ink(Pieces[i])
      <4>1. PICK p \in 1 .. t : c = text[p] /\ IsInk(c)
          BY <2>4, <3>2 DEF Ink, Range
      <4>2. c = p
          BY <2>8, <4>1
      <4>3. CASE p < f
        <5>1. p \in 1 .. f - 1
            BY <4>3
        <5>2. PICK i \in 1 .. n : \E k \in 1 .. Len(chunks[i]) : chunks[i][k] = c
            BY <1>1, <2>3, <4>1, <4>2, <5>1 DEF SplitInv, InkKept
        <5>3. c \in Ink(chunks[i])
            BY <2>6, <4>1, <5>2 DEF Ink, Range
        <5>4. Pieces[i] = chunks[i]
            BY <2>2, <2>3
        <5>5. i \in 1 .. n + 1
            BY <2>3
        <5>6. c \in Ink(Pieces[i])
            BY <5>3, <5>4
        <5> QED
            BY <5>5, <5>6
      <4>4. CASE p >= f
        <5>1. p - f + 1 \in 1 .. Len(remaining) /\ f + (p - f + 1) - 1 = p
            BY <2>1, <2>3, <4>4
        <5>2. c = remaining[p - f + 1]
            BY <2>9, <4>1, <5>1
        <5>3. c \in Ink(remaining)
            BY <2>4, <4>1, <5>1, <5>2 DEF Ink, Range
        <5> QED
            BY <2>2, <2>3, <5>3
      <4> QED
          BY <4>3, <4>4
    <3> QED
        BY <2>4, <3>1, <3>2
  <2>14. ASSUME NEW i \in 1 .. n + 1, NEW j \in 1 .. n + 1, i < j,
                NEW c \in Ink(Pieces[i]), NEW d \in Ink(Pieces[j])
         PROVE  c < d
    <3>1. i \in 1 .. n /\ Pieces[i] = chunks[i]
        BY <2>5, <2>14
    <3>2. CASE j \in 1 .. n /\ Pieces[j] = chunks[j]
      <4>1. PICK k \in 1 .. Len(chunks[i]) : c = chunks[i][k] /\ IsInk(c)
          BY <2>6, <3>1 DEF Ink, Range
      <4>2. PICK l \in 1 .. Len(chunks[j]) : d = chunks[j][l] /\ IsInk(d)
          BY <2>6, <3>2 DEF Ink, Range
      <4> QED
          BY <2>7, <2>14, <3>1, <3>2, <4>1, <4>2
    <3>3. CASE j = n + 1 /\ Pieces[j] = remaining
      <4>1. c \in Int /\ c < f /\ d \in Int /\ d >= f
          BY <2>11, <2>12, <3>1, <3>3
      <4> QED
          BY <4>1
    <3> QED
        BY <2>5, <3>2, <3>3
  <2>15. ASSUME NEW i \in 1 .. n + 1, NEW k \in DOMAIN Pieces[i], NEW l \in DOMAIN Pieces[i],
                k < l, IsInk(Pieces[i][k]), IsInk(Pieces[i][l])
         PROVE  Pieces[i][k] < Pieces[i][l]
    <3>1. CASE i \in 1 .. n /\ Pieces[i] = chunks[i]
        BY <2>6, <2>7, <2>15, <3>1
    <3>2. CASE i = n + 1 /\ Pieces[i] = remaining
      <4>1. k \in 1 .. Len(remaining) /\ l \in 1 .. Len(remaining)
          BY <2>4, <3>2
      <4>2. remaining[k] = f + k - 1 /\ remaining[l] = f + l - 1
          BY <2>10, <2>15, <3>2, <4>1
      <4>3. f + k - 1 < f + l - 1
          BY <2>1, <2>15, <4>1
      <4> QED
          BY <3>2, <4>2, <4>3
    <3> QED
        BY <2>5, <3>1, <3>2
  <2> QED
      BY <2>4, <2>13, <2>14, <2>15 DEF InkSurvives
<1> QED
    BY <1>1, SplitInvariant, PTL

\* A line that fits in a chunk is never torn apart, in any message that does
\* not begin with a line break.
THEOREM LinesAlwaysWhole == SplitSpec => []LinesStayWhole
<1>1. ASSUME SplitInv PROVE LinesStayWhole
  <2> SUFFICES ASSUME text # <<>> /\ text[1] # Break,
                      NEW first \in DOMAIN text, NEW last \in DOMAIN text,
                      last - first < MaxLen,
                      first = 1 \/ text[first - 1] = Break,
                      last = Len(text) \/ text[last + 1] = Break,
                      \A i \in first .. last : text[i] # Break,
                      NEW i \in DOMAIN chunks, NEW j \in DOMAIN chunks,
                      Range(chunks[i]) \cap (first .. last) # {},
                      Range(chunks[j]) \cap (first .. last) # {}
               PROVE  i = j
      BY DEF LinesStayWhole
  <2>1. chunks \in Seq(Seq(Int)) /\ text \in Seq(Int)
      BY <1>1 DEF SplitInv, SplitTypeOK
  <2>2. /\ i \in 1 .. Len(chunks) /\ j \in 1 .. Len(chunks)
        /\ first \in 1 .. Len(text) /\ last \in 1 .. Len(text)
    <3>1. DOMAIN chunks = 1 .. Len(chunks) /\ DOMAIN text = 1 .. Len(text)
        BY <2>1
    <3> QED
        BY <3>1
  <2>3. DOMAIN chunks[i] = 1 .. Len(chunks[i]) /\ DOMAIN chunks[j] = 1 .. Len(chunks[j])
      BY <2>1, <2>2
  <2>4. Holds(i, first, last) /\ Holds(j, first, last)
    <3>1. ASSUME NEW h \in DOMAIN chunks, DOMAIN chunks[h] = 1 .. Len(chunks[h]),
                 Range(chunks[h]) \cap (first .. last) # {}
          PROVE  Holds(h, first, last)
        BY <3>1 DEF Holds, Range
    <3> QED
        BY <2>3, <3>1
  <2>5. first <= last
      BY <2>1, <2>2
  <2>6. Line(first, last)
      BY <2>5 DEF Line
  <2> QED
      BY <1>1, <2>2, <2>4, <2>6 DEF SplitInv, LinesKept
<1> QED
    BY <1>1, SplitInvariant, PTL

\* Cutting ends: every cut takes something away, although a line break at the
\* very front counts as none, and the only other step is the last.
THEOREM CuttingMovesOn ==
    SplitSpec => [][Len(remaining') < Len(remaining) \/ (cutting /\ ~cutting')]_splitVars
<1>1. SplitInv /\ [SplitNext]_splitVars =>
          [Len(remaining') < Len(remaining) \/ (cutting /\ ~cutting')]_splitVars
  <2>1. ASSUME SplitInv, Cut PROVE Len(remaining') < Len(remaining)
    <3>1. /\ remaining \in Seq(Int) /\ Len(remaining) > MaxLen
          /\ remaining' = LStrip(SubSeq(remaining, SplitAt(remaining) + 1, Len(remaining)))
        BY <2>1 DEF SplitInv, SplitTypeOK, Cut
    <3>2. SplitAt(remaining) \in 1 .. MaxLen
        BY <3>1, SplitWithinReach
    <3>3. Len(remaining) - Len(remaining') >= SplitAt(remaining)
        BY <2>1, CutTakes
    <3>4. SplitInv'
        BY <2>1, SplitStep DEF SplitNext
    <3>5. Len(remaining) \in Nat /\ Len(remaining') \in Nat
        BY <3>1, <3>4 DEF SplitInv, SplitTypeOK
    <3> QED
        BY <3>2, <3>3, <3>5, SplitAssumption
  <2>2. ASSUME Finish PROVE cutting /\ ~cutting'
      BY <2>2 DEF Finish
  <2> QED
      BY <2>1, <2>2 DEF SplitNext
<1> QED
    BY <1>1, SplitInvariant, PTL DEF SplitSpec
-----------------------------------------------------------------------------
\* What a post's state says about the chunk it has reached: the chunks before
\* the current one are the ones shown.
Progress(m) ==
    LET state == post[<<m, "discord">>]
    IN  /\ chunk[m] \in 1 .. Chunks[m]
        /\ state \in {"none", "queued", "dropped"} => shown[m] = <<>> /\ chunk[m] = 1
        /\ state \in {"posting", "pausing"} => Len(shown[m]) = chunk[m] - 1
        /\ state = "sent" => Len(shown[m]) = Chunks[m]
        /\ broadcast[m] = "idle" => state = "none"

BroadcastInv == BroadcastTypeOK /\ \A m \in Messages : Progress(m)

LEMMA BroadcastInitially == BroadcastInit => BroadcastInv
<1> SUFFICES ASSUME BroadcastInit PROVE BroadcastInv
    OBVIOUS
<1>1. BroadcastTypeOK
    BY BroadcastAssumption DEF BroadcastInit, BroadcastTypeOK, Posts, Channels, States
<1>2. \A m \in Messages : Progress(m)
    BY BroadcastAssumption DEF BroadcastInit, Progress, Posts, Channels
<1> QED
    BY <1>1, <1>2 DEF BroadcastInv

\* Each step of a Discord post, with what it shows: nothing, or the current
\* chunk, which is the one after the last shown.
LEMMA BroadcastStep == BroadcastInv /\ [BroadcastNext]_broadcastVars => BroadcastInv'
<1> SUFFICES ASSUME BroadcastInv, [BroadcastNext]_broadcastVars PROVE BroadcastInv'
    OBVIOUS
<1> USE BroadcastAssumption DEF BroadcastInv, Posts, Channels
<1>1. ASSUME NEW m \in Messages, Broadcast(m) PROVE BroadcastInv'
  <2>1. BroadcastTypeOK'
      BY <1>1 DEF Broadcast, BroadcastTypeOK, States
  <2>2. ASSUME NEW n \in Messages PROVE Progress(n)'
      BY <1>1 DEF Broadcast, BroadcastTypeOK, Progress
  <2> QED
      BY <2>1, <2>2
<1>2. ASSUME NEW p \in Posts, TakeThread(p) PROVE BroadcastInv'
  <2>1. BroadcastTypeOK'
      BY <1>2 DEF TakeThread, BroadcastTypeOK, States
  <2>2. ASSUME NEW n \in Messages PROVE Progress(n)'
      BY <1>2 DEF TakeThread, BroadcastTypeOK, Progress
  <2> QED
      BY <2>1, <2>2
<1>3. ASSUME NEW m \in Messages, NEW ok \in BOOLEAN, TelegramAnswers(m, ok) PROVE BroadcastInv'
  <2>1. BroadcastTypeOK'
      BY <1>3 DEF TelegramAnswers, BroadcastTypeOK, States
  <2>2. ASSUME NEW n \in Messages PROVE Progress(n)'
    <3>1. post'[<<n, "discord">>] = post[<<n, "discord">>]
        BY <1>3 DEF TelegramAnswers, BroadcastTypeOK
    <3> QED
        BY <1>3, <3>1 DEF TelegramAnswers, Progress
  <2> QED
      BY <2>1, <2>2
<1>4. ASSUME NEW m \in Messages, Accepted(m) PROVE BroadcastInv'
  <2>1. chunk[m] \in 1 .. Chunks[m] /\ Len(shown[m]) = chunk[m] - 1 /\ shown[m] \in Seq(Nat)
      BY <1>4 DEF Accepted, Progress, BroadcastTypeOK
  <2>2. shown' = [shown EXCEPT ![m] = Append(@, chunk[m])] /\ Append(shown[m], chunk[m]) \in Seq(Nat)
      BY <1>4, <2>1 DEF Accepted, Appears
  <2>3. Len(Append(shown[m], chunk[m])) = chunk[m]
      BY <2>1
  <2>4. BroadcastTypeOK'
    <3>1. shown' \in [Messages -> Seq(Nat)] /\ attempt' \in [Messages -> 0 .. Attempts - 1]
        BY <1>4, <2>2 DEF Accepted, BroadcastTypeOK
    <3>2. CASE chunk[m] < Chunks[m]
      <4>1. chunk' = [chunk EXCEPT ![m] = chunk[m] + 1] /\ post' = post
          BY <1>4, <3>2 DEF Accepted
      <4> QED
          BY <1>4, <2>1, <3>1, <4>1 DEF Accepted, BroadcastTypeOK
    <3>3. CASE ~(chunk[m] < Chunks[m])
      <4>1. post' = [post EXCEPT ![<<m, "discord">>] = "sent"] /\ chunk' = chunk
          BY <1>4, <3>3 DEF Accepted
      <4> QED
          BY <1>4, <3>1, <4>1 DEF Accepted, BroadcastTypeOK, States
    <3> QED
        BY <3>2, <3>3
  <2>5. ASSUME NEW n \in Messages PROVE Progress(n)'
    <3>1. CASE n = m
      <4>1. Len(shown'[m]) = chunk[m] /\ broadcast'[m] = broadcast[m] /\ broadcast[m] # "idle"
          BY <1>4, <2>2, <2>3 DEF BroadcastTypeOK, Accepted, Progress
      <4>2. CASE chunk[m] < Chunks[m]
        <5>1. chunk'[m] = chunk[m] + 1 /\ post'[<<m, "discord">>] = "posting"
            BY <1>4, <4>2 DEF Accepted, BroadcastTypeOK
        <5> QED
            BY <2>1, <3>1, <4>1, <4>2, <5>1 DEF Progress
      <4>3. CASE ~(chunk[m] < Chunks[m])
        <5>1. chunk' = chunk /\ post'[<<m, "discord">>] = "sent"
            BY <1>4, <4>3 DEF Accepted, BroadcastTypeOK
        <5>2. chunk[m] = Chunks[m]
            BY <2>1, <4>3
        <5> QED
            BY <2>1, <3>1, <4>1, <5>1, <5>2 DEF Progress
      <4> QED
          BY <4>2, <4>3
    <3>2. CASE n # m
        BY <1>4, <2>2, <3>2 DEF Accepted, BroadcastTypeOK, Progress
    <3> QED
        BY <3>1, <3>2
  <2> QED
      BY <2>4, <2>5
<1>5. ASSUME NEW m \in Messages, Limited(m) PROVE BroadcastInv'
  <2>1. BroadcastTypeOK'
    <3>1. CASE attempt[m] + 1 < Attempts
      <4>1. attempt[m] + 1 \in 0 .. Attempts - 1
          BY <3>1 DEF BroadcastTypeOK
      <4>2. attempt' = [attempt EXCEPT ![m] = attempt[m] + 1] /\ post' = [post EXCEPT ![<<m, "discord">>] = "pausing"]
          BY <1>5, <3>1 DEF Limited
      <4> QED
          BY <1>5, <4>1, <4>2 DEF Limited, BroadcastTypeOK, States
    <3>2. CASE ~(attempt[m] + 1 < Attempts)
        BY <1>5, <3>2 DEF Limited, BroadcastTypeOK, States
    <3> QED
        BY <3>1, <3>2
  <2>2. ASSUME NEW n \in Messages PROVE Progress(n)'
    <3>1. n # m => post'[<<n, "discord">>] = post[<<n, "discord">>]
        BY <1>5 DEF Limited, BroadcastTypeOK
    <3>2. post'[<<m, "discord">>] \in {"pausing", "failed"} /\ broadcast[m] # "idle"
        BY <1>5 DEF Limited, BroadcastTypeOK, Progress
    <3>3. chunk' = chunk /\ shown' = shown /\ broadcast' = broadcast
        BY <1>5 DEF Limited
    <3> QED
        BY <1>5, <3>1, <3>2, <3>3 DEF Limited, Progress
  <2> QED
      BY <2>1, <2>2
<1>6. ASSUME NEW m \in Messages, NEW landed \in BOOLEAN, Unanswered(m, landed) PROVE BroadcastInv'
  <2>1. chunk[m] \in Nat /\ shown[m] \in Seq(Nat)
      BY <1>6 DEF BroadcastTypeOK
  <2>2. shown' \in [Messages -> Seq(Nat)] /\ \A n \in Messages : n # m => shown'[n] = shown[n]
    <3>1. CASE landed
      <4>1. shown' = [shown EXCEPT ![m] = Append(shown[m], chunk[m])] /\ Append(shown[m], chunk[m]) \in Seq(Nat)
          BY <1>6, <2>1, <3>1 DEF Unanswered, Appears
      <4> QED
          BY <4>1 DEF BroadcastTypeOK
    <3>2. CASE ~landed
        BY <1>6, <3>2 DEF Unanswered, BroadcastTypeOK
    <3> QED
        BY <3>1, <3>2
  <2>3. BroadcastTypeOK'
      BY <1>6, <2>2 DEF Unanswered, BroadcastTypeOK, States
  <2>4. ASSUME NEW n \in Messages PROVE Progress(n)'
      BY <1>6, <2>2 DEF Unanswered, BroadcastTypeOK, Progress
  <2> QED
      BY <2>3, <2>4
<1>7. ASSUME NEW m \in Messages, Resume(m) PROVE BroadcastInv'
  <2>1. BroadcastTypeOK'
      BY <1>7 DEF Resume, BroadcastTypeOK, States
  <2>2. ASSUME NEW n \in Messages PROVE Progress(n)'
      BY <1>7 DEF Resume, BroadcastTypeOK, Progress
  <2> QED
      BY <2>1, <2>2
<1>8. ASSUME NEW m \in Messages, Return(m) PROVE BroadcastInv'
    BY <1>8 DEF Return, BroadcastTypeOK, Progress
<1>9. ASSUME NEW m \in Messages, Cancel(m) PROVE BroadcastInv'
  <2>1. BroadcastTypeOK'
      BY <1>9 DEF Cancel, BroadcastTypeOK, States
  <2>2. ASSUME NEW n \in Messages PROVE Progress(n)'
      BY <1>9 DEF Cancel, BroadcastTypeOK, Progress
  <2> QED
      BY <2>1, <2>2
<1>10. ASSUME UNCHANGED broadcastVars PROVE BroadcastInv'
    BY <1>10 DEF broadcastVars, BroadcastTypeOK, Progress
<1> QED
    BY <1>1, <1>2, <1>3, <1>4, <1>5, <1>6, <1>7, <1>8, <1>9, <1>10 DEF BroadcastNext, DiscordAnswers

LEMMA BroadcastInvariant == BroadcastSpec => []BroadcastInv
    BY BroadcastInitially, BroadcastStep, PTL DEF BroadcastSpec

\* Type correctness, for every constant: in particular no chunk is posted more
\* than Attempts times.
THEOREM BroadcastTypeCorrect == BroadcastSpec => []BroadcastTypeOK
<1>1. BroadcastInv => BroadcastTypeOK
    BY DEF BroadcastInv
<1> QED
    BY <1>1, BroadcastInvariant, PTL

\* An alert is reported as sent only when Discord shows all of it, and one cut
\* short is under way or reported as failed.
THEOREM SentWhole == BroadcastSpec => []SentMeansWhole
<1>1. BroadcastInv => SentMeansWhole
  <2> SUFFICES ASSUME BroadcastInv, NEW m \in Messages
               PROVE  /\ post[<<m, "discord">>] = "sent" => Len(shown[m]) = Chunks[m]
                      /\ shown[m] # <<>> /\ Len(shown[m]) < Chunks[m] =>
                             post[<<m, "discord">>] \in {"posting", "pausing", "failed"}
      BY DEF SentMeansWhole
  <2>1. Progress(m)
      BY DEF BroadcastInv
  <2>2. post[<<m, "discord">>] \in States /\ Chunks[m] \in Nat
      BY BroadcastAssumption DEF BroadcastInv, BroadcastTypeOK, Posts, Channels
  <2> QED
      BY <2>1, <2>2 DEF Progress, States
<1> QED
    BY <1>1, BroadcastInvariant, PTL

\* Posting with retries, pauses and lost answers implements PrefixDelivery:
\* what Discord shows of an alert is a prefix of it, without repetition.
THEOREM ShowsPrefixes == BroadcastSpec => ShowsPrefix
<1>1. BroadcastInit => Delivery!Init
    BY DEF BroadcastInit, Delivery!Init
<1>2. BroadcastInv /\ [BroadcastNext]_broadcastVars => [Delivery!Next]_shown
  <2> SUFFICES ASSUME BroadcastInv, [BroadcastNext]_broadcastVars, shown' # shown
               PROVE  Delivery!Next
      OBVIOUS
  <2>1. PICK m \in Messages : post[<<m, "discord">>] = "posting" /\ Appears(m)
      BY DEF BroadcastNext, Broadcast, TakeThread, TelegramAnswers, DiscordAnswers, Accepted, Limited,
             Unanswered, Resume, Return, Cancel, broadcastVars
  <2>2. chunk[m] \in 1 .. Chunks[m] /\ Len(shown[m]) = chunk[m] - 1
      BY <2>1 DEF BroadcastInv, Progress
  <2>3. Len(shown[m]) < Chunks[m] /\ chunk[m] = Len(shown[m]) + 1
      BY <2>2, BroadcastAssumption
  <2>4. shown' = [shown EXCEPT ![m] = Append(shown[m], Len(shown[m]) + 1)]
      BY <2>1, <2>3 DEF Appears
  <2> QED
      BY <2>3, <2>4 DEF Delivery!Next, Delivery!Show
<1> QED
    BY <1>1, <1>2, BroadcastInvariant, PTL DEF BroadcastSpec, ShowsPrefix, Delivery!Spec

\* A Discord post that is under way comes nearer to its end: it goes on to the
\* next chunk, or to the next attempt at this one, or ends a pause.
NearerTheEnd(m) ==
    /\ OnThread(<<m, "discord">>) /\ OnThread(<<m, "discord">>)'
    /\ \/ chunk[m] < chunk'[m]
       \/ chunk'[m] = chunk[m] /\ attempt[m] < attempt'[m]
       \/ /\ chunk'[m] = chunk[m] /\ attempt'[m] = attempt[m]
          /\ post[<<m, "discord">>] = "pausing" /\ post'[<<m, "discord">>] = "posting"

\* What a step does to the Discord post of a message.
PostMoves(m) ==
    LET state == post[<<m, "discord">>]
    IN  \/ /\ state' = state /\ chunk'[m] = chunk[m] /\ attempt'[m] = attempt[m]
           /\ shown'[m] = shown[m]
        \/ state = "none" /\ state' = "queued"
        \/ state = "queued" /\ state' \in {"posting", "dropped"}
        \/ state = "posting" /\ state' \in {"sent", "failed"}
        \/ NearerTheEnd(m)

WithinBounds(m) == chunk[m] \in 1 .. Chunks[m] /\ attempt[m] \in 0 .. Attempts - 1

\* Rate limits hold an alert up, never forever: each step of a Discord post
\* that does not end it brings it nearer to its end, no post begins anew, and
\* chunks and attempts are bounded.
THEOREM PostsMoveOn ==
    BroadcastSpec => /\ [][\A m \in Messages : PostMoves(m)]_broadcastVars
                     /\ [](\A m \in Messages : WithinBounds(m))
<1>1. BroadcastInv /\ [BroadcastNext]_broadcastVars => [\A m \in Messages : PostMoves(m)]_broadcastVars
  <2> SUFFICES ASSUME BroadcastInv, BroadcastNext, NEW m \in Messages PROVE PostMoves(m)
      OBVIOUS
  <2> USE BroadcastAssumption DEF Posts, Channels
  <2>1. /\ BroadcastTypeOK /\ Progress(m)
        /\ chunk[m] \in Nat /\ attempt[m] \in Nat
      BY DEF BroadcastInv, BroadcastTypeOK
  <2>2. ASSUME NEW n \in Messages, Broadcast(n) PROVE PostMoves(m)
      BY <2>1, <2>2 DEF Broadcast, BroadcastTypeOK, Progress, PostMoves
  <2>3. ASSUME NEW p \in Posts, TakeThread(p) PROVE PostMoves(m)
      BY <2>1, <2>3 DEF TakeThread, BroadcastTypeOK, PostMoves
  <2>4. ASSUME NEW n \in Messages, NEW ok \in BOOLEAN, TelegramAnswers(n, ok) PROVE PostMoves(m)
    <3>1. post'[<<m, "discord">>] = post[<<m, "discord">>]
        BY <2>1, <2>4 DEF TelegramAnswers, BroadcastTypeOK
    <3> QED
        BY <2>4, <3>1 DEF TelegramAnswers, PostMoves
  <2>5. ASSUME NEW n \in Messages, Accepted(n) PROVE PostMoves(m)
    <3>1. CASE n # m
        BY <2>1, <2>5, <3>1 DEF Accepted, Appears, BroadcastTypeOK, PostMoves
    <3>2. CASE n = m /\ chunk[m] < Chunks[m]
      <4>1. chunk'[m] = chunk[m] + 1 /\ post' = post /\ post[<<m, "discord">>] = "posting"
          BY <2>1, <2>5, <3>2 DEF Accepted, BroadcastTypeOK
      <4>2. chunk[m] < chunk'[m]
          BY <2>1, <4>1
      <4> QED
          BY <4>1, <4>2 DEF PostMoves, NearerTheEnd, OnThread
    <3>3. CASE n = m /\ ~(chunk[m] < Chunks[m])
        BY <2>1, <2>5, <3>3 DEF Accepted, BroadcastTypeOK, PostMoves
    <3> QED
        BY <3>1, <3>2, <3>3
  <2>6. ASSUME NEW n \in Messages, Limited(n) PROVE PostMoves(m)
    <3>1. CASE n # m
        BY <2>1, <2>6, <3>1 DEF Limited, BroadcastTypeOK, PostMoves
    <3>2. CASE n = m /\ attempt[m] + 1 < Attempts
      <4>1. /\ attempt'[m] = attempt[m] + 1 /\ chunk' = chunk
            /\ post[<<m, "discord">>] = "posting" /\ post'[<<m, "discord">>] = "pausing"
          BY <2>1, <2>6, <3>2 DEF Limited, BroadcastTypeOK
      <4>2. attempt[m] < attempt'[m]
          BY <2>1, <4>1
      <4> QED
          BY <4>1, <4>2 DEF PostMoves, NearerTheEnd, OnThread
    <3>3. CASE n = m /\ ~(attempt[m] + 1 < Attempts)
        BY <2>1, <2>6, <3>3 DEF Limited, BroadcastTypeOK, PostMoves
    <3> QED
        BY <3>1, <3>2, <3>3
  <2>7. ASSUME NEW n \in Messages, NEW landed \in BOOLEAN, Unanswered(n, landed) PROVE PostMoves(m)
      BY <2>1, <2>7 DEF Unanswered, Appears, BroadcastTypeOK, PostMoves
  <2>8. ASSUME NEW n \in Messages, Resume(n) PROVE PostMoves(m)
      BY <2>1, <2>8 DEF Resume, BroadcastTypeOK, PostMoves, NearerTheEnd, OnThread
  <2>9. ASSUME NEW n \in Messages, Return(n) PROVE PostMoves(m)
      BY <2>9 DEF Return, PostMoves
  <2>10. ASSUME NEW n \in Messages, Cancel(n) PROVE PostMoves(m)
      BY <2>1, <2>10 DEF Cancel, BroadcastTypeOK, PostMoves
  <2> QED
      BY <2>2, <2>3, <2>4, <2>5, <2>6, <2>7, <2>8, <2>9, <2>10 DEF BroadcastNext, DiscordAnswers
<1>2. BroadcastInv => \A m \in Messages : WithinBounds(m)
    BY DEF BroadcastInv, BroadcastTypeOK, Progress, WithinBounds
<1> QED
    BY <1>1, <1>2, BroadcastInvariant, PTL DEF BroadcastSpec
=============================================================================
