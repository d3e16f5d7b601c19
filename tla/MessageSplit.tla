---------------------------- MODULE MessageSplit ----------------------------
(***************************************************************************)
(* _split_discord_chunks of src/app/notifications.py: a message longer     *)
(* than max_len is cut into chunks, at the last line break that fits when  *)
(* there is one.                                                           *)
(*                                                                         *)
(* A character is a line break, a blank, or ink; ink is the number of its  *)
(* position in the message, so that two pieces of it cannot be confused.   *)
(***************************************************************************)
EXTENDS Integers, Sequences, SequencesExt

CONSTANTS
    Texts,      \* the messages
    MaxLen      \* max_len

Break == 0
Blank == -1

ASSUME SplitAssumption ==
    /\ MaxLen \in Nat \ {0}
    /\ Texts \subseteq Seq(Int)
    /\ \A t \in Texts : \A i \in DOMAIN t : t[i] > 0 => t[i] = i

VARIABLES
    text,       \* the message
    remaining,  \* what is still to be cut
    chunks,     \* the chunks so far
    cutting     \* FALSE once the list is returned

splitVars == <<text, remaining, chunks, cutting>>

IsInk(c) == c > 0

\* Mutant: the strip eats the last character that is ink, too.
GreedyStrip(s) ==
    SubSeq(s, 1, CHOOSE n \in 0 .. Len(s) :
        /\ n <= Len(s) - 1 \/ n = 0
        /\ n > 0 => IsInk(s[n])
        /\ \A i \in n + 1 .. Len(s) - 1 : ~IsInk(s[i]))

\* str.rstrip
RStrip(s) ==
    SubSeq(s, 1, CHOOSE n \in 0 .. Len(s) :
        /\ n > 0 => IsInk(s[n])
        /\ \A i \in n + 1 .. Len(s) : ~IsInk(s[i]))

\* str.lstrip("\n")
LStrip(s) ==
    SubSeq(s, CHOOSE n \in 1 .. Len(s) + 1 :
        /\ n <= Len(s) => s[n] # Break
        /\ \A i \in 1 .. n - 1 : s[i] = Break, Len(s))

\* The places of a line break that str.rfind(..., 0, max_len) may return and
\* the code accepts: a break at index 0 counts as none.
Breaks(s) == {i \in 1 .. MaxLen - 1 : s[i + 1] = Break}

\* Mutants: one character too many; no heed of the breaks.
WideSplit(s) == IF Breaks(s) = {} THEN MaxLen + 1 ELSE CHOOSE i \in Breaks(s) : \A j \in Breaks(s) : j <= i
BlindSplit(s) == MaxLen

SplitAt(s) ==
    IF Breaks(s) = {} THEN MaxLen ELSE CHOOSE i \in Breaks(s) : \A j \in Breaks(s) : j <= i

SplitInit ==
    /\ text \in Texts
    /\ remaining = text
    /\ chunks = <<>>
    /\ cutting = TRUE

Cut ==
    /\ cutting
    /\ Len(remaining) > MaxLen
    /\ LET at == SplitAt(remaining)
       IN  /\ chunks' = Append(chunks, RStrip(SubSeq(remaining, 1, at)))
           /\ remaining' = LStrip(SubSeq(remaining, at + 1, Len(remaining)))
    /\ UNCHANGED <<text, cutting>>

\* A message that fits is its own only chunk, whatever it is; what is left of
\* a longer one is a chunk unless nothing is left.
Finish ==
    /\ cutting
    /\ Len(remaining) <= MaxLen
    /\ chunks' = IF chunks # <<>> /\ remaining = <<>> THEN chunks
                 ELSE Append(chunks, remaining)
    /\ remaining' = <<>>
    /\ cutting' = FALSE
    /\ UNCHANGED text

SplitNext == Cut \/ Finish

SplitSpec == SplitInit /\ [][SplitNext]_splitVars
-----------------------------------------------------------------------------
\* Texts and chunks are sequences of characters.
SplitTypeOK ==
    /\ text \in Seq(Int)
    /\ remaining \in Seq(Int)
    /\ chunks \in Seq(Seq(Int))
    /\ cutting \in BOOLEAN

\* No chunk is longer than max_len: with the "[i/n]" header of
\* _post_discord_message it stays below the 2000 characters at which
\* _post_discord_payload would cut the message silently.
ChunksFit == \A i \in DOMAIN chunks : Len(chunks[i]) <= MaxLen

\* Splitting loses white space only: every ink of the message is in a chunk or
\* in what remains, and read one after the other they hold the ink of the
\* message and no other, each piece once and in the order of the message,
\* although both ends of every cut are stripped.
Pieces == Append(chunks, remaining)
Ink(piece) == {c \in Range(piece) : IsInk(c)}
InkSurvives ==
    /\ UNION {Ink(Pieces[i]) : i \in DOMAIN Pieces} = Ink(text)
    /\ \A i, j \in DOMAIN Pieces : i < j =>
           \A c \in Ink(Pieces[i]), d \in Ink(Pieces[j]) : c < d
    /\ \A i \in DOMAIN Pieces : \A k, l \in DOMAIN Pieces[i] :
           k < l /\ IsInk(Pieces[i][k]) /\ IsInk(Pieces[i][l]) => Pieces[i][k] < Pieces[i][l]

\* A line that fits in a chunk is never torn apart: all its ink is in one
\* chunk, unless the message begins with a line break, which rfind reports as
\* index 0 and the code takes for "no line break".
LinesStayWhole ==
    text # <<>> /\ text[1] # Break =>
        \A first, last \in DOMAIN text :
            /\ last - first < MaxLen
            /\ first = 1 \/ text[first - 1] = Break
            /\ last = Len(text) \/ text[last + 1] = Break
            /\ \A i \in first .. last : text[i] # Break
            => \A i, j \in DOMAIN chunks :
                   /\ Range(chunks[i]) \cap (first .. last) # {}
                   /\ Range(chunks[j]) \cap (first .. last) # {}
                   => i = j
=============================================================================
