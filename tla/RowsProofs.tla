----------------------------- MODULE RowsProofs -----------------------------
(***************************************************************************)
(* Proofs about what the rows say: which parser reads the logs of an id    *)
(* (ParserStartup), which accounts an instruction's row names              *)
(* (EntryDecoding), how the measures of a profile relate (ProfileMetrics)  *)
(* and which mints, amounts and prices the rows of a pool have             *)
(* (SwapResolution), for any settings, instructions, pools, swaps and      *)
(* failures.                                                               *)
(***************************************************************************)
EXTENDS ParserStartup, EntryDecoding, SwapResolution, ProfileMetrics, FiniteSetTheorems, SequenceTheorems, TLAPS

-----------------------------------------------------------------------------
(***************************************************************************)
(* The parsers.  A parser is registered for an id when the discriminators  *)
(* it asks for are found in the IDL under the id, or when the label of the *)
(* IDL says so.  Neither names a program, but no two files have the events *)
(* of one parser; and the files are all loaded before a parser is made.    *)
(***************************************************************************)
StartupInv ==
    /\ loaded \in 0 .. Len(Files)
    /\ \A id \in DOMAIN idls : idls[id] \in Range(Files)
    /\ parsers # {} => phase = "ready"
    /\ RightParser

LEMMA FileNames ==
    /\ Len(Files) = 6
    /\ \A i \in 1 .. 6 : Files[i] \in Range(Files)
    /\ Range(Files) = {"meteora", "pump", "clmm", "cpmm", "launchlab", "whirlpool"}
<1>1. DOMAIN Files = 1 .. 6 /\ Len(Files) = 6
    BY DEF Files
<1>2. \A i \in 1 .. 6 : Files[i] \in {"meteora", "pump", "clmm", "cpmm", "launchlab", "whirlpool"}
    BY DEF Files
<1>3. /\ Files[1] = "meteora" /\ Files[2] = "pump" /\ Files[3] = "clmm"
      /\ Files[4] = "cpmm" /\ Files[5] = "launchlab" /\ Files[6] = "whirlpool"
    BY DEF Files
<1> QED
    BY <1>1, <1>2, <1>3 DEF Range

\* The discriminators of a parser, when they are found, tell the file.
LEMMA EventsTellFile ==
    ASSUME NEW id, Finds(id, {"TradeEvent", "CreateEvent"}) \/ Finds(id, {"EvtSwap2", "EvtInitializePool"})
                   \/ Finds(id, {"Traded", "PoolInitialized"}),
           idls[id] \in Range(Files)
    PROVE  /\ Finds(id, {"TradeEvent", "CreateEvent"}) => idls[id] = "pump"
           /\ Finds(id, {"EvtSwap2", "EvtInitializePool"}) => idls[id] = "meteora"
           /\ Finds(id, {"Traded", "PoolInitialized"}) => idls[id] = "whirlpool"
    BY FileNames DEF Finds, EventNames

LEMMA StartupInvNext == StartupInv /\ [StartupNext]_startupVars => StartupInv'
<1> SUFFICES ASSUME StartupInv, [StartupNext]_startupVars
             PROVE  StartupInv'
    OBVIOUS
<1>1. CASE LoadFile
  <2>1. parsers = {} /\ parsers' = parsers
      BY <1>1 DEF LoadFile, StartupInv
  <2>2. loaded \in Nat /\ loaded < 6 /\ loaded' = loaded + 1 /\ Files[loaded + 1] \in Range(Files)
      BY <1>1, FileNames DEF LoadFile, StartupInv
  <2>3. \E ids : idls' = [id \in DOMAIN idls \cup ids |->
                              IF id \in ids THEN Files[loaded + 1] ELSE idls[id]]
      BY <1>1, Zenon DEF LoadFile
  <2>4. \A id \in DOMAIN idls' : idls'[id] \in Range(Files)
      BY <2>2, <2>3 DEF StartupInv
  <2> QED
      BY <2>1, <2>2, <2>4, FileNames DEF StartupInv, RightParser
<1>2. CASE Validate
    BY <1>2 DEF Validate, StartupInv, RightParser
<1>3. CASE RegisterParsers
  <2>1. idls' = idls /\ phase' = "ready" /\ loaded' = loaded
      BY <1>3 DEF RegisterParsers
  <2>2. ASSUME NEW entry \in parsers'
        PROVE  idls[entry[1]] = entry[2]
    <3>1. \E id : \/ entry = <<id, "pump">> /\ Finds(id, {"TradeEvent", "CreateEvent"})
                  \/ entry = <<id, "launchlab">> /\ LabelSays(id, "launchlab")
                  \/ entry = <<id, "meteora">> /\ Finds(id, {"EvtSwap2", "EvtInitializePool"})
                  \/ entry = <<id, "whirlpool">> /\ Finds(id, {"Traded", "PoolInitialized"})
                  \/ entry = <<id, "cpmm">> /\ LabelSays(id, "cpmm")
        BY <1>3, <2>2 DEF RegisterParsers
    <3> PICK id : \/ entry = <<id, "pump">> /\ Finds(id, {"TradeEvent", "CreateEvent"})
                  \/ entry = <<id, "launchlab">> /\ LabelSays(id, "launchlab")
                  \/ entry = <<id, "meteora">> /\ Finds(id, {"EvtSwap2", "EvtInitializePool"})
                  \/ entry = <<id, "whirlpool">> /\ Finds(id, {"Traded", "PoolInitialized"})
                  \/ entry = <<id, "cpmm">> /\ LabelSays(id, "cpmm")
        BY <3>1
    <3>2. id \in DOMAIN idls => idls[id] \in Range(Files)
        BY DEF StartupInv
    <3>3. id \in DOMAIN idls
        BY DEF Finds, LabelSays
    <3> QED
        BY <3>2, <3>3, EventsTellFile DEF LabelSays
  <2> QED
      BY <2>1, <2>2 DEF StartupInv, RightParser
<1>4. CASE UNCHANGED startupVars
    BY <1>4 DEF startupVars, StartupInv, RightParser
<1> QED
    BY <1>1, <1>2, <1>3, <1>4 DEF StartupNext

\* Whatever ids the settings and the map give to whichever program, and
\* whichever files are broken or have no name, the logs of an id go to the
\* parser of the program whose IDL stands under it.
THEOREM ParsersAreRight == StartupSpec => []RightParser
<1>1. StartupInit => StartupInv
    BY FileNames DEF StartupInit, StartupInv, RightParser
<1>2. StartupInv => RightParser
    BY DEF StartupInv
<1> QED
    BY <1>1, <1>2, StartupInvNext, PTL DEF StartupSpec

-----------------------------------------------------------------------------
(***************************************************************************)
(* The accounts.  Every step on the way leaves an account at its position  *)
(* or drops all of them, so what stands at a position is what the IDL      *)
(* calls it.                                                               *)
(***************************************************************************)
EntryInv ==
    /\ instruction \in DOMAIN AccountNames
    /\ DOMAIN sent \subseteq 1 .. 8
    /\ \A i \in DOMAIN sent : sent[i] = AccountNames[instruction][i]
    /\ DOMAIN accounts \subseteq 1 .. 8
    /\ \A i \in DOMAIN accounts : accounts[i].name = AccountNames[instruction][i]
    /\ AccountsAsNamed

LEMMA EntryInvInit == EntryInit => EntryInv
<1> SUFFICES ASSUME EntryInit PROVE EntryInv
    OBVIOUS
<1>1. PICK n \in 0 .. 8 : sent = SubSeq(AccountNames[instruction], 1, 8 - n)
    BY EntryAssumption DEF EntryInit
<1> DEFINE names == AccountNames[instruction]
           NameSet == {names[i] : i \in 1 .. 8}
<1> HIDE DEF names
<1>2. sent = SubSeq(names, 1, 8 - n) /\ 8 - n \in 0 .. 8
    BY <1>1 DEF names
<1>3. \A i \in 1 .. 8 - n : names[i] \in NameSet
    OBVIOUS
<1>4. /\ sent \in Seq(NameSet)
      /\ Len(sent) = 8 - n
      /\ \A i \in 1 .. 8 - n : sent[i] = names[i]
    BY <1>2, <1>3, SubSeqProperties
<1>5. DOMAIN sent \subseteq 1 .. 8 /\ \A i \in DOMAIN sent : sent[i] = AccountNames[instruction][i]
    BY <1>2, <1>4 DEF names
<1> QED
    BY <1>5, EntryAssumption DEF EntryInit, EntryInv, AccountsAsNamed

LEMMA EntryInvNext == EntryInv /\ [EntryNext]_entryVars => EntryInv'
<1> SUFFICES ASSUME EntryInv, [EntryNext]_entryVars
             PROVE  EntryInv'
    OBVIOUS
<1>1. CASE Decode
    BY <1>1 DEF Decode, EntryInv, AccountsAsNamed
<1>2. CASE DecodeFails
    BY <1>2 DEF DecodeFails, EntryInv, AccountsAsNamed
<1>3. ASSUME NEW bad, Clean(bad)
      PROVE  EntryInv'
    BY <1>3 DEF Clean, Cleaned, EntryInv, AccountsAsNamed
<1>4. CASE Parse
  <2>1. UNCHANGED <<instruction, sent, accounts>>
      BY <1>4 DEF Parse
  <2>2. CASE stage' = "row" /\ picked' = Taken /\ Taken.mint # "" /\ Taken.pool # ""
    <3>1. ASSUME NEW idx \in Nat, NEW name, AccountNames[instruction][idx + 1] = name
          PROVE  AccountAt(idx) = "" \/ AccountAt(idx) = name
        BY <3>1 DEF EntryInv, AccountAt
    <3>2. CASE instruction \in {"create", "create_v2"}
      <4>1. /\ AccountNames[instruction][1] = "mint"
            /\ AccountNames[instruction][3] = "bonding_curve"
          BY <3>2 DEF AccountNames
      <4>2. Taken = [mint |-> AccountAt(0), pool |-> AccountAt(2), signer |-> ""]
          BY <3>2 DEF Taken
      <4>3. AccountAt(0) \in {"", "mint"} /\ AccountAt(2) \in {"", "bonding_curve"}
        <5>1. 0 \in Nat /\ 2 \in Nat /\ 0 + 1 = 1 /\ 2 + 1 = 3
            OBVIOUS
        <5> QED
            BY <3>1, <4>1, <5>1, Zenon
      <4>4. picked'.mint = "mint" /\ picked'.pool = "bonding_curve" /\ picked'.signer = ""
          BY <2>2, <4>2, <4>3
      <4> QED
          BY <2>1, <2>2, <4>4 DEF EntryInv, AccountsAsNamed
    <3>3. CASE instruction \notin {"create", "create_v2"}
      <4>1. AccountNames[instruction] = TradeAccounts
          BY <3>3 DEF EntryInv, AccountNames
      <4>2. /\ AccountNames[instruction][3] = "mint"
            /\ AccountNames[instruction][4] = "bonding_curve"
            /\ AccountNames[instruction][7] = "user"
          BY <4>1 DEF TradeAccounts
      <4>3. Taken = [mint |-> AccountAt(2), pool |-> AccountAt(3), signer |-> AccountAt(6)]
          BY <3>3 DEF Taken
      <4>4. /\ AccountAt(2) \in {"", "mint"} /\ AccountAt(3) \in {"", "bonding_curve"}
            /\ AccountAt(6) \in {"", "user"}
        <5>1. 2 \in Nat /\ 3 \in Nat /\ 6 \in Nat /\ 2 + 1 = 3 /\ 3 + 1 = 4 /\ 6 + 1 = 7
            OBVIOUS
        <5> QED
            BY <3>1, <4>2, <5>1, Zenon
      <4>5. /\ picked'.mint = "mint" /\ picked'.pool = "bonding_curve"
            /\ picked'.signer \in {"", "user"}
          BY <2>2, <4>3, <4>4
      <4> QED
          BY <2>1, <2>2, <4>5 DEF EntryInv, AccountsAsNamed
    <3> QED
        BY <3>2, <3>3
  <2>3. CASE stage' = "none"
      BY <2>1, <2>3 DEF EntryInv, AccountsAsNamed
  <2> QED
      BY <1>4, <2>2, <2>3 DEF Parse
<1>5. CASE UNCHANGED entryVars
    BY <1>5 DEF entryVars, EntryInv, AccountsAsNamed
<1> QED
    BY <1>1, <1>2, <1>3, <1>4, <1>5 DEF EntryNext

\* A row of an instruction names the accounts that the IDL calls mint, bonding
\* curve and user, whichever of them came from a lookup table, were cut off or
\* were not printed as texts.
THEOREM RowsNameAccounts == EntrySpec => []AccountsAsNamed
<1>1. EntryInv => AccountsAsNamed
    BY DEF EntryInv
<1> QED
    BY <1>1, EntryInvInit, EntryInvNext, PTL DEF EntrySpec

-----------------------------------------------------------------------------
(***************************************************************************)
(* The measures.  Rows are only added, so what an answer says of a window  *)
(* bounds what a later query finds in a wider one; a failed query says     *)
(* nothing.  And a highest price exists, as the table holds finitely many  *)
(* rows at any time.                                                       *)
(***************************************************************************)
Ends == {T5m, T15m, T1h, T4h}

Answer == [count : Int, price : Nat, first : Nat, time : Nat]

Entry == [answer : Answer, ok : BOOLEAN]

\* No price above that of some row of the first four hours.
Covered(price) == price = 0 \/ \E s \in Within(T4h) : price <= s.price

TableInv ==
    /\ initial_price \in Nat /\ to_come \subseteq Swaps /\ visible \subseteq Swaps
    /\ IsFiniteSet(visible)
    /\ \A end \in Ends :
          Within(end) # {} => \E s \in Within(end) : \A r \in Within(end) : r.price <= s.price

\* The price of answer i is one of the first four hours.
Early(i) == i \in 1 .. 3 => answers[i].answer.time <= T4h

AnswersInv ==
    /\ answers \in Seq(Entry)
    /\ Len(answers) <= 8
    /\ \A i \in DOMAIN answers : ~answers[i].ok => answers[i].answer = Nothing
    /\ \A i \in DOMAIN answers : i <= 7 /\ Early(i) => Covered(answers[i].answer.price)
    /\ Len(answers) >= 4 => Covered(answers[4].answer.first)
    /\ Len(answers) = 8 /\ answers[8].ok =>
          /\ \A i \in 1 .. 7 : Early(i) => answers[i].answer.price <= answers[8].answer.price
          /\ answers[4].answer.first <= answers[8].answer.price

CountsInv ==
    LET count(i) == answers[i].answer.count
    IN  /\ Len(answers) >= 4 => count(4) <= Cardinality(Within(T5m))
        /\ Len(answers) >= 5 => /\ count(5) <= Cardinality(Within(T15m))
                                /\ count(5) >= 0 => count(4) <= count(5)
        /\ Len(answers) >= 6 /\ count(6) >= 0 => count(4) <= count(6) /\ count(5) <= count(6)

ProfileInv ==
    profile # NotYet =>
        /\ Len(answers) = 8
        /\ profile.price_5m = answers[1].answer.price
        /\ profile.price_15m = answers[2].answer.price
        /\ profile.price_1h = answers[3].answer.price
        /\ profile.price_peak = answers[8].answer.price
        /\ profile.volume_5m = answers[4].answer.count
        /\ profile.volume_15m = answers[5].answer.count
        /\ profile.volume_1h = answers[6].answer.count
        /\ initial_price = 0 =>
              /\ profile.initial_price = answers[4].answer.first
              /\ \/ profile.peak_multiplier = <<0, 0>>
                 \/ /\ profile.peak_multiplier = <<answers[8].answer.price, answers[4].answer.first>>
                    /\ answers[8].answer.price > 0

MetricsInv == TableInv /\ AnswersInv /\ CountsInv /\ ProfileInv

LEMMA WithinFacts ==
    ASSUME TableInv
    PROVE  /\ \A s \in visible : s \in Swaps /\ s.time \in Nat /\ s.price \in Nat
           /\ \A end : IsFiniteSet(Within(end)) /\ Cardinality(Within(end)) \in Nat
           /\ \A end : Within(end) \subseteq visible
<1>1. \A s \in visible : s \in Swaps /\ s.time \in Nat /\ s.price \in Nat
    BY MetricsAssumption DEF TableInv
<1>2. \A end : Within(end) \subseteq visible
    BY DEF Within
<1>3. ASSUME NEW end
      PROVE  IsFiniteSet(Within(end)) /\ Cardinality(Within(end)) \in Nat
  <2>1. IsFiniteSet(Within(end))
      BY <1>2, FS_Subset DEF TableInv
  <2> QED
      BY <2>1, FS_CardinalityType
<1> QED
    BY <1>1, <1>2, <1>3

\* A longer window has the rows of a shorter one.
LEMMA WindowWidens ==
    ASSUME TableInv, NEW end \in Ends, NEW later \in Ends, end <= later
    PROVE  /\ Within(end) \subseteq Within(later)
           /\ Cardinality(Within(end)) <= Cardinality(Within(later))
<1>1. Within(end) \subseteq Within(later)
  <2>1. end \in Nat /\ later \in Nat
      BY DEF Ends, T5m, T15m, T1h, T4h
  <2> QED
      BY <2>1, WithinFacts DEF Within
<1> QED
    BY <1>1, FS_Subset, WithinFacts

LEMMA HighestFound ==
    ASSUME TableInv, NEW end \in Ends, Within(end) # {}
    PROVE  /\ Highest(Within(end)) \in Nat
           /\ \E s \in Within(end) : s.price = Highest(Within(end))
           /\ \A s \in Within(end) : s.price <= Highest(Within(end))
<1> DEFINE prices == {s.price : s \in Within(end)}
<1>1. \A x \in prices : x \in Nat
    BY WithinFacts
<1>2. \E x \in prices : \A y \in prices : x >= y
  <2>1. PICK s \in Within(end) : \A r \in Within(end) : r.price <= s.price
      BY DEF TableInv
  <2> QED
      BY <1>1, <2>1
<1>3. Max(prices) \in prices /\ \A y \in prices : Max(prices) >= y
    BY <1>2 DEF Max
<1> QED
    BY <1>1, <1>3 DEF Highest

\* What the query in place i answers.
LEMMA AnswerFacts ==
    ASSUME TableInv, NEW i \in 1 .. 8, NEW a \in Answers(Queries[i])
    PROVE  /\ a \in Answer
           /\ i <= 7 /\ (i \in 1 .. 3 => a.time <= T4h) => Covered(a.price)
           /\ i = 4 => Covered(a.first) /\ a.count = Cardinality(Within(T5m))
           /\ i = 5 => a.count = Cardinality(Within(T15m))
           /\ i = 6 => a.count = Cardinality(Within(T1h))
           /\ i = 8 => \A price \in Nat : Covered(price) => price <= a.price
<1> USE DEF T5m, T15m, T1h, T4h, Answer
<1>1. ASSUME NEW after \in Nat, a \in PriceAt(after)
      PROVE  /\ a \in Answer
             /\ a.time <= T4h => Covered(a.price)
  <2> DEFINE rows == {s \in visible : s.price > 0 /\ s.time >= after}
  <2>1. CASE a = Nothing
      BY <2>1 DEF Nothing, Covered
  <2>2. ASSUME NEW s \in rows, a = [Nothing EXCEPT !.price = s.price, !.time = s.time]
        PROVE  /\ a \in Answer
               /\ a.time <= T4h => Covered(a.price)
    <3>1. s \in visible /\ s.price > 0 /\ s.price \in Nat /\ s.time \in Nat
        BY WithinFacts
    <3>2. a = [count |-> -1, price |-> s.price, first |-> 0, time |-> s.time]
        BY <2>2 DEF Nothing
    <3>3. a.time <= T4h => s \in Within(T4h)
        BY <3>1, <3>2 DEF Within
    <3> QED
        BY <3>1, <3>2, <3>3 DEF Covered
  <2> QED
      BY <1>1, <2>1, <2>2 DEF PriceAt, Earliest
<1>2. ASSUME NEW end \in Ends, end <= T4h, a \in Window(end)
      PROVE  /\ a \in Answer
             /\ a.count = Cardinality(Within(end))
             /\ Covered(a.price) /\ Covered(a.first)
  <2>1. T4h \in Ends /\ end \in Nat
      BY DEF Ends
  <2>2. CASE Within(end) = {}
    <3>1. a = [count |-> 0, price |-> 0, first |-> 0, time |-> 0]
        BY <1>2, <2>2 DEF Window, Nothing
    <3> QED
        BY <2>2, <3>1, FS_EmptySet DEF Covered
  <2>3. CASE Within(end) # {}
    <3>1. PICK s \in Within(end) :
              a = [count |-> Cardinality(Within(end)), price |-> Highest(Within(end)),
                   first |-> s.price, time |-> end]
        BY <1>2, <2>3 DEF Window, Earliest
    <3>2. s.price \in Nat /\ Cardinality(Within(end)) \in Nat
        BY WithinFacts
    <3>3. Within(end) \subseteq Within(T4h)
        BY <1>2, <2>1, WindowWidens
    <3>4. /\ Highest(Within(end)) \in Nat
          /\ \E r \in Within(T4h) : r.price = Highest(Within(end))
        BY <2>3, <3>3, HighestFound
    <3>5. Covered(s.price) /\ Covered(Highest(Within(end)))
        BY <3>2, <3>3, <3>4 DEF Covered
    <3> QED
        BY <2>1, <3>1, <3>2, <3>4, <3>5
  <2> QED
      BY <2>2, <2>3
<1>3. ASSUME a \in PeakPrice(T4h)
      PROVE  /\ a \in Answer
             /\ \A price \in Nat : Covered(price) => price <= a.price
  <2>1. T4h \in Ends
      BY DEF Ends
  <2>2. CASE Within(T4h) = {}
    <3>1. a = Nothing
        BY <1>3, <2>2 DEF PeakPrice
    <3> QED
        BY <2>2, <3>1 DEF Nothing, Covered
  <2>3. CASE Within(T4h) # {}
    <3>1. a = [Nothing EXCEPT !.price = Highest(Within(T4h)), !.time = T4h]
        BY <1>3, <2>3, Zenon DEF PeakPrice
    <3>2. /\ Highest(Within(T4h)) \in Nat
          /\ \A s \in Within(T4h) : s.price \in Nat /\ s.price <= Highest(Within(T4h))
        BY <2>1, <2>3, HighestFound, WithinFacts
    <3>3. a \in Answer /\ a.price = Highest(Within(T4h))
      <4> PICK highest \in Nat : highest = Highest(Within(T4h))
          BY <3>2
      <4> PICK end \in Nat : end = T4h
          OBVIOUS
      <4>1. a = [Nothing EXCEPT !.price = highest, !.time = end]
          BY <3>1
      <4>2. a = [count |-> -1, price |-> highest, first |-> 0, time |-> end]
          BY <4>1 DEF Nothing
      <4> QED
          BY <4>2
    <3> QED
        BY <3>2, <3>3 DEF Covered
  <2> QED
      BY <2>2, <2>3
<1>4. ASSUME a = Nothing
      PROVE  a \in Answer /\ Covered(a.price)
    BY <1>4 DEF Nothing, Covered
<1>5. /\ Queries[1] = "p5m" /\ Queries[2] = "p15m" /\ Queries[3] = "p1h"
      /\ Queries[4] = "m5m" /\ Queries[5] = "m15m" /\ Queries[6] = "m1h"
      /\ Queries[7] = "conc5m" /\ Queries[8] = "peak"
    BY DEF Queries
<1>6. {T5m, T15m, T1h} \subseteq Ends /\ {T5m, T15m, T1h} \subseteq Nat
    BY DEF Ends
<1>7. CASE i \in {1, 2, 3}
  <2>1. a \in PriceAt(T5m) \/ a \in PriceAt(T15m) \/ a \in PriceAt(T1h)
      BY <1>5, <1>7 DEF Answers
  <2> QED
      BY <1>1, <1>6, <1>7, <2>1
<1>8. CASE i = 4
  <2>1. a \in Window(T5m)
      BY <1>5, <1>8 DEF Answers
  <2> QED
      BY <1>2, <1>6, <1>8, <2>1
<1>9. CASE i = 5
  <2>1. a \in Window(T15m)
      BY <1>5, <1>9 DEF Answers
  <2> QED
      BY <1>2, <1>6, <1>9, <2>1
<1>10. CASE i = 6
  <2>1. a \in Window(T1h)
      BY <1>5, <1>10 DEF Answers
  <2> QED
      BY <1>2, <1>6, <1>10, <2>1
<1>11. CASE i = 7
  <2>1. a = Nothing
      BY <1>5, <1>11 DEF Answers
  <2> QED
      BY <1>4, <1>11, <2>1
<1>12. CASE i = 8
  <2>1. a \in PeakPrice(T4h)
      BY <1>5, <1>12 DEF Answers
  <2> QED
      BY <1>3, <1>12, <2>1
<1> QED
    BY <1>7, <1>8, <1>9, <1>10, <1>11, <1>12

LEMMA AnswerType ==
    ASSUME AnswersInv
    PROVE  /\ Len(answers) \in Nat /\ Len(answers) <= 8 /\ DOMAIN answers = 1 .. Len(answers)
           /\ \A i \in 1 .. Len(answers) :
                 /\ answers[i].answer \in Answer
                 /\ answers[i].answer.count \in Int /\ answers[i].answer.price \in Nat
                 /\ answers[i].answer.first \in Nat /\ answers[i].answer.time \in Nat
<1>1. answers \in Seq(Entry) /\ Len(answers) <= 8
    BY DEF AnswersInv
<1>2. Len(answers) \in Nat /\ DOMAIN answers = 1 .. Len(answers)
    BY <1>1
<1>3. ASSUME NEW i \in 1 .. Len(answers)
      PROVE  answers[i].answer \in Answer
  <2>1. answers[i] \in Entry
      BY <1>1, <1>2
  <2> QED
      BY <2>1 DEF Entry
<1> QED
    BY <1>1, <1>2, <1>3 DEF Answer

LEMMA MetricsInvInit == MetricsInit => MetricsInv
<1> SUFFICES ASSUME MetricsInit PROVE MetricsInv
    OBVIOUS
<1>1. /\ initial_price \in Nat /\ to_come \subseteq Swaps /\ visible = {} /\ Within(T4h) = {}
      /\ answers = <<>> /\ profile = NotYet
    BY MetricsAssumption DEF MetricsInit, kSubset, Within
<1>2. TableInv
    BY <1>1, FS_EmptySet DEF TableInv, Within
<1>3. AnswersInv /\ CountsInv /\ ProfileInv
    BY <1>1 DEF AnswersInv, CountsInv, ProfileInv
<1> QED
    BY <1>2, <1>3 DEF MetricsInv

\* A swap that is stored between two queries.
LEMMA LandKeeps ==
    ASSUME MetricsInv, NEW s \in Swaps, Land(s)
    PROVE  MetricsInv'
<1>0. TableInv /\ AnswersInv /\ CountsInv /\ ProfileInv
    BY DEF MetricsInv
<1>1. /\ s.time \in Nat /\ s.price \in Nat
      /\ visible' = visible \cup {s} /\ UNCHANGED <<initial_price, answers, profile>>
    BY MetricsAssumption DEF Land
<1>2. ASSUME NEW end
      PROVE  /\ Within(end) \subseteq Within(end)'
             /\ Within(end)' \subseteq Within(end) \cup {s}
    BY <1>1 DEF Within
<1>3. TableInv'
  <2>1. visible' \subseteq Swaps /\ to_come' \subseteq Swaps /\ initial_price' \in Nat
        /\ IsFiniteSet(visible')
      BY <1>0, <1>1, FS_AddElement DEF TableInv, Land
  <2>2. ASSUME NEW end \in Ends, Within(end)' # {}
        PROVE  \E t \in Within(end)' : \A r \in Within(end)' : r.price <= t.price
    <3>1. \A r \in Within(end) : r.price \in Nat
        BY <1>0, WithinFacts
    <3>2. CASE Within(end)' = Within(end)
        BY <1>0, <2>2, <3>2 DEF TableInv
    <3>3. CASE s \in Within(end)' /\ Within(end) = {}
        BY <1>1, <1>2, <3>3
    <3>4. CASE s \in Within(end)' /\ Within(end) # {}
      <4>1. PICK t \in Within(end) : \A r \in Within(end) : r.price <= t.price
          BY <1>0, <3>4 DEF TableInv
      <4>2. CASE s.price <= t.price
          BY <1>2, <4>1, <4>2
      <4>3. CASE t.price <= s.price
          BY <1>1, <1>2, <3>1, <3>4, <4>1, <4>3
      <4> QED
          BY <1>1, <3>1, <4>2, <4>3
    <3> QED
        BY <1>2, <3>2, <3>3, <3>4
  <2>3. \A end \in Ends : Within(end)' # {} =>
            \E t \in Within(end)' : \A r \in Within(end)' : r.price <= t.price
      BY <2>2
  <2> QED
      BY <2>1, <2>3 DEF TableInv, Within
<1>4. \A price : Covered(price) => Covered(price)'
    BY <1>2 DEF Covered
<1>5. AnswersInv'
    BY <1>0, <1>1, <1>4 DEF AnswersInv, Early, Covered
<1>6. CountsInv'
  <2>1. ASSUME NEW end
        PROVE  /\ Cardinality(Within(end)) \in Nat /\ Cardinality(Within(end))' \in Nat
               /\ Cardinality(Within(end)) <= Cardinality(Within(end))'
    <3>1. IsFiniteSet(Within(end)') /\ IsFiniteSet(Within(end))
      <4>1. IsFiniteSet(Within(end) \cup {s})
          BY <1>0, WithinFacts, FS_AddElement
      <4> QED
          BY <1>0, <1>2, <4>1, WithinFacts, FS_Subset
    <3> QED
        BY <1>2, <3>1, FS_Subset, FS_CardinalityType
  <2>2. \A i \in DOMAIN answers : answers[i].answer.count \in Int
      BY <1>0, AnswerType
  <2>3. Len(answers) \in Nat /\ DOMAIN answers = 1 .. Len(answers)
      BY <1>0, AnswerType
  <2>4. /\ Len(answers) >= 4 => answers[4].answer.count <= Cardinality(Within(T5m))'
        /\ Len(answers) >= 5 => answers[5].answer.count <= Cardinality(Within(T15m))'
    <3>1. /\ Cardinality(Within(T5m)) <= Cardinality(Within(T5m))'
          /\ Cardinality(Within(T15m)) <= Cardinality(Within(T15m))'
          /\ Cardinality(Within(T5m)) \in Nat /\ Cardinality(Within(T5m))' \in Nat
          /\ Cardinality(Within(T15m)) \in Nat /\ Cardinality(Within(T15m))' \in Nat
        BY <2>1
    <3>2. /\ Len(answers) >= 4 => answers[4].answer.count \in Int
          /\ Len(answers) >= 5 => answers[5].answer.count \in Int
        BY <2>2, <2>3
    <3> QED
        BY <1>0, <3>1, <3>2 DEF CountsInv
  <2> QED
      BY <1>0, <1>1, <2>4 DEF CountsInv, Within
<1>7. ProfileInv'
    BY <1>0, <1>1 DEF ProfileInv
<1> QED
    BY <1>3, <1>5, <1>6, <1>7 DEF MetricsInv

\* An answer joins those there are.
LEMMA AskKeeps ==
    ASSUME MetricsInv, NEW ok \in BOOLEAN, Ask(ok)
    PROVE  MetricsInv'
<1>0. TableInv /\ AnswersInv /\ CountsInv /\ ProfileInv
    BY DEF MetricsInv
<1>1. UNCHANGED <<initial_price, to_come, visible, profile>>
    BY DEF Ask
<1> DEFINE n == Len(answers) + 1
<1>2. Len(answers) \in Nat /\ n \in 1 .. 8 /\ Len(Queries) = 8
  <2>1. Len(Queries) = 8
      BY DEF Queries
  <2>2. Len(answers) < Len(Queries)
      BY DEF Ask
  <2> QED
      BY <1>0, <2>1, <2>2, AnswerType
<1> PICK a : /\ answers' = Append(answers, [answer |-> a, ok |-> ok])
             /\ a \in IF ok THEN Answers(Queries[Len(answers) + 1]) ELSE {Nothing}
    BY DEF Ask
<1>3. /\ a \in Answer
      /\ ~ok => a = Nothing
      /\ n <= 7 /\ (n \in 1 .. 3 => a.time <= T4h) => Covered(a.price)
      /\ n = 4 => Covered(a.first) /\ a.count <= Cardinality(Within(T5m))
      /\ n = 5 => /\ a.count <= Cardinality(Within(T15m))
                  /\ a.count >= 0 => a.count = Cardinality(Within(T15m))
      /\ n = 6 /\ a.count >= 0 => a.count = Cardinality(Within(T1h))
      /\ n = 8 /\ ok => \A price \in Nat : Covered(price) => price <= a.price
  <2>1. \A end : Cardinality(Within(end)) \in Nat
      BY <1>0, WithinFacts
  <2>2. CASE ok
    <3>1. a \in Answers(Queries[n])
        BY <2>2
    <3> HIDE DEF n
    <3> QED
        BY <1>0, <1>2, <2>1, <2>2, <3>1, AnswerFacts
  <2>3. CASE ~ok
    <3>1. a = Nothing
        BY <2>3
    <3>2. a \in Answer /\ a.count = -1 /\ a.price = 0 /\ a.first = 0
        BY <3>1 DEF Nothing, Answer
    <3> QED
        BY <2>1, <2>3, <3>1, <3>2 DEF Covered
  <2> QED
      BY <2>2, <2>3
<1> DEFINE entry == [answer |-> a, ok |-> ok]
<1>4. /\ entry \in Entry /\ entry.answer = a /\ entry.ok = ok
    BY <1>3 DEF Entry
<1> HIDE DEF entry
<1>5. /\ answers \in Seq(Entry) /\ answers' = Append(answers, entry)
    BY <1>0 DEF AnswersInv, entry
<1>6. /\ answers' \in Seq(Entry)
      /\ Len(answers') = n /\ DOMAIN answers' = 1 .. n /\ DOMAIN answers = 1 .. n - 1
      /\ answers'[n] = entry /\ \A i \in 1 .. n - 1 : answers'[i] = answers[i]
    BY <1>4, <1>5
<1>7. \A end : Within(end)' = Within(end)
    BY <1>1 DEF Within
<1>8. \A price : Covered(price)' <=> Covered(price)
    BY <1>7 DEF Covered
<1>9. TableInv'
    BY <1>0, <1>1, <1>7 DEF TableInv, Within
<1>10. AnswersInv'
  <2>1. ASSUME NEW i \in 1 .. n
        PROVE  /\ ~answers'[i].ok => answers'[i].answer = Nothing
               /\ i <= 7 /\ Early(i)' => Covered(answers'[i].answer.price)
    <3>1. CASE i \in 1 .. n - 1
        BY <1>0, <1>6, <3>1 DEF AnswersInv, Early
    <3>2. CASE i = n
        BY <1>3, <1>4, <1>6, <3>2 DEF Early
    <3> QED
        BY <1>2, <3>1, <3>2
  <2>2. n >= 4 => Covered(answers'[4].answer.first)
    <3>1. CASE n = 4
        BY <1>3, <1>4, <1>6, <3>1
    <3>2. CASE n > 4
      <4>1. Len(answers) >= 4 /\ answers'[4] = answers[4]
          BY <1>2, <1>6, <3>2
      <4> QED
          BY <1>0, <4>1 DEF AnswersInv
    <3> QED
        BY <1>2, <3>1, <3>2
  <2>3. ASSUME n = 8, answers'[8].ok
        PROVE  /\ \A i \in 1 .. 7 : Early(i)' => answers'[i].answer.price <= answers'[8].answer.price
               /\ answers'[4].answer.first <= answers'[8].answer.price
    <3>1. answers'[8].answer = a /\ ok
        BY <1>4, <1>6, <2>3
    <3>2. \A i \in 1 .. 7 : answers'[i] = answers[i] /\ answers[i].answer \in Answer
        BY <1>0, <1>2, <1>6, <2>3, AnswerType
    <3>3. \A i \in 1 .. 7 : answers[i].answer.price \in Nat /\ answers[i].answer.first \in Nat
        BY <3>2 DEF Answer
    <3>4. Covered(answers[4].answer.first)
        BY <1>0, <2>3 DEF AnswersInv
    <3>5. ASSUME NEW i \in 1 .. 7, Early(i)'
          PROVE  Covered(answers[i].answer.price)
      <4>1. Early(i) /\ i \in DOMAIN answers /\ i <= 7
          BY <1>6, <2>3, <3>2, <3>5 DEF Early
      <4> QED
          BY <1>0, <4>1 DEF AnswersInv
    <3>6. \A price \in Nat : Covered(price) => price <= a.price
        BY <1>3, <2>3, <3>1
    <3> QED
      <4>1. ASSUME NEW i \in 1 .. 7, Early(i)'
            PROVE  answers'[i].answer.price <= answers'[8].answer.price
        <5>1. answers[i].answer.price \in Nat /\ Covered(answers[i].answer.price)
            BY <3>3, <3>5, <4>1
        <5> QED
            BY <3>1, <3>2, <3>6, <5>1
      <4>2. answers'[4].answer.first <= answers'[8].answer.price
        <5>1. answers[4].answer.first \in Nat
            BY <3>3
        <5>2. answers[4].answer.first <= a.price
            BY <3>4, <3>6, <5>1
        <5>3. answers'[4] = answers[4]
          <6>1. 4 \in 1 .. n - 1
              BY <2>3
          <6> HIDE DEF n
          <6> QED
              BY <1>6, <6>1
        <5> QED
            BY <3>1, <5>2, <5>3
      <4> QED
          BY <4>1, <4>2, Zenon
  <2>4. Len(answers') = n /\ n \in 1 .. 8 /\ DOMAIN answers' = 1 .. n /\ answers' \in Seq(Entry)
      BY <1>2, <1>6
  <2>5. \A i \in DOMAIN answers' : /\ ~answers'[i].ok => answers'[i].answer = Nothing
                                   /\ i <= 7 /\ Early(i)' => Covered(answers[i].answer.price)'
      BY <1>7, <2>1, <2>4 DEF Covered
  <2>6. Len(answers') >= 4 => Covered(answers[4].answer.first)'
      BY <1>7, <2>2, <2>4 DEF Covered
  <2>7. Len(answers') = 8 /\ answers'[8].ok =>
            /\ \A i \in 1 .. 7 : Early(i)' => answers'[i].answer.price <= answers'[8].answer.price
            /\ answers'[4].answer.first <= answers'[8].answer.price
      BY <2>3, <2>4, Zenon
  <2> HIDE DEF n
  <2> QED
      BY <2>4, <2>5, <2>6, <2>7 DEF AnswersInv
<1>11. CountsInv'
  <2> DEFINE count(i) == answers[i].answer.count
  <2>1. /\ Cardinality(Within(T5m)) \in Nat /\ Cardinality(Within(T15m)) \in Nat
        /\ Cardinality(Within(T1h)) \in Nat
        /\ Cardinality(Within(T5m)) <= Cardinality(Within(T15m))
        /\ Cardinality(Within(T15m)) <= Cardinality(Within(T1h))
    <3>1. T5m \in Ends /\ T15m \in Ends /\ T1h \in Ends /\ T5m <= T15m /\ T15m <= T1h
        BY DEF Ends, T5m, T15m, T1h
    <3> QED
        BY <1>0, <3>1, WindowWidens, WithinFacts
  <2>2. \A i \in 1 .. n - 1 : count(i) \in Int /\ answers'[i].answer.count = count(i)
    <3>1. \A i \in 1 .. n - 1 : answers[i].answer \in Answer
        BY <1>0, <1>2, <1>6, AnswerType
    <3> QED
        BY <1>6, <3>1 DEF Answer
  <2>3. answers'[n].answer.count = a.count /\ a.count \in Int
      BY <1>3, <1>4, <1>6 DEF Answer
  <2>4. /\ n >= 4 => answers'[4].answer.count <= Cardinality(Within(T5m))
        /\ n >= 5 => /\ answers'[5].answer.count <= Cardinality(Within(T15m))
                     /\ answers'[5].answer.count >= 0 => answers'[4].answer.count <= answers'[5].answer.count
        /\ n >= 6 /\ answers'[6].answer.count >= 0 =>
              /\ answers'[4].answer.count <= answers'[6].answer.count
              /\ answers'[5].answer.count <= answers'[6].answer.count
    <3>1. CASE n < 4
        BY <1>2, <3>1
    <3>2. CASE n = 4
        BY <1>3, <2>3, <3>2
    <3>3. CASE n = 5
        BY <1>0, <1>3, <2>1, <2>2, <2>3, <3>3 DEF CountsInv
    <3>4. CASE n = 6
        BY <1>0, <1>3, <2>1, <2>2, <2>3, <3>4 DEF CountsInv
    <3>5. CASE n > 6
      <4>1. Len(answers) >= 6 /\ 4 \in 1 .. n - 1 /\ 5 \in 1 .. n - 1 /\ 6 \in 1 .. n - 1
          BY <1>2, <3>5
      <4> QED
          BY <1>0, <2>2, <4>1 DEF CountsInv
    <3> QED
        BY <1>2, <3>1, <3>2, <3>3, <3>4, <3>5
  <2> QED
      BY <1>6, <1>7, <2>4 DEF CountsInv, Within
<1>12. ProfileInv'
  <2>1. profile = NotYet
      BY <1>0, <1>2 DEF ProfileInv
  <2> QED
      BY <1>1, <2>1 DEF ProfileInv, NotYet
<1> QED
    BY <1>9, <1>10, <1>11, <1>12 DEF MetricsInv

LEMMA Positions ==
    /\ Position("p5m") = 1 /\ Position("p15m") = 2 /\ Position("p1h") = 3
    /\ Position("m5m") = 4 /\ Position("m15m") = 5 /\ Position("m1h") = 6
    /\ Position("peak") = 8
<1>1. /\ DOMAIN Queries = 1 .. 8
      /\ Queries[1] = "p5m" /\ Queries[2] = "p15m" /\ Queries[3] = "p1h"
      /\ Queries[4] = "m5m" /\ Queries[5] = "m15m" /\ Queries[6] = "m1h"
      /\ Queries[7] = "conc5m" /\ Queries[8] = "peak"
    BY DEF Queries
<1>2. ASSUME NEW i \in 1 .. 8, NEW query, Queries[i] = query, \A j \in 1 .. 8 : Queries[j] = query => j = i
      PROVE  Position(query) = i
    BY <1>1, <1>2 DEF Position
<1>3. \A i, j \in 1 .. 8 : Queries[i] = Queries[j] => i = j
    BY <1>1
<1>4. \A i \in 1 .. 8 : Position(Queries[i]) = i
    BY <1>2, <1>3
<1> QED
    BY <1>1, <1>4

\* The profile is made of the answers.
LEMMA WriteKeeps ==
    ASSUME MetricsInv, Write
    PROVE  MetricsInv'
<1>0. TableInv /\ AnswersInv /\ CountsInv /\ ProfileInv
    BY DEF MetricsInv
<1>1. UNCHANGED <<initial_price, to_come, visible, answers>> /\ Len(answers) = 8
    BY DEF Write, Queries
<1>2. TableInv' /\ AnswersInv' /\ CountsInv'
    BY <1>0, <1>1 DEF TableInv, AnswersInv, CountsInv, Early, Covered, Within
<1>3. /\ profile'.price_5m = answers[1].answer.price
      /\ profile'.price_15m = answers[2].answer.price
      /\ profile'.price_1h = answers[3].answer.price
      /\ profile'.initial_price = EffectiveInitial
      /\ profile'.price_peak = answers[8].answer.price
      /\ profile'.volume_5m = answers[4].answer.count
      /\ profile'.volume_15m = answers[5].answer.count
      /\ profile'.volume_1h = answers[6].answer.count
      /\ profile'.peak_multiplier = IF EffectiveInitial > 0 /\ answers[8].answer.price > 0
                                    THEN <<answers[8].answer.price, EffectiveInitial>> ELSE <<0, 0>>
    BY Positions DEF Write, Got
<1>4. initial_price = 0 => EffectiveInitial = answers[4].answer.first
    BY Positions DEF EffectiveInitial, Got
<1>5. ProfileInv'
    BY <1>1, <1>3, <1>4 DEF ProfileInv
<1> QED
    BY <1>2, <1>5 DEF MetricsInv

LEMMA MetricsInvariant == MetricsSpec => []MetricsInv
<1>1. ASSUME MetricsInv, [MetricsNext]_metricsVars
      PROVE  MetricsInv'
  <2>1. CASE UNCHANGED metricsVars
      BY <1>1, <2>1 DEF metricsVars, MetricsInv, TableInv, AnswersInv, CountsInv, ProfileInv,
         Early, Covered, Within
  <2> QED
      BY <1>1, <2>1, LandKeeps, AskKeeps, WriteKeeps DEF MetricsNext
<1> QED
    BY <1>1, MetricsInvInit, PTL DEF MetricsSpec

\* Whatever swaps are stored between the queries, and whichever queries fail,
\* a profile's longer window never shows less volume than its shorter one.
THEOREM VolumesAreNested == MetricsSpec => []WindowsNested
<1>1. ASSUME MetricsInv
      PROVE  WindowsNested
  <2> SUFFICES ASSUME profile # NotYet
               PROVE  WindowsNested
      BY DEF WindowsNested
  <2>1. /\ Len(answers) = 8
        /\ profile.volume_5m = answers[4].answer.count
        /\ profile.volume_15m = answers[5].answer.count
        /\ profile.volume_1h = answers[6].answer.count
      BY <1>1 DEF MetricsInv, ProfileInv
  <2>2. /\ answers[5].answer.count >= 0 => answers[4].answer.count <= answers[5].answer.count
        /\ answers[6].answer.count >= 0 => /\ answers[4].answer.count <= answers[6].answer.count
                                           /\ answers[5].answer.count <= answers[6].answer.count
      BY <1>1, <2>1 DEF MetricsInv, CountsInv
  <2> QED
      BY <2>1, <2>2 DEF WindowsNested, Known
<1> QED
    BY <1>1, MetricsInvariant, PTL

\* Whatever swaps are stored while a mint is measured, no trade of the first
\* four hours whose price is in the row was above the peak that was found: not
\* those of the prices "at" a time, nor the first one's where the create had no
\* price of its own.
THEOREM PeaksAreHighest == MetricsSpec => []PeakIsHighest
<1>1. ASSUME MetricsInv
      PROVE  PeakIsHighest
  <2> SUFFICES ASSUME profile # NotYet, Succeeded("peak")
               PROVE  /\ Got("p5m").time <= T4h => profile.price_5m <= profile.price_peak
                      /\ Got("p15m").time <= T4h => profile.price_15m <= profile.price_peak
                      /\ Got("p1h").time <= T4h => profile.price_1h <= profile.price_peak
                      /\ initial_price = 0 => profile.initial_price <= profile.price_peak
      BY DEF PeakIsHighest
  <2>1. Len(answers) = 8 /\ answers[8].ok /\ profile.price_peak = answers[8].answer.price
      BY <1>1, Positions DEF MetricsInv, ProfileInv, Succeeded
  <2>2. \A i \in 1 .. 7 : Early(i) => answers[i].answer.price <= profile.price_peak
      BY <1>1, <2>1 DEF MetricsInv, AnswersInv
  <2>3. \A i \in 1 .. 3 : answers[i].answer.time <= T4h => answers[i].answer.price <= profile.price_peak
      BY <2>2 DEF Early
  <2>4. initial_price = 0 => profile.initial_price <= profile.price_peak
      BY <1>1, <2>1 DEF MetricsInv, AnswersInv, ProfileInv
  <2>5. /\ profile.price_5m = Got("p5m").price
        /\ profile.price_15m = Got("p15m").price
        /\ profile.price_1h = Got("p1h").price
      BY <1>1, Positions DEF MetricsInv, ProfileInv, Got
  <2>6. /\ Got("p5m") = answers[1].answer
        /\ Got("p15m") = answers[2].answer
        /\ Got("p1h") = answers[3].answer
      BY Positions DEF Got
  <2> QED
      BY <2>3, <2>4, <2>5, <2>6
<1> QED
    BY <1>1, MetricsInvariant, PTL

\* The multiplier of a mint created without a price is never below 1.
THEOREM MultipliersFromFirstTrade == MetricsSpec => []MultiplierFromFirstTrade
<1>1. ASSUME MetricsInv
      PROVE  MultiplierFromFirstTrade
  <2> SUFFICES ASSUME profile # NotYet, initial_price = 0
               PROVE  profile.peak_multiplier[1] >= profile.peak_multiplier[2]
      BY DEF MultiplierFromFirstTrade
  <2>1. /\ Len(answers) = 8
        /\ \/ profile.peak_multiplier = <<0, 0>>
           \/ /\ profile.peak_multiplier = <<answers[8].answer.price, answers[4].answer.first>>
              /\ answers[8].answer.price > 0
      BY <1>1 DEF MetricsInv, ProfileInv
  <2>2. CASE profile.peak_multiplier = <<0, 0>>
      BY <2>2
  <2>3. CASE /\ profile.peak_multiplier = <<answers[8].answer.price, answers[4].answer.first>>
             /\ answers[8].answer.price > 0
    <3>1. answers[8].ok
        BY <1>1, <2>1, <2>3 DEF MetricsInv, AnswersInv, Nothing
    <3>2. answers[4].answer.first <= answers[8].answer.price
        BY <1>1, <2>1, <3>1 DEF MetricsInv, AnswersInv
    <3>3. answers[4].answer.first \in Nat /\ answers[8].answer.price \in Nat
        BY <1>1, <2>1, AnswerType DEF MetricsInv
    <3> QED
        BY <2>3, <3>2, <3>3
  <2> QED
      BY <2>1, <2>2, <2>3
<1> QED
    BY <1>1, MetricsInvariant, PTL

-----------------------------------------------------------------------------
(***************************************************************************)
(* The swaps.  The registry has nothing but the true pair of a pool        *)
(* (RightPair), after a restart too, because every create has either the   *)
(* true pair or no mint (RightCreate) and those without one are refused by *)
(* Update and left out by Bootstrapped.                                    *)
(***************************************************************************)
\* What the registry may hold of a pool.  PumpSwap's pools are never in it.
RightPair(p, pair) ==
    \/ pair = NoPair
    \/ pair = <<A[p], B[p]>> /\ Program[p] # "pumpswap"

\* What a create may say.
RightCreate(c) ==
    /\ c \in Creates
    /\ c.mint # NoMint => /\ c.mint = A[c.pool] /\ c.quote = B[c.pool]
                          /\ Program[c.pool] # "pumpswap"

\* What a row may say, in the terms of the three properties about rows.
RightRow(r) ==
    /\ r.mint = A[r.trade.pool]
    /\ r.pool # NoPool => r.pool = r.trade.pool
    /\ r.direction = "buy" => Received(r.trade) = r.mint /\ Given(r.trade) = r.quote
    /\ r.direction = "sell" => Given(r.trade) = r.mint /\ Received(r.trade) = r.quote
    /\ r.price = <<r.quote, r.mint>>
    /\ ~ExactOut(r) => r.amount_in = Given(r.trade) /\ r.amount_out = Received(r.trade)

SwapsInvariant ==
    /\ registry \in [Pools -> (Mints \X Mints) \cup {NoPair}]
    /\ \A p \in Pools : RightPair(p, registry[p])
    /\ \A c \in buffered \cup stored : RightCreate(c)
    /\ mints \in [Pools -> SUBSET Mints]
    /\ \A p \in Pools : mints[p] \subseteq {A[p]}
    /\ row # NoRow => RightRow(row)
-----------------------------------------------------------------------------
\* A create tells the truth about its pool or has no mint.
LEMMA CreatesAreRight ==
    ASSUME NEW p \in Pools, NEW c \in LogCreates(p) \cup InstructionCreates(p)
    PROVE  RightCreate(c)
<1> USE PoolsAssumption
<1>1. A[p] \in Mints /\ B[p] \in Mints /\ SOL \in Mints
  OBVIOUS
<1>2. CASE Program[p] = "pumpfun"
  <2>1. c = Create(p, A[p], SOL) /\ B[p] = SOL
    BY <1>2 DEF LogCreates, InstructionCreates
  <2> QED  BY <1>1, <1>2, <2>1 DEF Create, RightCreate, Creates
<1>3. CASE Program[p] = "launchlab"
  <2>1. c = Create(p, NoMint, SOL)
    BY <1>3 DEF LogCreates, InstructionCreates
  <2> QED  BY <1>1, <2>1 DEF Create, RightCreate, Creates
<1>4. CASE Program[p] \in {"meteora", "whirlpool"}
  <2>1. c = Create(p, A[p], B[p])
    BY <1>4 DEF LogCreates, InstructionCreates
  <2> QED  BY <1>1, <1>4, <2>1 DEF Create, RightCreate, Creates
<1>5. CASE Program[p] = "pumpswap"
  BY <1>5 DEF LogCreates, InstructionCreates
<1> QED  BY <1>2, <1>3, <1>4, <1>5 DEF Programs

\* A row made from a registered pair, with the amounts as they were given and
\* received, is right whatever its direction, as long as the direction is.
LEMMA RowsOfPair ==
    ASSUME NEW t \in Trades, NEW pool \in {t.pool, NoPool}, NEW pair, pair = <<A[t.pool], B[t.pool]>>,
           NEW amount_in, Program[t.pool] # "meteora" \/ t.exact # "out" => amount_in = Given(t)
    PROVE  RightRow(Row(t, pool, pair, IF t.gives = "B" THEN "buy" ELSE "sell", amount_in, Received(t),
                        <<B[t.pool], A[t.pool]>>))
  BY DEF Row, RightRow, Given, Received, ExactOut, Trades

\* Every row that a log gives is right.
LEMMA LogRowsAreRight ==
    ASSUME NEW t \in Trades, Program[t.pool] # "pumpswap",
           RightPair(t.pool, registry[t.pool]), ~SkipsUnknown(t.pool)
    PROVE  RightRow(LogRow(t)) /\ LogRow(t).pool \in {t.pool, NoPool} /\ LogRow(t).trade = t
<1> USE PoolsAssumption
<1> t.pool \in Pools /\ t.gives \in {"A", "B"}
  BY DEF Trades
<1>1. CASE Program[t.pool] = "pumpfun"
  <2>1. B[t.pool] = SOL
    BY <1>1
  <2>2. LogRow(t) = PumpfunRow(t)
    BY <1>1 DEF LogRow
  <2> QED  BY <1>1, <2>1, <2>2
           DEF PumpfunRow, Row, RightRow, Given, Received, ExactOut, TokenA, TokenB
<1>2. CASE Program[t.pool] # "pumpfun"
  <2>1. registry[t.pool] = <<A[t.pool], B[t.pool]>>
    BY <1>2 DEF SkipsUnknown, RightPair
  <2>2. CASE Program[t.pool] = "launchlab"
    <3>1. LogRow(t) = LaunchLabRow(t)
      BY <2>2 DEF LogRow
    <3> QED  BY <2>1, <2>2, <3>1, RowsOfPair DEF LaunchLabRow, Row, TokenA, TokenB
  <2>3. CASE Program[t.pool] = "meteora"
    <3>1. LogRow(t) = MeteoraRow(t)
      BY <2>3 DEF LogRow
    <3> QED  BY <2>1, <2>3, <3>1
             DEF MeteoraRow, Row, RightRow, Given, Received, ExactOut, TokenA, TokenB, Trades
  <2>4. CASE Program[t.pool] = "whirlpool"
    <3>1. LogRow(t) = WhirlpoolRow(t)
      BY <2>4 DEF LogRow
    <3> QED  BY <2>1, <2>4, <3>1
             DEF WhirlpoolRow, Row, RightRow, Given, Received, ExactOut, TokenA, TokenB
  <2> QED  BY <1>2, <2>2, <2>3, <2>4 DEF Programs
<1> QED  BY <1>1, <1>2

\* Every row that an instruction gives is right: PumpSwap's would not be, were
\* its pools ever registered.
LEMMA InstructionRowsAreRight ==
    ASSUME NEW t \in Trades, Program[t.pool] \in {"pumpfun", "pumpswap"},
           RightPair(t.pool, registry[t.pool]), ~SkipsUnknown(t.pool)
    PROVE  RightRow(InstructionRow(t)) /\ InstructionRow(t).pool = t.pool /\ InstructionRow(t).trade = t
<1> USE PoolsAssumption
<1> t.pool \in Pools /\ t.gives \in {"A", "B"}
  BY DEF Trades
<1>1. Program[t.pool] = "pumpfun"
  BY DEF SkipsUnknown, RightPair
<1>2. B[t.pool] = SOL
  BY <1>1
<1>3. InstructionRow(t) = IF t.gives = "B" THEN BuyInstructionRow(t) ELSE SellInstructionRow(t)
  BY <1>1 DEF InstructionRow
<1> QED  BY <1>1, <1>2, <1>3 DEF BuyInstructionRow, SellInstructionRow, Row, RightRow, Given, Received, ExactOut, TokenA
-----------------------------------------------------------------------------
\* A right create leaves the registry right.
LEMMA UpdateKeepsPairs ==
    ASSUME NEW reg \in [Pools -> (Mints \X Mints) \cup {NoPair}], \A p \in Pools : RightPair(p, reg[p]),
           NEW c, RightCreate(c)
    PROVE  /\ Update(reg, c) \in [Pools -> (Mints \X Mints) \cup {NoPair}]
           /\ \A p \in Pools : RightPair(p, Update(reg, c)[p])
<1>1. CASE c.mint = NoMint
  BY <1>1 DEF Update
<1>2. CASE c.mint # NoMint
  <2>1. c.pool \in Pools /\ c.mint = A[c.pool] /\ c.quote = B[c.pool] /\ Program[c.pool] # "pumpswap"
    BY <1>2 DEF RightCreate, Creates
  <2>2. Update(reg, c) = [reg EXCEPT ![c.pool] = <<A[c.pool], B[c.pool]>>]
    BY <1>2, <2>1 DEF Update
  <2>3. <<A[c.pool], B[c.pool]>> \in Mints \X Mints
    BY <2>1, PoolsAssumption
  <2> QED  BY <2>1, <2>2, <2>3 DEF RightPair
<1> QED  BY <1>1, <1>2

\* What a restart reads back from right rows is right.
LEMMA BootstrapKeepsPairs ==
    ASSUME NEW rows, \A c \in rows : RightCreate(c)
    PROVE  /\ Bootstrapped(rows) \in [Pools -> (Mints \X Mints) \cup {NoPair}]
           /\ \A p \in Pools : RightPair(p, Bootstrapped(rows)[p])
<1> DEFINE Of(p, c) == c.pool = p /\ c.mint # NoMint
<1> SUFFICES ASSUME NEW p \in Pools
             PROVE  /\ Bootstrapped(rows)[p] \in (Mints \X Mints) \cup {NoPair}
                    /\ RightPair(p, Bootstrapped(rows)[p])
  BY DEF Bootstrapped
<1>1. CASE \E c \in rows : Of(p, c)
  <2> DEFINE d == CHOOSE c \in rows : Of(p, c)
  <2>1. d \in rows /\ Of(p, d)
    BY <1>1
  <2>2. Bootstrapped(rows)[p] = <<d.mint, d.quote>>
    BY <1>1 DEF Bootstrapped
  <2>3. d.mint = A[p] /\ d.quote = B[p] /\ Program[p] # "pumpswap"
    BY <2>1 DEF RightCreate
  <2>4. A[p] \in Mints /\ B[p] \in Mints
    BY PoolsAssumption
  <2> HIDE DEF d
  <2> QED  BY <2>2, <2>3, <2>4 DEF RightPair
<1>2. CASE ~ \E c \in rows : Of(p, c)
  BY <1>2 DEF Bootstrapped, RightPair
<1> QED  BY <1>1, <1>2

\* A right row leaves the mints of its pool right.
LEMMA BufferKeepsMints ==
    ASSUME SwapsInvariant, NEW r, RightRow(r), NEW t \in Trades, r.trade = t,
           r.pool \in {t.pool, NoPool}, Buffer(r)
    PROVE  /\ mints' \in [Pools -> SUBSET Mints]
           /\ \A p \in Pools : mints'[p] \subseteq {A[p]}
           /\ row' # NoRow => RightRow(row')
<1>1. row' = r
  BY DEF Buffer
<1>2. t.pool \in Pools /\ r.mint = A[t.pool] /\ A[t.pool] \in Mints
  BY PoolsAssumption DEF RightRow, Trades
<1>3. CASE r.pool = NoPool
  BY <1>1, <1>3 DEF Buffer, SwapsInvariant
<1>4. CASE r.pool # NoPool
  <2>1. mints' = [mints EXCEPT ![t.pool] = mints[t.pool] \cup {A[t.pool]}]
    BY <1>2, <1>4 DEF Buffer
  <2>2. \A p \in Pools : mints[p] \subseteq {A[p]} /\ mints[p] \subseteq Mints
    BY DEF SwapsInvariant
  <2>3. mints[t.pool] \cup {A[t.pool]} \in SUBSET Mints
    BY <1>2, <2>2
  <2>4. mints' \in [Pools -> SUBSET Mints]
    BY <2>1, <2>3 DEF SwapsInvariant
  <2>5. \A p \in Pools : mints'[p] \subseteq {A[p]}
    BY <1>2, <2>1, <2>2 DEF SwapsInvariant
  <2> QED  BY <1>1, <2>4, <2>5
<1> QED  BY <1>3, <1>4
-----------------------------------------------------------------------------
LEMMA SwapsInvariantStarts == SwapsInit => SwapsInvariant
  BY PoolsAssumption DEF SwapsInit, SwapsInvariant, RightPair

\* One step per action.
LEMMA SwapsInvariantStep == SwapsInvariant /\ [SwapsNext]_swapVars => SwapsInvariant'
<1> SUFFICES ASSUME SwapsInvariant, [SwapsNext]_swapVars
             PROVE  SwapsInvariant'
  OBVIOUS
<1>1. ASSUME NEW p \in Pools, SeeCreate(p)
      PROVE  SwapsInvariant'
  <2>1. PICK c \in LogCreates(p) \cup InstructionCreates(p) :
            buffered' = buffered \cup {c} /\ registry' = Update(registry, c)
    BY <1>1 DEF SeeCreate
  <2>2. RightCreate(c)
    BY CreatesAreRight
  <2>3. /\ registry' \in [Pools -> (Mints \X Mints) \cup {NoPair}]
        /\ \A q \in Pools : RightPair(q, registry'[q])
    BY <2>1, <2>2, UpdateKeepsPairs DEF SwapsInvariant
  <2>4. UNCHANGED <<stored, row, mints>>
    BY <1>1 DEF SeeCreate
  <2> QED  BY <2>1, <2>2, <2>3, <2>4 DEF SwapsInvariant
<1>2. ASSUME NEW t \in Trades, SeeTradeLog(t)
      PROVE  SwapsInvariant'
  <2>1. UNCHANGED <<registry, buffered, stored>> /\ Program[t.pool] # "pumpswap" /\ t.pool \in Pools
    BY <1>2 DEF SeeTradeLog, Trades
  <2>2. CASE SkipsUnknown(t.pool)
    BY <1>2, <2>1, <2>2 DEF SeeTradeLog, SwapsInvariant
  <2>3. CASE ~SkipsUnknown(t.pool)
    <3>1. RightPair(t.pool, registry[t.pool])
      BY <2>1 DEF SwapsInvariant
    <3>2. RightRow(LogRow(t)) /\ LogRow(t).pool \in {t.pool, NoPool} /\ LogRow(t).trade = t
      BY <2>1, <2>3, <3>1, LogRowsAreRight
    <3>3. Buffer(LogRow(t))
      BY <1>2, <2>3 DEF SeeTradeLog
    <3> QED  BY <2>1, <3>2, <3>3, BufferKeepsMints DEF SwapsInvariant
  <2> QED  BY <2>2, <2>3
<1>3. ASSUME NEW t \in Trades, SeeTradeInstruction(t)
      PROVE  SwapsInvariant'
  <2>1. UNCHANGED <<registry, buffered, stored>> /\ Program[t.pool] \in {"pumpfun", "pumpswap"} /\ t.pool \in Pools
    BY <1>3 DEF SeeTradeInstruction, Trades
  <2>2. CASE SkipsUnknown(t.pool)
    BY <1>3, <2>1, <2>2 DEF SeeTradeInstruction, SwapsInvariant
  <2>3. CASE ~SkipsUnknown(t.pool)
    <3>1. RightPair(t.pool, registry[t.pool])
      BY <2>1 DEF SwapsInvariant
    <3>2. RightRow(InstructionRow(t)) /\ InstructionRow(t).pool = t.pool /\ InstructionRow(t).trade = t
      BY <2>1, <2>3, <3>1, InstructionRowsAreRight
    <3>3. Buffer(InstructionRow(t))
      BY <1>3, <2>3 DEF SeeTradeInstruction
    <3> QED  BY <2>1, <3>2, <3>3, BufferKeepsMints DEF SwapsInvariant
  <2> QED  BY <2>2, <2>3
<1>4. ASSUME StoreCreates
      PROVE  SwapsInvariant'
  BY <1>4 DEF StoreCreates, SwapsInvariant
<1>5. ASSUME NEW failed \in BOOLEAN, Restart(failed)
      PROVE  SwapsInvariant'
  <2>1. /\ registry' \in [Pools -> (Mints \X Mints) \cup {NoPair}]
        /\ \A p \in Pools : RightPair(p, registry'[p])
    <3>1. CASE failed
      BY <1>5, <3>1 DEF Restart, RightPair
    <3>2. CASE ~failed
      <4>1. registry' = Bootstrapped(stored)
        BY <1>5, <3>2 DEF Restart
      <4>2. \A c \in stored : RightCreate(c)
        BY DEF SwapsInvariant
      <4> QED  BY <4>1, <4>2, BootstrapKeepsPairs
    <3> QED  BY <3>1, <3>2
  <2> QED  BY <1>5, <2>1 DEF Restart, SwapsInvariant
<1>6. CASE UNCHANGED swapVars
  BY <1>6 DEF swapVars, SwapsInvariant
<1> QED  BY <1>1, <1>2, <1>3, <1>4, <1>5, <1>6 DEF SwapsNext

\* The registry, the creates, the last row and the mints of every pool are
\* right in every reachable state.
THEOREM SwapsAreRight == SwapsSpec => []SwapsInvariant
  BY SwapsInvariantStarts, SwapsInvariantStep, PTL DEF SwapsSpec
-----------------------------------------------------------------------------
\* Every variable keeps its type: in particular a registered pair always has
\* two mints, although LaunchLab's creates have none (pool_registry.py).
THEOREM SwapsTypeCorrect == SwapsSpec => []SwapsTypeOK
<1>1. SwapsInvariant => SwapsTypeOK
  BY DEF SwapsInvariant, SwapsTypeOK, RightCreate
<1> QED  BY <1>1, SwapsAreRight, PTL

\* All rows that name a pool are about one mint, for any pools and any order
\* of creates, trades, flushes and restarts.
THEOREM PoolsHaveOneMint == SwapsSpec => []OneMintPerPool
<1>1. SwapsInvariant => OneMintPerPool
  <2> SUFFICES ASSUME SwapsInvariant, NEW p \in Pools
               PROVE  Cardinality(mints[p]) <= 1
    BY DEF OneMintPerPool
  <2>1. IsFiniteSet({A[p]}) /\ Cardinality({A[p]}) = 1
    BY FS_Singleton
  <2>2. mints[p] \subseteq {A[p]}
    BY DEF SwapsInvariant
  <2> QED  BY <2>1, <2>2, FS_Subset
<1> QED  BY <1>1, SwapsAreRight, PTL

\* The word "buy" or "sell" of a row is true of its trade, for all parsers.
THEOREM DirectionsTellTruth == SwapsSpec => []DirectionTellsTruth
<1>1. SwapsInvariant => DirectionTellsTruth
  BY DEF SwapsInvariant, RightRow, DirectionTellsTruth
<1> QED  BY <1>1, SwapsAreRight, PTL

\* All parsers' prices are quote per base.
THEOREM PricesAreQuotePerBase == SwapsSpec => []PriceIsQuotePerBase
<1>1. SwapsInvariant => PriceIsQuotePerBase
  BY DEF SwapsInvariant, RightRow, PriceIsQuotePerBase
<1> QED  BY <1>1, SwapsAreRight, PTL

\* Amounts are in the tokens that base.py names, for all trades but those of
\* Meteora with an exact output.
THEOREM AmountsAreInTheirUnits == SwapsSpec => []AmountsInTheirUnitsButExactOut
<1>1. SwapsInvariant => AmountsInTheirUnitsButExactOut
  BY DEF SwapsInvariant, RightRow, AmountsInTheirUnitsButExactOut
<1> QED  BY <1>1, SwapsAreRight, PTL
=============================================================================
