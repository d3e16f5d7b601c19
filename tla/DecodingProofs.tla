--------------------------- MODULE DecodingProofs ---------------------------
(***************************************************************************)
(* Proofs about EventDecoding, for strings of any length and bodies cut    *)
(* short or grown by any number of bytes.                                  *)
(***************************************************************************)
EXTENDS EventDecoding, WellFoundedInduction, TLAPS

-----------------------------------------------------------------------------
(* Places *)

\* A nonempty set of naturals has a least element.
LEMMA LeastOf ==
    ASSUME NEW T \in SUBSET Nat, T # {}
    PROVE  \E n \in T : \A k \in T : n <= k
<1> DEFINE R == OpToRel(<, Nat)
<1>1. IsWellFoundedOn(R, Nat)
    BY NatLessThanWellFounded
<1>2. \A a, b \in Nat : <<a, b>> \in R <=> a < b
    BY DEF OpToRel
<1> HIDE DEF R
<1>3. \E x \in T : \A y \in T : ~ (<<y, x>> \in R)
    BY <1>1, WFMin, Zenon
<1>4. PICK x \in T : \A y \in T : ~ (<<y, x>> \in R)
    BY <1>3
<1>5. \A y \in T : y \in Nat /\ x \in Nat /\ ~(y < x)
    BY <1>2, <1>4, Zenon
<1> QED
    BY <1>5

\* The places are what their recursive definition says: there is such a
\* function, of naturals.
LEMMA PlacesFollow ==
    ASSUME NEW n \in Nat \ {0}, NEW w \in [1 .. n -> Nat]
    PROVE  /\ Places(w) \in [1 .. n -> Nat]
           /\ Places(w)[1] = 0
           /\ \A i \in 1 .. n - 1 : Places(w)[i + 1] = Places(w)[i] + w[i]
<1> DEFINE Step(f) == [i \in 1 .. n |-> IF i = 1 THEN 0 ELSE f[i - 1] + w[i - 1]]
           UpTo(m, f) == /\ f \in [1 .. n -> Nat]
                         /\ f[1] = 0
                         /\ \A i \in 1 .. n - 1 : i < m => f[i + 1] = f[i] + w[i]
           Short == {m \in 1 .. n : ~ \E f : UpTo(m, f)}
<1>1. Short = {}
  <2> SUFFICES ASSUME Short # {} PROVE FALSE
      OBVIOUS
  <2>1. Short \in SUBSET Nat
      OBVIOUS
  <2>2. PICK m \in Short : \A k \in Short : m <= k
    <3> HIDE DEF Short
    <3> QED
      BY <2>1, LeastOf, Zenon
  <2>3. m \in 1 .. n /\ ~ \E f : UpTo(m, f)
      OBVIOUS
  <2>4. UpTo(1, [i \in 1 .. n |-> 0])
      OBVIOUS
  <2>5. m - 1 \in 1 .. n
      BY <2>3, <2>4
  <2>6. PICK f : UpTo(m - 1, f)
    <3>1. m - 1 \notin Short
      <4> HIDE DEF Short
      <4> QED
        BY <2>2, <2>3
    <3> HIDE DEF UpTo
    <3> QED
        BY <2>5, <3>1
  <2>7. f[m - 1] + w[m - 1] \in Nat
      BY <2>5, <2>6
  <2>8. UpTo(m, [f EXCEPT ![m] = f[m - 1] + w[m - 1]])
      BY <2>3, <2>5, <2>6, <2>7
  <2> QED
      BY <2>3, <2>8
<1>2. PICK f : UpTo(n, f)
  <2>1. n \in 1 .. n
      OBVIOUS
  <2> HIDE DEF UpTo
  <2> QED
      BY <1>1, <2>1
<1>3. f = Step(f)
    BY <1>2
<1>4. Places(w) = Step(Places(w))
  <2>1. DOMAIN w = 1 .. n
      OBVIOUS
  <2>2. Places(w) = CHOOSE g : g = [i \in 1 .. n |-> IF i = 1 THEN 0 ELSE g[i - 1] + w[i - 1]]
      BY <2>1 DEF Places
  <2> QED
      BY <1>3, <2>2
<1> DEFINE P == Places(w)
           Odd == {i \in 1 .. n : P[i] \notin Nat}
<1>5. P[1] = 0 /\ \A i \in 1 .. n - 1 : P[i + 1] = P[i] + w[i]
    BY <1>4
<1>6. Odd = {}
  <2> SUFFICES ASSUME Odd # {} PROVE FALSE
      OBVIOUS
  <2>1. Odd \in SUBSET Nat
      OBVIOUS
  <2>2. PICK m \in Odd : \A k \in Odd : m <= k
    <3> HIDE DEF Odd
    <3> QED
      BY <2>1, LeastOf, Zenon
  <2>3. m \in 1 .. n /\ P[m] \notin Nat /\ m # 1
      BY <1>5
  <2>4. m - 1 \in 1 .. n - 1 /\ P[m - 1] \in Nat
      BY <2>2, <2>3
  <2>5. P[m] = P[m - 1] + w[m - 1]
    <3>1. (m - 1) + 1 = m
        BY <2>3
    <3> QED
        BY <1>5, <2>4, <3>1
  <2> QED
      BY <2>3, <2>4, <2>5
<1> QED
    BY <1>4, <1>5, <1>6

\* What comes earlier ends before what comes later begins.
LEMMA PlacesInOrder ==
    ASSUME NEW n \in Nat \ {0}, NEW w \in [1 .. n -> Nat], NEW i \in 1 .. n
    PROVE  \A j \in 1 .. n : i < j => Places(w)[i] + w[i] <= Places(w)[j]
<1> DEFINE P == Places(w)
           Early == {j \in 1 .. n : i < j /\ ~(P[i] + w[i] <= P[j])}
<1>1. P \in [1 .. n -> Nat] /\ \A k \in 1 .. n - 1 : P[k + 1] = P[k] + w[k]
    BY PlacesFollow
<1>2. Early = {}
  <2> SUFFICES ASSUME Early # {} PROVE FALSE
      OBVIOUS
  <2>1. Early \in SUBSET Nat
      OBVIOUS
  <2>2. PICK j \in Early : \A k \in Early : j <= k
    <3> HIDE DEF Early
    <3> QED
      BY <2>1, LeastOf, Zenon
  <2>3. j \in 1 .. n /\ i < j /\ ~(P[i] + w[i] <= P[j]) /\ j - 1 \in 1 .. n - 1
      OBVIOUS
  <2>4. P[j] = P[j - 1] + w[j - 1]
    <3>1. (j - 1) + 1 = j
        BY <2>3
    <3> QED
        BY <1>1, <2>3, <3>1
  <2>5. i < j - 1 => P[i] + w[i] <= P[j - 1]
      BY <2>2, <2>3
  <2>6. i = j - 1 \/ i < j - 1
      BY <2>3
  <2>7. P[i] \in Nat /\ w[i] \in Nat /\ P[j - 1] \in Nat /\ w[j - 1] \in Nat
      BY <1>1, <2>3
  <2> HIDE DEF P
  <2> QED
      BY <2>3, <2>4, <2>5, <2>6, <2>7
<1> QED
    BY <1>2

-----------------------------------------------------------------------------
(* Bodies *)

\* The fields of a layout, from the start of a body, one after the other.
Laid(fields, layout) ==
    LET n == Len(layout) IN
    /\ n \in Nat \ {0}
    /\ DOMAIN layout = 1 .. n
    /\ DOMAIN fields = 1 .. n
    /\ Len(fields) = n
    /\ \A i \in 1 .. n :
           /\ fields[i].name = layout[i].name
           /\ fields[i].type = layout[i].type
           /\ fields[i].from \in Nat
           /\ fields[i].width \in Nat \ {0}
           /\ layout[i].type \notin Varying => fields[i].width = Bytes(layout[i].type)
    /\ fields[1].from = 0
    /\ \A i \in 1 .. n - 1 : fields[i + 1].from = fields[i].from + fields[i].width
    /\ \A i, j \in 1 .. n : i < j => fields[i].from + fields[i].width <= fields[j].from

LEMMA BytesPositive == \A type : Bytes(type) \in Nat \ {0}
    BY DEF Bytes

LEMMA WidthsPositive == \A type : Widths(type) \subseteq Nat \ {0}
<1> SUFFICES ASSUME NEW type PROVE Widths(type) \subseteq Nat \ {0}
    OBVIOUS
<1>1. \A n \in Lengths : 4 + n \in Nat \ {0}
    BY DecodingAssumption
<1>2. CASE type = "string"
    BY <1>1, <1>2 DEF Widths
<1>3. CASE type = "fees"
    BY <1>3 DEF Widths
<1>4. CASE type = "params"
    BY <1>4 DEF Widths
<1>5. CASE type \notin {"string", "fees", "params"}
    BY <1>5, BytesPositive DEF Widths
<1> QED
    BY <1>2, <1>3, <1>4, <1>5

LEMMA FieldWidthsPositive ==
    ASSUME NEW layout, NEW n \in Nat \ {0}, DOMAIN layout = 1 .. n, NEW w \in FieldWidths(layout)
    PROVE  /\ w \in [1 .. n -> Nat \ {0}]
           /\ \A i \in 1 .. n : layout[i].type \notin Varying => w[i] = Bytes(layout[i].type)
<1> DEFINE varying == {i \in DOMAIN layout : layout[i].type \in Varying}
           full(c) == [i \in DOMAIN layout |-> IF i \in varying THEN c[i] ELSE Bytes(layout[i].type)]
<1>1. PICK c : /\ \A i \in varying : c[i] \in Widths(layout[i].type)
               /\ w = full(c)
    BY DEF FieldWidths
<1>2. \A i \in 1 .. n : w[i] = IF i \in varying THEN c[i] ELSE Bytes(layout[i].type)
    BY <1>1
<1>3. \A i \in 1 .. n : w[i] \in Nat \ {0}
    BY <1>1, <1>2, WidthsPositive, BytesPositive
<1>4. w = [i \in 1 .. n |-> w[i]]
    BY <1>1
<1> QED
    BY <1>2, <1>3, <1>4

LEMMA PlacedAreLaid ==
    ASSUME NEW layout, Len(layout) \in Nat \ {0}, DOMAIN layout = 1 .. Len(layout),
           NEW fields \in Placed(layout)
    PROVE  Laid(fields, layout)
<1>1. PICK n \in Nat \ {0} : n = Len(layout)
    OBVIOUS
<1>2. PICK w \in FieldWidths(layout) :
          fields = [i \in DOMAIN layout |-> [name |-> layout[i].name, type |-> layout[i].type,
                                             from |-> Places(w)[i], width |-> w[i]]]
    BY DEF Placed
<1>3. DOMAIN layout = 1 .. n
    BY <1>1
<1>4. /\ w \in [1 .. n -> Nat \ {0}]
      /\ \A i \in 1 .. n : layout[i].type \notin Varying => w[i] = Bytes(layout[i].type)
    BY <1>3, FieldWidthsPositive
<1>5. w \in [1 .. n -> Nat]
    BY <1>4
<1> DEFINE P == Places(w)
<1>6. P \in [1 .. n -> Nat] /\ P[1] = 0 /\ \A i \in 1 .. n - 1 : P[i + 1] = P[i] + w[i]
    BY <1>5, PlacesFollow
<1>7. \A i, j \in 1 .. n : i < j => P[i] + w[i] <= P[j]
    BY <1>5, PlacesInOrder
<1> HIDE DEF P
<1>8. fields = [i \in 1 .. n |-> [name |-> layout[i].name, type |-> layout[i].type,
                                  from |-> P[i], width |-> w[i]]]
    BY <1>2, <1>3 DEF P
<1>9. DOMAIN fields = 1 .. n /\ Len(fields) = n
    BY <1>8
<1>10. \A i \in 1 .. n : /\ fields[i].name = layout[i].name /\ fields[i].type = layout[i].type
                         /\ fields[i].from = P[i] /\ fields[i].width = w[i]
    BY <1>8
<1>11. \A i \in 1 .. n : P[i] \in Nat /\ w[i] \in Nat \ {0}
    BY <1>4, <1>6
<1>12. 1 \in 1 .. n /\ \A i \in 1 .. n - 1 : i \in 1 .. n /\ i + 1 \in 1 .. n
    OBVIOUS
<1>13. /\ fields[1].from = 0
       /\ \A i \in 1 .. n - 1 : fields[i + 1].from = fields[i].from + fields[i].width
    BY <1>6, <1>10, <1>12
<1>14. \A i, j \in 1 .. n : i < j => fields[i].from + fields[i].width <= fields[j].from
    BY <1>7, <1>10
<1> QED
    BY <1>1, <1>3, <1>4, <1>9, <1>10, <1>11, <1>13, <1>14 DEF Laid

-----------------------------------------------------------------------------
(***************************************************************************)
(* What a parser reads and what its program lays out, field by field.      *)
(***************************************************************************)

\* A read takes the whole field in its place, under its name or under none.
Takes(script, layout, k) ==
    /\ script[k].type = layout[k].type
    /\ script[k].type \notin {"fees", "params", "jump"}
    /\ script[k].name \in {"-", layout[k].name}

\* The first n reads take the first n fields.
TakesUpTo(n, script, layout) ==
    /\ Len(script) \in Nat /\ DOMAIN script = 1 .. Len(script)
    /\ Len(layout) \in Nat \ {0} /\ DOMAIN layout = 1 .. Len(layout)
    /\ n <= Len(script) /\ n <= Len(layout)
    /\ \A k \in 1 .. n : Takes(script, layout, k)

LEMMA PumpTradeTakes ==
    /\ TakesUpTo(13, PumpTradeReads, PumpLayouts.TradeEvent)
    /\ Len(PumpTradeReads) = 13 /\ Len(PumpLayouts.TradeEvent) = 22
<1> DEFINE takes(k) == Takes(PumpTradeReads, PumpLayouts.TradeEvent, k)
<1>1. /\ Len(PumpTradeReads) = 13 /\ DOMAIN PumpTradeReads = 1 .. 13
      /\ Len(PumpLayouts.TradeEvent) = 22 /\ DOMAIN PumpLayouts.TradeEvent = 1 .. 22
    BY DEF PumpTradeReads, PumpLayouts
<1>2. /\ takes(1) /\ takes(2) /\ takes(3) /\ takes(4) /\ takes(5) /\ takes(6) /\ takes(7) /\ takes(8)
      /\ takes(9) /\ takes(10) /\ takes(11) /\ takes(12) /\ takes(13)
    BY DEF Takes, PumpTradeReads, PumpLayouts, bool, u64, i64, pubkey, string
<1> HIDE DEF takes
<1>3. \A k \in 1 .. 13 : takes(k)
    BY <1>2
<1> QED
    BY <1>1, <1>3 DEF TakesUpTo, takes

LEMMA PumpCreateTakes ==
    /\ TakesUpTo(12, PumpCreateReads, PumpLayouts.CreateEvent)
    /\ Len(PumpCreateReads) = 12 /\ Len(PumpLayouts.CreateEvent) = 14
<1> DEFINE takes(k) == Takes(PumpCreateReads, PumpLayouts.CreateEvent, k)
<1>1. /\ Len(PumpCreateReads) = 12 /\ DOMAIN PumpCreateReads = 1 .. 12
      /\ Len(PumpLayouts.CreateEvent) = 14 /\ DOMAIN PumpLayouts.CreateEvent = 1 .. 14
    BY DEF PumpCreateReads, PumpLayouts
<1>2. /\ takes(1) /\ takes(2) /\ takes(3) /\ takes(4) /\ takes(5) /\ takes(6) /\ takes(7) /\ takes(8)
      /\ takes(9) /\ takes(10) /\ takes(11) /\ takes(12)
    BY DEF Takes, PumpCreateReads, PumpLayouts, bool, u64, i64, pubkey, string
<1> HIDE DEF takes
<1>3. \A k \in 1 .. 12 : takes(k)
    BY <1>2
<1> QED
    BY <1>1, <1>3 DEF TakesUpTo, takes

LEMMA BuyTakes ==
    /\ TakesUpTo(3, BuyReads, PumpInstructionLayouts.buy)
    /\ Len(BuyReads) = 3 /\ Len(PumpInstructionLayouts.buy) = 3
<1> DEFINE takes(k) == Takes(BuyReads, PumpInstructionLayouts.buy, k)
<1>1. /\ Len(BuyReads) = 3 /\ DOMAIN BuyReads = 1 .. 3
      /\ Len(PumpInstructionLayouts.buy) = 3 /\ DOMAIN PumpInstructionLayouts.buy = 1 .. 3
    BY DEF BuyReads, PumpInstructionLayouts
<1>2. /\ takes(1) /\ takes(2) /\ takes(3)
    BY DEF Takes, BuyReads, PumpInstructionLayouts, bool, u64, pubkey, string
<1> HIDE DEF takes
<1>3. \A k \in 1 .. 3 : takes(k)
    BY <1>2
<1> QED
    BY <1>1, <1>3 DEF TakesUpTo, takes

LEMMA BuyExactSolInTakes ==
    /\ TakesUpTo(3, BuyExactSolInReads, PumpInstructionLayouts.buy_exact_sol_in)
    /\ Len(BuyExactSolInReads) = 3 /\ Len(PumpInstructionLayouts.buy_exact_sol_in) = 3
<1> DEFINE takes(k) == Takes(BuyExactSolInReads, PumpInstructionLayouts.buy_exact_sol_in, k)
<1>1. /\ Len(BuyExactSolInReads) = 3 /\ DOMAIN BuyExactSolInReads = 1 .. 3
      /\ Len(PumpInstructionLayouts.buy_exact_sol_in) = 3 /\ DOMAIN PumpInstructionLayouts.buy_exact_sol_in = 1 .. 3
    BY DEF BuyExactSolInReads, PumpInstructionLayouts
<1>2. /\ takes(1) /\ takes(2) /\ takes(3)
    BY DEF Takes, BuyExactSolInReads, PumpInstructionLayouts, bool, u64, pubkey, string
<1> HIDE DEF takes
<1>3. \A k \in 1 .. 3 : takes(k)
    BY <1>2
<1> QED
    BY <1>1, <1>3 DEF TakesUpTo, takes

LEMMA SellTakes ==
    /\ TakesUpTo(2, SellReads, PumpInstructionLayouts.sell)
    /\ Len(SellReads) = 2 /\ Len(PumpInstructionLayouts.sell) = 2
<1> DEFINE takes(k) == Takes(SellReads, PumpInstructionLayouts.sell, k)
<1>1. /\ Len(SellReads) = 2 /\ DOMAIN SellReads = 1 .. 2
      /\ Len(PumpInstructionLayouts.sell) = 2 /\ DOMAIN PumpInstructionLayouts.sell = 1 .. 2
    BY DEF SellReads, PumpInstructionLayouts
<1>2. /\ takes(1) /\ takes(2)
    BY DEF Takes, SellReads, PumpInstructionLayouts, bool, u64, pubkey, string
<1> HIDE DEF takes
<1>3. \A k \in 1 .. 2 : takes(k)
    BY <1>2
<1> QED
    BY <1>1, <1>3 DEF TakesUpTo, takes

LEMMA CreateTakes ==
    /\ TakesUpTo(4, CreateReads, PumpInstructionLayouts.create)
    /\ Len(CreateReads) = 4 /\ Len(PumpInstructionLayouts.create) = 4
<1> DEFINE takes(k) == Takes(CreateReads, PumpInstructionLayouts.create, k)
<1>1. /\ Len(CreateReads) = 4 /\ DOMAIN CreateReads = 1 .. 4
      /\ Len(PumpInstructionLayouts.create) = 4 /\ DOMAIN PumpInstructionLayouts.create = 1 .. 4
    BY DEF CreateReads, PumpInstructionLayouts
<1>2. /\ takes(1) /\ takes(2) /\ takes(3) /\ takes(4)
    BY DEF Takes, CreateReads, PumpInstructionLayouts, bool, u64, pubkey, string
<1> HIDE DEF takes
<1>3. \A k \in 1 .. 4 : takes(k)
    BY <1>2
<1> QED
    BY <1>1, <1>3 DEF TakesUpTo, takes

LEMMA CreateV2Takes ==
    /\ TakesUpTo(5, CreateV2Reads, PumpInstructionLayouts.create_v2)
    /\ Len(CreateV2Reads) = 5 /\ Len(PumpInstructionLayouts.create_v2) = 5
<1> DEFINE takes(k) == Takes(CreateV2Reads, PumpInstructionLayouts.create_v2, k)
<1>1. /\ Len(CreateV2Reads) = 5 /\ DOMAIN CreateV2Reads = 1 .. 5
      /\ Len(PumpInstructionLayouts.create_v2) = 5 /\ DOMAIN PumpInstructionLayouts.create_v2 = 1 .. 5
    BY DEF CreateV2Reads, PumpInstructionLayouts
<1>2. /\ takes(1) /\ takes(2) /\ takes(3) /\ takes(4) /\ takes(5)
    BY DEF Takes, CreateV2Reads, PumpInstructionLayouts, bool, u64, pubkey, string
<1> HIDE DEF takes
<1>3. \A k \in 1 .. 5 : takes(k)
    BY <1>2
<1> QED
    BY <1>1, <1>3 DEF TakesUpTo, takes

LEMMA LaunchLabTradeTakes ==
    /\ TakesUpTo(17, LaunchLabTradeReads, LaunchLabLayouts.TradeEvent)
    /\ Len(LaunchLabTradeReads) = 17 /\ Len(LaunchLabLayouts.TradeEvent) = 17
<1> DEFINE takes(k) == Takes(LaunchLabTradeReads, LaunchLabLayouts.TradeEvent, k)
<1>1. /\ Len(LaunchLabTradeReads) = 17 /\ DOMAIN LaunchLabTradeReads = 1 .. 17
      /\ Len(LaunchLabLayouts.TradeEvent) = 17 /\ DOMAIN LaunchLabLayouts.TradeEvent = 1 .. 17
    BY DEF LaunchLabTradeReads, LaunchLabLayouts
<1>2. /\ takes(1) /\ takes(2) /\ takes(3) /\ takes(4) /\ takes(5) /\ takes(6) /\ takes(7) /\ takes(8)
      /\ takes(9) /\ takes(10) /\ takes(11) /\ takes(12) /\ takes(13) /\ takes(14) /\ takes(15) /\ takes(16)
      /\ takes(17)
    BY DEF Takes, LaunchLabTradeReads, LaunchLabLayouts, u8, bool, u64, pubkey, string, params
<1> HIDE DEF takes
<1>3. \A k \in 1 .. 17 : takes(k)
    BY <1>2
<1> QED
    BY <1>1, <1>3 DEF TakesUpTo, takes

LEMMA LaunchLabCreateTakes ==
    /\ TakesUpTo(7, LaunchLabCreateReads, LaunchLabLayouts.PoolCreateEvent)
    /\ Len(LaunchLabCreateReads) = 7 /\ Len(LaunchLabLayouts.PoolCreateEvent) = 8
<1> DEFINE takes(k) == Takes(LaunchLabCreateReads, LaunchLabLayouts.PoolCreateEvent, k)
<1>1. /\ Len(LaunchLabCreateReads) = 7 /\ DOMAIN LaunchLabCreateReads = 1 .. 7
      /\ Len(LaunchLabLayouts.PoolCreateEvent) = 8 /\ DOMAIN LaunchLabLayouts.PoolCreateEvent = 1 .. 8
    BY DEF LaunchLabCreateReads, LaunchLabLayouts
<1>2. /\ takes(1) /\ takes(2) /\ takes(3) /\ takes(4) /\ takes(5) /\ takes(6) /\ takes(7)
    BY DEF Takes, LaunchLabCreateReads, LaunchLabLayouts, u8, bool, u64, pubkey, string, params
<1> HIDE DEF takes
<1>3. \A k \in 1 .. 7 : takes(k)
    BY <1>2
<1> QED
    BY <1>1, <1>3 DEF TakesUpTo, takes

LEMMA EvtSwapTakes ==
    /\ TakesUpTo(22, EvtSwapReads, MeteoraLayouts.EvtSwap2)
    /\ Len(EvtSwapReads) = 22 /\ Len(MeteoraLayouts.EvtSwap2) = 22
<1> DEFINE takes(k) == Takes(EvtSwapReads, MeteoraLayouts.EvtSwap2, k)
<1>1. /\ Len(EvtSwapReads) = 22 /\ DOMAIN EvtSwapReads = 1 .. 22
      /\ Len(MeteoraLayouts.EvtSwap2) = 22 /\ DOMAIN MeteoraLayouts.EvtSwap2 = 1 .. 22
    BY DEF EvtSwapReads, MeteoraLayouts
<1>2. /\ takes(1) /\ takes(2) /\ takes(3) /\ takes(4) /\ takes(5) /\ takes(6) /\ takes(7) /\ takes(8)
      /\ takes(9) /\ takes(10) /\ takes(11) /\ takes(12) /\ takes(13) /\ takes(14) /\ takes(15) /\ takes(16)
      /\ takes(17) /\ takes(18) /\ takes(19) /\ takes(20) /\ takes(21) /\ takes(22)
    BY DEF Takes, EvtSwapReads, MeteoraLayouts, u8, bool, u64, u128, pubkey, fees
<1> HIDE DEF takes
<1>3. \A k \in 1 .. 22 : takes(k)
    BY <1>2
<1> QED
    BY <1>1, <1>3 DEF TakesUpTo, takes

LEMMA EvtInitializePoolTakes ==
    /\ TakesUpTo(6, EvtInitializePoolReads, MeteoraLayouts.EvtInitializePool)
    /\ Len(EvtInitializePoolReads) = 21 /\ Len(MeteoraLayouts.EvtInitializePool) = 21
<1> DEFINE takes(k) == Takes(EvtInitializePoolReads, MeteoraLayouts.EvtInitializePool, k)
<1>1. /\ Len(EvtInitializePoolReads) = 21 /\ DOMAIN EvtInitializePoolReads = 1 .. 21
      /\ Len(MeteoraLayouts.EvtInitializePool) = 21 /\ DOMAIN MeteoraLayouts.EvtInitializePool = 1 .. 21
    BY DEF EvtInitializePoolReads, MeteoraLayouts
<1>2. /\ takes(1) /\ takes(2) /\ takes(3) /\ takes(4) /\ takes(5) /\ takes(6)
    BY DEF Takes, EvtInitializePoolReads, MeteoraLayouts, u8, bool, u64, u128, pubkey, fees, jump
<1> HIDE DEF takes
<1>3. \A k \in 1 .. 6 : takes(k)
    BY <1>2
<1> QED
    BY <1>1, <1>3 DEF TakesUpTo, takes

LEMMA TradedTakes ==
    /\ TakesUpTo(10, TradedReads, WhirlpoolLayouts.Traded)
    /\ Len(TradedReads) = 10 /\ Len(WhirlpoolLayouts.Traded) = 10
<1> DEFINE takes(k) == Takes(TradedReads, WhirlpoolLayouts.Traded, k)
<1>1. /\ Len(TradedReads) = 10 /\ DOMAIN TradedReads = 1 .. 10
      /\ Len(WhirlpoolLayouts.Traded) = 10 /\ DOMAIN WhirlpoolLayouts.Traded = 1 .. 10
    BY DEF TradedReads, WhirlpoolLayouts
<1>2. /\ takes(1) /\ takes(2) /\ takes(3) /\ takes(4) /\ takes(5) /\ takes(6) /\ takes(7) /\ takes(8)
      /\ takes(9) /\ takes(10)
    BY DEF Takes, TradedReads, WhirlpoolLayouts, u8, bool, u16, u64, u128, pubkey
<1> HIDE DEF takes
<1>3. \A k \in 1 .. 10 : takes(k)
    BY <1>2
<1> QED
    BY <1>1, <1>3 DEF TakesUpTo, takes


-----------------------------------------------------------------------------
(***************************************************************************)
(* Fields of fixed widths: their places need no body to be known.          *)
(***************************************************************************)

\* A field of fixed width lies between two offsets.
Lies(field, from, to) ==
    /\ field.type \notin Varying \cup {"jump"}
    /\ from \in Nat /\ to \in Nat /\ to = from + Bytes(field.type)

\* The places of the n fields after the first d follow the offsets.
LieAt(fields, d, offset, n) ==
    \A k \in 1 .. n :
        /\ fields[d + k].from = fields[d + 1].from + offset[k] - offset[1]
        /\ fields[d + k].from + fields[d + k].width = fields[d + 1].from + offset[k + 1] - offset[1]

LEMMA PlacesByOffset ==
    ASSUME NEW fields, NEW layout, Laid(fields, layout), NEW d \in Nat, NEW offset,
           NEW n \in Nat \ {0}, d + n <= Len(layout),
           \A k \in 1 .. n : Lies(layout[d + k], offset[k], offset[k + 1])
    PROVE  LieAt(fields, d, offset, n)
<1> DEFINE At(k) == fields[d + k].from
           Off == {k \in 1 .. n : At(k) # At(1) + offset[k] - offset[1]}
<1>1. \A k \in 1 .. n : d + k \in 1 .. Len(layout)
    BY DEF Laid
<1>2. \A k \in 1 .. n : /\ At(k) \in Nat /\ offset[k] \in Nat /\ offset[k + 1] \in Nat
                        /\ fields[d + k].width = offset[k + 1] - offset[k]
                        /\ fields[d + k].width \in Nat
  <2> SUFFICES ASSUME NEW k \in 1 .. n
               PROVE  /\ At(k) \in Nat /\ offset[k] \in Nat /\ offset[k + 1] \in Nat
                      /\ fields[d + k].width = offset[k + 1] - offset[k]
                      /\ fields[d + k].width \in Nat
      OBVIOUS
  <2>1. PICK i \in 1 .. Len(layout) : i = d + k
      BY <1>1
  <2>2. /\ fields[i].from \in Nat /\ fields[i].width \in Nat
        /\ layout[i].type \notin Varying => fields[i].width = Bytes(layout[i].type)
      BY DEF Laid
  <2>3. /\ layout[i].type \notin Varying
        /\ offset[k] \in Nat /\ offset[k + 1] \in Nat
        /\ offset[k + 1] = offset[k] + Bytes(layout[i].type)
      BY <2>1 DEF Lies
  <2>4. fields[i].width = offset[k + 1] - offset[k]
      BY <2>2, <2>3, BytesPositive
  <2> QED
      BY <2>1, <2>2, <2>3, <2>4
<1>3. \A k \in 1 .. n - 1 : At(k + 1) = At(k) + fields[d + k].width
  <2> SUFFICES ASSUME NEW k \in 1 .. n - 1 PROVE At(k + 1) = At(k) + fields[d + k].width
      OBVIOUS
  <2>1. PICK i \in 1 .. Len(layout) - 1 : i = d + k
      BY <1>1 DEF Laid
  <2>2. fields[i + 1].from = fields[i].from + fields[i].width
      BY DEF Laid
  <2>3. i + 1 = d + (k + 1)
      BY <2>1
  <2> QED
      BY <2>1, <2>2, <2>3
<1>4. Off = {}
  <2> SUFFICES ASSUME Off # {} PROVE FALSE
      OBVIOUS
  <2>1. Off \in SUBSET Nat
      OBVIOUS
  <2>2. PICK m \in Off : \A k \in Off : m <= k
    <3> HIDE DEF Off
    <3> QED
      BY <2>1, LeastOf, Zenon
  <2> HIDE DEF At
  <2>3. m \in 1 .. n /\ At(m) # At(1) + offset[m] - offset[1]
      OBVIOUS
  <2>4. m # 1
      BY <1>2, <2>3
  <2>5. PICK l \in 1 .. n - 1 : m = l + 1
      BY <2>3, <2>4
  <2>6. l \in 1 .. n /\ l \notin Off
    <3> HIDE DEF Off
    <3> QED
      BY <2>1, <2>2, <2>5
  <2>7. At(l) = At(1) + offset[l] - offset[1]
      BY <2>6
  <2>8. At(m) = At(l) + (offset[m] - offset[l])
      BY <1>2, <1>3, <2>5, <2>6
  <2>9. PICK a \in Nat, b \in Nat, x \in Nat, y \in Nat, z \in Nat :
            a = At(l) /\ b = At(1) /\ x = offset[m] /\ y = offset[l] /\ z = offset[1]
    <3>1. 1 \in 1 .. n
        OBVIOUS
    <3>2. /\ At(l) \in Nat /\ At(1) \in Nat
          /\ offset[m] \in Nat /\ offset[l] \in Nat /\ offset[1] \in Nat
        BY <1>2, <2>3, <2>6, <3>1
    <3> QED
        BY <3>2
  <2>10. a = b + y - z
      BY <2>7, <2>9
  <2>11. At(m) = a + (x - y)
      BY <2>8, <2>9
  <2>12. At(m) # b + x - z
      BY <2>3, <2>9
  <2>13. a + (x - y) = b + x - z
      BY <2>10
  <2> QED
      BY <2>11, <2>12, <2>13
<1>5. \A k \in 1 .. n : At(k) = At(1) + offset[k] - offset[1]
    BY <1>4
<1>6. 1 \in 1 .. n
    OBVIOUS
<1> HIDE DEF At, Off
<1>7. ASSUME NEW k \in 1 .. n
      PROVE  At(k) + fields[d + k].width = At(1) + offset[k + 1] - offset[1]
  <2>1. PICK a \in Nat, x \in Nat, y \in Nat, z \in Nat :
            a = At(1) /\ x = offset[k] /\ y = offset[k + 1] /\ z = offset[1]
      BY <1>2, <1>6
  <2>2. At(k) = a + x - z /\ fields[d + k].width = y - x
      BY <1>2, <1>5, <2>1
  <2>3. (a + x - z) + (y - x) = a + y - z
      OBVIOUS
  <2> QED
      BY <2>1, <2>2, <2>3
<1> QED
    BY <1>5, <1>7 DEF At, LieAt

LEMMA FixedTypes ==
    /\ Bytes("u8") = 1 /\ Bytes("bool") = 1 /\ Bytes("u16") = 2 /\ Bytes("u64") = 8
    /\ Bytes("i64") = 8 /\ Bytes("u128") = 16 /\ Bytes("pubkey") = 32
    /\ "u8" \notin Varying \cup {"jump"} /\ "bool" \notin Varying \cup {"jump"}
    /\ "u16" \notin Varying \cup {"jump"} /\ "u64" \notin Varying \cup {"jump"}
    /\ "i64" \notin Varying \cup {"jump"} /\ "u128" \notin Varying \cup {"jump"}
    /\ "pubkey" \notin Varying \cup {"jump"}
    BY DEF Bytes, Varying

\* Of the reads of PoolInitialized.
StrangeOffsets == <<0, 32, 64, 96, 128, 160, 192, 224, 226, 242>>

LEMMA StrangeReadsLie ==
    \A k \in 1 .. 9 :
        Lies(PoolInitializedReads[k], StrangeOffsets[k], StrangeOffsets[k + 1])
<1> DEFINE lies(k, n) == Lies(PoolInitializedReads[k], StrangeOffsets[k], StrangeOffsets[n])
<1>1. /\ lies(1, 2) /\ lies(2, 3) /\ lies(3, 4) /\ lies(4, 5) /\ lies(5, 6) /\ lies(6, 7)
      /\ lies(7, 8) /\ lies(8, 9) /\ lies(9, 10)
    BY FixedTypes DEF Lies, StrangeOffsets, PoolInitializedReads, u16, u128, pubkey
<1> HIDE DEF lies
<1>2. \A k \in 1 .. 9 : lies(k, k + 1)
    BY <1>1
<1> QED
    BY <1>2 DEF lies

\* Of the fields of PoolInitialized.
PoolInitializedOffsets == <<0, 32, 64, 96, 128, 130, 162, 194, 195, 196, 212>>

LEMMA PoolInitializedLies ==
    \A k \in 1 .. 10 :
        Lies(WhirlpoolLayouts.PoolInitialized[k], PoolInitializedOffsets[k], PoolInitializedOffsets[k + 1])
<1> DEFINE lies(k, n) ==
              Lies(WhirlpoolLayouts.PoolInitialized[k], PoolInitializedOffsets[k], PoolInitializedOffsets[n])
<1>1. /\ lies(1, 2) /\ lies(2, 3) /\ lies(3, 4) /\ lies(4, 5) /\ lies(5, 6) /\ lies(6, 7)
      /\ lies(7, 8) /\ lies(8, 9) /\ lies(9, 10)
      /\ lies(10, 11)
    BY FixedTypes DEF Lies, PoolInitializedOffsets, WhirlpoolLayouts, u8, bool, u16, u64, u128,
                      pubkey
<1> HIDE DEF lies
<1>2. \A k \in 1 .. 10 : lies(k, k + 1)
    BY <1>1
<1> QED
    BY <1>2 DEF lies

\* Of the reads of Pumpfun's TradeEvent.
PumpTradeOffsets == <<0, 32, 40, 48, 49, 81, 89, 97, 105, 113, 121, 153, 161, 169>>

LEMMA PumpTradeReadsLie ==
    \A k \in 1 .. 13 :
        Lies(PumpTradeReads[k], PumpTradeOffsets[k], PumpTradeOffsets[k + 1])
<1> DEFINE lies(k, n) == Lies(PumpTradeReads[k], PumpTradeOffsets[k], PumpTradeOffsets[n])
<1>1. /\ lies(1, 2) /\ lies(2, 3) /\ lies(3, 4) /\ lies(4, 5) /\ lies(5, 6) /\ lies(6, 7)
      /\ lies(7, 8) /\ lies(8, 9) /\ lies(9, 10)
      /\ lies(10, 11) /\ lies(11, 12) /\ lies(12, 13) /\ lies(13, 14)
    BY FixedTypes DEF Lies, PumpTradeOffsets, PumpTradeReads, bool, u64, i64, pubkey
<1> HIDE DEF lies
<1>2. \A k \in 1 .. 13 : lies(k, k + 1)
    BY <1>1
<1> QED
    BY <1>2 DEF lies

\* Of the fields of LaunchLab's TradeEvent.
LaunchLabTradeOffsets == <<0, 32, 40, 48, 56, 64, 72, 80, 88, 96, 104, 112, 120, 128, 136, 137, 138, 139>>

LEMMA LaunchLabTradeLies ==
    \A k \in 1 .. 17 :
        Lies(LaunchLabLayouts.TradeEvent[k], LaunchLabTradeOffsets[k], LaunchLabTradeOffsets[k + 1])
<1> DEFINE lies(k, n) ==
              Lies(LaunchLabLayouts.TradeEvent[k], LaunchLabTradeOffsets[k], LaunchLabTradeOffsets[n])
<1>1. /\ lies(1, 2) /\ lies(2, 3) /\ lies(3, 4) /\ lies(4, 5) /\ lies(5, 6) /\ lies(6, 7)
      /\ lies(7, 8) /\ lies(8, 9) /\ lies(9, 10)
      /\ lies(10, 11) /\ lies(11, 12) /\ lies(12, 13) /\ lies(13, 14) /\ lies(14, 15) /\ lies(15, 16)
      /\ lies(16, 17) /\ lies(17, 18)
    BY FixedTypes DEF Lies, LaunchLabTradeOffsets, LaunchLabLayouts, u8, bool, u64, pubkey, string,
                      params
<1> HIDE DEF lies
<1>2. \A k \in 1 .. 17 : lies(k, k + 1)
    BY <1>1
<1> QED
    BY <1>2 DEF lies

\* Of the reads after the jump, from where it leads.
TrailingReadOffsets == <<0, 1, 2, 18, 34, 50, 66, 74, 75, 76, 84, 92, 100, 108, 109>>

LEMMA TrailingReadsLie ==
    \A k \in 1 .. 14 :
        Lies(EvtInitializePoolReads[7 + k], TrailingReadOffsets[k], TrailingReadOffsets[k + 1])
<1> DEFINE lies(i, k, n) ==
              Lies(EvtInitializePoolReads[i], TrailingReadOffsets[k], TrailingReadOffsets[n])
<1>1. /\ lies(8, 1, 2) /\ lies(9, 2, 3) /\ lies(10, 3, 4) /\ lies(11, 4, 5) /\ lies(12, 5, 6)
      /\ lies(13, 6, 7)
      /\ lies(14, 7, 8) /\ lies(15, 8, 9) /\ lies(16, 9, 10)
      /\ lies(17, 10, 11) /\ lies(18, 11, 12) /\ lies(19, 12, 13) /\ lies(20, 13, 14) /\ lies(21, 14, 15)
    BY FixedTypes DEF Lies, TrailingReadOffsets, EvtInitializePoolReads, u8, u64, u128, pubkey, jump
<1> HIDE DEF lies
<1>2. \A k \in 1 .. 14 : lies(7 + k, k, k + 1)
    BY <1>1
<1> QED
    BY <1>2 DEF lies

\* Of the fields after the fees, from the first of them.
TrailingOffsets == <<0, 16, 32, 33, 34, 50, 66, 74, 75, 76, 84, 92, 100, 108, 109>>

LEMMA TrailingFieldsLie ==
    \A k \in 1 .. 14 :
        Lies(MeteoraLayouts.EvtInitializePool[7 + k], TrailingOffsets[k], TrailingOffsets[k + 1])
<1> DEFINE lies(i, k, n) ==
              Lies(MeteoraLayouts.EvtInitializePool[i], TrailingOffsets[k], TrailingOffsets[n])
<1>1. /\ lies(8, 1, 2) /\ lies(9, 2, 3) /\ lies(10, 3, 4) /\ lies(11, 4, 5) /\ lies(12, 5, 6)
      /\ lies(13, 6, 7)
      /\ lies(14, 7, 8) /\ lies(15, 8, 9) /\ lies(16, 9, 10)
      /\ lies(17, 10, 11) /\ lies(18, 11, 12) /\ lies(19, 12, 13) /\ lies(20, 13, 14) /\ lies(21, 14, 15)
    BY FixedTypes DEF Lies, TrailingOffsets, MeteoraLayouts, u8, bool, u64, u128, pubkey, fees
<1> HIDE DEF lies
<1>2. \A k \in 1 .. 14 : lies(7 + k, k, k + 1)
    BY <1>1
<1> QED
    BY <1>2 DEF lies


-----------------------------------------------------------------------------
(***************************************************************************)
(* The invariant.  The reader of a body of its own program stands where    *)
(* the field that it reads next begins, and, after a jump, as far from the *)
(* end as the trailing reads say.  The other readers stand where their own *)
(* reads, all of fixed widths, have taken them.                            *)
(***************************************************************************)
Layout == Layouts[body.program][body.name]

\* Where the kth field begins; where the body of the layout ends.
Place(k) ==
    LET n == Len(Layout)
    IN  IF k <= n THEN body.fields[k].from ELSE body.fields[n].from + body.fields[n].width

BodyOK ==
    /\ body.program \in Parsers /\ body.name \in DOMAIN Layouts[body.program]
    /\ Laid(body.fields, Layout)
    /\ body.trim \in Int /\ body.length \in Nat
    /\ body.length = Place(Len(Layout) + 1) + body.trim

ReaderOK ==
    /\ parser \in Parsers /\ body.name \in DOMAIN Reads(parser)
    /\ next \in Nat \ {0} /\ next <= Len(Script) + 1
    /\ pos \in Nat /\ pos <= body.length
    /\ outcome \in {"reading", "row", "unknown", "none"}
    /\ outcome = "row" => next = Len(Script) + 1

\* A body that its parser understands.
Own == parser = body.program /\ ~Strange

\* The reads that follow the layout from its start.
Leading == IF body.name = "EvtInitializePool" THEN 6 ELSE Len(Script)

StandsInPlace ==
    IF next <= Leading + 1 THEN pos = Place(next)
    ELSE pos = body.length - TRAILING + TrailingReadOffsets[next - 7]

InPlace(name) ==
    \/ AfterJump(name) /\ body.trim # 0
    \/ \E f \in Range(body.fields) : f.name = name /\ <<f.from, f.width>> = got[name]

OwnInv ==
    /\ StandsInPlace
    /\ \A name \in DOMAIN got : InPlace(name)
    /\ outcome = "none" => body.trim < 0

StrangeInv == pos = StrangeOffsets[next]

\* Pumpfun's parser on an event of LaunchLab.
PumpInv == pos = PumpTradeOffsets[next]

DecodingInv ==
    /\ BodyOK
    /\ ReaderOK
    /\ Own => OwnInv
    /\ parser = body.program /\ Strange => StrangeInv
    /\ parser = "pump" /\ body.program = "launchlab" => PumpInv
    /\ parser = "launchlab" /\ body.program = "pump" => outcome # "row"

\* The programs, and the names of their bodies.
LEMMA Names ==
    /\ Parsers = {"pump", "pump_ix", "launchlab", "meteora", "whirlpool"}
    /\ DOMAIN Layouts["pump"] = {"TradeEvent", "CreateEvent"}
    /\ DOMAIN Layouts["pump_ix"] = {"buy", "buy_exact_sol_in", "sell", "create", "create_v2"}
    /\ DOMAIN Layouts["launchlab"] = {"TradeEvent", "PoolCreateEvent"}
    /\ DOMAIN Layouts["meteora"] = {"EvtSwap2", "EvtInitializePool"}
    /\ DOMAIN Layouts["whirlpool"] = {"Traded", "PoolInitialized"}
    /\ \A p \in Parsers : DOMAIN Reads(p) = DOMAIN Layouts[p]
<1>1. Parsers = {"pump", "pump_ix", "launchlab", "meteora", "whirlpool"}
    BY DEF Parsers, Layouts
<1>2. /\ DOMAIN Layouts["pump"] = {"TradeEvent", "CreateEvent"}
      /\ DOMAIN Layouts["pump_ix"] = {"buy", "buy_exact_sol_in", "sell", "create", "create_v2"}
      /\ DOMAIN Layouts["launchlab"] = {"TradeEvent", "PoolCreateEvent"}
      /\ DOMAIN Layouts["meteora"] = {"EvtSwap2", "EvtInitializePool"}
      /\ DOMAIN Layouts["whirlpool"] = {"Traded", "PoolInitialized"}
    BY DEF Layouts, PumpLayouts, PumpInstructionLayouts, LaunchLabLayouts, MeteoraLayouts,
           WhirlpoolLayouts
<1>3. /\ DOMAIN Reads("pump") = {"TradeEvent", "CreateEvent"}
      /\ DOMAIN Reads("pump_ix") = {"buy", "buy_exact_sol_in", "sell", "create", "create_v2"}
      /\ DOMAIN Reads("launchlab") = {"TradeEvent", "PoolCreateEvent"}
      /\ DOMAIN Reads("meteora") = {"EvtSwap2", "EvtInitializePool"}
      /\ DOMAIN Reads("whirlpool") = {"Traded", "PoolInitialized"}
    BY DEF Reads
<1> QED
    BY <1>1, <1>2, <1>3

LEMMA LayoutLengths ==
    ASSUME NEW p \in Parsers, NEW n \in DOMAIN Layouts[p]
    PROVE  Len(Layouts[p][n]) \in Nat \ {0} /\ DOMAIN Layouts[p][n] = 1 .. Len(Layouts[p][n])
<1> DEFINE ok(layout) == Len(layout) \in Nat \ {0} /\ DOMAIN layout = 1 .. Len(layout)
<1>1. /\ ok(PumpLayouts.TradeEvent) /\ ok(PumpLayouts.CreateEvent)
      /\ ok(PumpInstructionLayouts.buy) /\ ok(PumpInstructionLayouts.buy_exact_sol_in)
      /\ ok(PumpInstructionLayouts.sell) /\ ok(PumpInstructionLayouts.create)
      /\ ok(PumpInstructionLayouts.create_v2)
    BY PumpTradeTakes, PumpCreateTakes, BuyTakes, BuyExactSolInTakes, SellTakes, CreateTakes, CreateV2Takes
    DEF TakesUpTo
<1>2. /\ ok(LaunchLabLayouts.TradeEvent) /\ ok(LaunchLabLayouts.PoolCreateEvent)
      /\ ok(MeteoraLayouts.EvtSwap2) /\ ok(MeteoraLayouts.EvtInitializePool)
      /\ ok(WhirlpoolLayouts.Traded)
    BY LaunchLabTradeTakes, LaunchLabCreateTakes, EvtSwapTakes, EvtInitializePoolTakes, TradedTakes
    DEF TakesUpTo
<1>3. ok(WhirlpoolLayouts.PoolInitialized)
  <2>1. Len(WhirlpoolLayouts.PoolInitialized) = 10 /\ DOMAIN WhirlpoolLayouts.PoolInitialized = 1 .. 10
      BY DEF WhirlpoolLayouts
  <2> QED
      BY <2>1
<1> HIDE DEF ok
<1>4. SUFFICES ok(Layouts[p][n])
    BY DEF ok
<1>5. /\ Layouts["pump"] = PumpLayouts /\ Layouts["pump_ix"] = PumpInstructionLayouts
      /\ Layouts["launchlab"] = LaunchLabLayouts /\ Layouts["meteora"] = MeteoraLayouts
      /\ Layouts["whirlpool"] = WhirlpoolLayouts
    BY DEF Layouts
<1> QED
    BY <1>1, <1>2, <1>3, <1>5, Names

\* What the parsers read of the bodies that they understand.
LEMMA OwnReads ==
    ASSUME NEW p \in Parsers, NEW n \in DOMAIN Layouts[p], ~(p = "whirlpool" /\ n = "PoolInitialized")
    PROVE  /\ n # "EvtInitializePool" => TakesUpTo(Len(Reads(p)[n]), Reads(p)[n], Layouts[p][n])
           /\ n = "EvtInitializePool" =>
                  /\ Reads(p)[n] = EvtInitializePoolReads
                  /\ Layouts[p][n] = MeteoraLayouts.EvtInitializePool
<1> DEFINE ok(script, layout) == TakesUpTo(Len(script), script, layout)
<1>1. CASE p = "pump"
  <2>1. Reads(p) = [TradeEvent |-> PumpTradeReads, CreateEvent |-> PumpCreateReads]
        /\ Layouts[p] = PumpLayouts
      BY <1>1 DEF Reads, Layouts
  <2>2. ok(PumpTradeReads, PumpLayouts.TradeEvent) /\ ok(PumpCreateReads, PumpLayouts.CreateEvent)
      BY PumpTradeTakes, PumpCreateTakes
  <2> HIDE DEF ok
  <2>3. n # "EvtInitializePool" /\ ok(Reads(p)[n], Layouts[p][n])
      BY <1>1, <2>1, <2>2, Names
  <2> QED
      BY <2>3 DEF ok
<1>2. CASE p = "pump_ix"
  <2>1. Reads(p) = [buy |-> BuyReads, buy_exact_sol_in |-> BuyExactSolInReads, sell |-> SellReads,
                    create |-> CreateReads, create_v2 |-> CreateV2Reads]
        /\ Layouts[p] = PumpInstructionLayouts
      BY <1>2 DEF Reads, Layouts
  <2>2. /\ ok(BuyReads, PumpInstructionLayouts.buy) /\ ok(SellReads, PumpInstructionLayouts.sell)
        /\ ok(BuyExactSolInReads, PumpInstructionLayouts.buy_exact_sol_in)
        /\ ok(CreateReads, PumpInstructionLayouts.create)
        /\ ok(CreateV2Reads, PumpInstructionLayouts.create_v2)
      BY BuyTakes, BuyExactSolInTakes, SellTakes, CreateTakes, CreateV2Takes
  <2> HIDE DEF ok
  <2>3. n # "EvtInitializePool" /\ ok(Reads(p)[n], Layouts[p][n])
      BY <1>2, <2>1, <2>2, Names
  <2> QED
      BY <2>3 DEF ok
<1>3. CASE p = "launchlab"
  <2>1. Reads(p) = [TradeEvent |-> LaunchLabTradeReads, PoolCreateEvent |-> LaunchLabCreateReads]
        /\ Layouts[p] = LaunchLabLayouts
      BY <1>3 DEF Reads, Layouts
  <2>2. /\ ok(LaunchLabTradeReads, LaunchLabLayouts.TradeEvent)
        /\ ok(LaunchLabCreateReads, LaunchLabLayouts.PoolCreateEvent)
      BY LaunchLabTradeTakes, LaunchLabCreateTakes
  <2> HIDE DEF ok
  <2>3. n # "EvtInitializePool" /\ ok(Reads(p)[n], Layouts[p][n])
      BY <1>3, <2>1, <2>2, Names
  <2> QED
      BY <2>3 DEF ok
<1>4. CASE p = "meteora"
  <2>1. Reads(p) = [EvtSwap2 |-> EvtSwapReads, EvtInitializePool |-> EvtInitializePoolReads]
        /\ Layouts[p] = MeteoraLayouts
      BY <1>4 DEF Reads, Layouts
  <2>2. ok(EvtSwapReads, MeteoraLayouts.EvtSwap2)
      BY EvtSwapTakes
  <2> HIDE DEF ok
  <2>3. CASE n = "EvtSwap2"
    <3>1. ok(Reads(p)[n], Layouts[p][n])
        BY <2>1, <2>2, <2>3
    <3> QED
        BY <2>3, <3>1 DEF ok
  <2>4. CASE n = "EvtInitializePool"
      BY <2>1, <2>4
  <2> QED
      BY <1>4, <2>3, <2>4, Names
<1>5. CASE p = "whirlpool"
  <2>1. n = "Traded" /\ Reads(p)[n] = TradedReads /\ Layouts[p][n] = WhirlpoolLayouts.Traded
      BY <1>5, Names DEF Reads, Layouts
  <2>2. ok(TradedReads, WhirlpoolLayouts.Traded)
      BY TradedTakes
  <2> HIDE DEF ok
  <2>3. ok(Reads(p)[n], Layouts[p][n])
      BY <2>1, <2>2
  <2> QED
      BY <2>1, <2>3 DEF ok
<1> QED
    BY <1>1, <1>2, <1>3, <1>4, <1>5, Names

LEMMA ScriptLengths ==
    ASSUME NEW p \in Parsers, NEW n \in DOMAIN Reads(p)
    PROVE  Len(Reads(p)[n]) \in Nat
<1>1. CASE p = "whirlpool" /\ n = "PoolInitialized"
  <2>1. Reads(p)[n] = PoolInitializedReads
      BY <1>1 DEF Reads
  <2>2. Len(PoolInitializedReads) = 9
      BY DEF PoolInitializedReads
  <2> QED
      BY <2>1, <2>2
<1>2. CASE n = "EvtInitializePool" /\ ~(p = "whirlpool" /\ n = "PoolInitialized")
  <2>1. Reads(p)[n] = EvtInitializePoolReads
      BY <1>2, Names, OwnReads
  <2> QED
      BY <2>1, EvtInitializePoolTakes
<1>3. CASE n # "EvtInitializePool" /\ ~(p = "whirlpool" /\ n = "PoolInitialized")
    BY <1>3, Names, OwnReads DEF TakesUpTo
<1> QED
    BY <1>1, <1>2, <1>3

LEMMA DecodingInvInit == DecodingInit => DecodingInv
<1> SUFFICES ASSUME DecodingInit PROVE DecodingInv
    OBVIOUS
<1>1. PICK p \in Parsers, t \in Trims : \E n \in DOMAIN Layouts[p] : \E fields \in Placed(Layouts[p][n]) :
          body = [program |-> p, name |-> n, fields |-> fields, trim |-> t,
                  length |-> fields[Len(fields)].from + fields[Len(fields)].width + t]
    BY Zenon DEF DecodingInit
<1>2. PICK n \in DOMAIN Layouts[p] : \E fields \in Placed(Layouts[p][n]) :
          body = [program |-> p, name |-> n, fields |-> fields, trim |-> t,
                  length |-> fields[Len(fields)].from + fields[Len(fields)].width + t]
    BY <1>1, Zenon
<1>3. PICK fields \in Placed(Layouts[p][n]) :
          body = [program |-> p, name |-> n, fields |-> fields, trim |-> t,
                  length |-> fields[Len(fields)].from + fields[Len(fields)].width + t]
    BY <1>2, Zenon
<1>4. /\ body.program = p /\ body.name = n /\ body.fields = fields /\ body.trim = t
      /\ body.length = fields[Len(fields)].from + fields[Len(fields)].width + t
    BY <1>3
<1>5. Laid(fields, Layouts[p][n])
    BY LayoutLengths, PlacedAreLaid
<1>6. PICK last \in Nat \ {0} : last = Len(Layouts[p][n])
    BY <1>5 DEF Laid
<1>7. /\ Len(fields) = last
      /\ fields[last].from \in Nat /\ fields[last].width \in Nat
      /\ fields[1].from = 0
    BY <1>5, <1>6 DEF Laid
<1>8. BodyOK
  <2>1. Layout = Layouts[p][n]
      BY <1>4 DEF Layout
  <2>2. Place(Len(Layout) + 1) = fields[last].from + fields[last].width
      BY <1>4, <1>6, <2>1 DEF Place
  <2>3. t \in Int
      BY DecodingAssumption
  <2>4. body.length = Place(Len(Layout) + 1) + t
      BY <1>4, <1>7, <2>2
  <2>5. body.length >= 0
      BY DEF DecodingInit
  <2>6. body.length \in Nat
      BY <1>7, <2>2, <2>3, <2>4, <2>5
  <2> QED
      BY <1>4, <1>5, <2>1, <2>3, <2>4, <2>6 DEF BodyOK
<1>9. /\ parser \in Parsers /\ body.name \in DOMAIN Reads(parser)
      /\ pos = 0 /\ next = 1 /\ got = <<>> /\ outcome = "reading"
    BY DEF DecodingInit
<1>10. Len(Script) \in Nat
    BY <1>9, ScriptLengths DEF Script
<1>11. ReaderOK
    BY <1>8, <1>9, <1>10 DEF ReaderOK, BodyOK
<1>12. OwnInv
  <2>1. Leading \in Nat
      BY <1>10 DEF Leading
  <2>2. Place(1) = 0
      BY <1>4, <1>6, <1>7 DEF Place, Layout
  <2>3. StandsInPlace
      BY <1>9, <2>1, <2>2 DEF StandsInPlace
  <2>4. DOMAIN got = {}
      BY <1>9
  <2> QED
      BY <1>9, <2>3, <2>4 DEF OwnInv
<1>13. StrangeInv /\ PumpInv
    BY <1>9 DEF StrangeInv, PumpInv, StrangeOffsets, PumpTradeOffsets
<1> QED
    BY <1>8, <1>9, <1>11, <1>12, <1>13 DEF DecodingInv

-----------------------------------------------------------------------------
(* Steps *)

LEMMA BodyStays == [DecodingNext]_decodingVars => body' = body /\ parser' = parser
    BY DEF DecodingNext, ReadField, Jump, EndBody, Consume, Return, decodingVars

LEMMA ScriptStays == body' = body /\ parser' = parser => Script' = Script
    BY DEF Script

\* The fields of a body, in numbers.
LEMMA Measures ==
    ASSUME BodyOK
    PROVE  /\ Len(Layout) \in Nat \ {0}
           /\ DOMAIN body.fields = 1 .. Len(Layout)
           /\ \A k \in 1 .. Len(Layout) :
                  /\ body.fields[k].from \in Nat /\ body.fields[k].width \in Nat \ {0}
                  /\ Place(k) = body.fields[k].from
                  /\ Place(k + 1) = Place(k) + body.fields[k].width
                  /\ Place(k + 1) <= Place(Len(Layout) + 1)
           /\ Place(Len(Layout) + 1) \in Nat
<1>1. PICK n \in Nat \ {0} : n = Len(Layout)
    BY DEF BodyOK, Laid
<1> DEFINE F(k) == body.fields[k].from
           W(k) == body.fields[k].width
<1>2. /\ DOMAIN body.fields = 1 .. n
      /\ \A k \in 1 .. n : F(k) \in Nat /\ W(k) \in Nat \ {0}
      /\ \A k \in 1 .. n - 1 : F(k + 1) = F(k) + W(k)
      /\ \A i, j \in 1 .. n : i < j => F(i) + W(i) <= F(j)
    BY <1>1 DEF BodyOK, Laid
<1>3. \A k \in 1 .. n : Place(k) = F(k)
    BY <1>1 DEF Place
<1>4. Place(n + 1) = F(n) + W(n)
    BY <1>1 DEF Place
<1> HIDE DEF F, W
<1>5. n \in 1 .. n
    OBVIOUS
<1>6. ASSUME NEW k \in 1 .. n
      PROVE  Place(k + 1) = Place(k) + W(k) /\ Place(k + 1) <= Place(n + 1)
  <2>1. CASE k = n
    <3>1. Place(n + 1) \in Nat
        BY <1>2, <1>4, <1>5
    <3> QED
        BY <1>3, <1>4, <1>5, <2>1, <3>1
  <2>2. CASE k # n
    <3>1. k \in 1 .. n - 1 /\ k + 1 \in 1 .. n
        BY <2>2
    <3>2. Place(k + 1) = F(k + 1) /\ F(k + 1) = F(k) + W(k) /\ Place(k) = F(k)
        BY <1>2, <1>3, <3>1
    <3>3. PICK a \in Nat, b \in Nat, c \in Nat : a = F(k + 1) /\ b = F(n) /\ c = W(n)
        BY <1>2, <1>5, <3>1
    <3>4. a <= b
      <4>1. k + 1 = n \/ (k + 1 < n)
          BY <3>1
      <4>2. CASE k + 1 = n
          BY <3>3, <4>2
      <4>3. CASE k + 1 < n
        <5>1. PICK w \in Nat : w = W(k + 1) /\ a + w <= b
            BY <1>2, <1>5, <3>1, <3>3, <4>3
        <5> QED
            BY <5>1
      <4> QED
          BY <4>1, <4>2, <4>3
    <3>5. a <= b + c
        BY <3>4
    <3>6. Place(k + 1) <= Place(n + 1)
        BY <1>4, <3>2, <3>3, <3>5
    <3> QED
        BY <3>2, <3>6
  <2> QED
      BY <2>1, <2>2
<1>7. Place(n + 1) \in Nat
    BY <1>2, <1>4, <1>5
<1> QED
    BY <1>1, <1>2, <1>3, <1>6, <1>7 DEF F, W

\* What a read may take is at least a byte; where the reader stands before a
\* field of the type that it reads, it is the field.
LEMMA ReadWidthsPositive == ASSUME BodyOK PROVE \A type : ReadWidths(type) \subseteq Nat \ {0}
<1> SUFFICES ASSUME NEW type PROVE ReadWidths(type) \subseteq Nat \ {0}
    OBVIOUS
<1>1. CASE type # "string"
    BY <1>1, BytesPositive DEF ReadWidths
<1>2. CASE type = "string"
  <2>1. \A f \in Range(body.fields) : f.width \in Nat \ {0}
      BY Measures DEF Range
  <2> QED
      BY <1>2, <2>1, WidthsPositive DEF ReadWidths
<1> QED
    BY <1>1, <1>2

LEMMA ReadsItsField ==
    ASSUME BodyOK, NEW k \in 1 .. Len(Layout), pos = body.fields[k].from,
           Layout[k].type \notin {"fees", "params"}, NEW width \in ReadWidths(Layout[k].type)
    PROVE  width = body.fields[k].width
<1>1. PICK n \in Nat \ {0} : n = Len(Layout)
    BY DEF BodyOK, Laid
<1>2. /\ body.fields[k].type = Layout[k].type
      /\ Layout[k].type \notin Varying => body.fields[k].width = Bytes(Layout[k].type)
    BY DEF BodyOK, Laid
<1>3. CASE Layout[k].type # "string"
    BY <1>2, <1>3 DEF ReadWidths, Varying
<1>4. CASE Layout[k].type = "string"
  <2> DEFINE here == {f \in Range(body.fields) : f.from = pos /\ f.type = "string"}
  <2>1. body.fields[k] \in here
      BY <1>2, <1>4, Measures DEF Range
  <2>2. PICK f \in here : width = f.width
      BY <1>4, <2>1 DEF ReadWidths
  <2>3. PICK j \in 1 .. n : f = body.fields[j]
      BY <1>1, Measures DEF Range
  <2>4. \A i, l \in 1 .. n : i < l => body.fields[i].from + body.fields[i].width <= body.fields[l].from
      BY <1>1 DEF BodyOK, Laid
  <2>5. PICK a \in Nat, b \in Nat, u \in Nat \ {0}, v \in Nat \ {0} :
            /\ a = body.fields[j].from /\ b = body.fields[k].from
            /\ u = body.fields[j].width /\ v = body.fields[k].width
      BY <1>1, Measures
  <2>6. a = b
      BY <2>2, <2>3, <2>5
  <2>7. (j < k => a + u <= b) /\ (k < j => b + v <= a)
      BY <1>1, <2>4, <2>5
  <2>8. ~(j < k) /\ ~(k < j)
    <3>1. ~(a + u <= b) /\ ~(b + v <= a)
        BY <2>6
    <3> QED
        BY <2>7, <3>1
  <2>9. j = k
      BY <1>1, <2>7, <2>8
  <2> QED
      BY <2>2, <2>3, <2>9
<1> QED
    BY <1>3, <1>4

LEMMA OwnFacts ==
    ASSUME BodyOK, Own
    PROVE  /\ Leading \in Nat /\ Leading <= Len(Script) /\ Leading <= Len(Layout)
           /\ Len(Script) \in Nat
           /\ \A k \in 1 .. Leading : Takes(Script, Layout, k)
           /\ body.name # "EvtInitializePool" => Leading = Len(Script)
           /\ body.name = "EvtInitializePool" =>
                  /\ Script = EvtInitializePoolReads /\ Layout = MeteoraLayouts.EvtInitializePool
                  /\ Leading = 6 /\ Len(Script) = 21 /\ Len(Layout) = 21
<1> DEFINE p == body.program
           n == body.name
<1>1. p \in Parsers /\ n \in DOMAIN Layouts[p] /\ ~(p = "whirlpool" /\ n = "PoolInitialized")
    BY DEF BodyOK, Own, Strange
<1>2. Script = Reads(p)[n] /\ Layout = Layouts[p][n]
    BY DEF Own, Script, Layout
<1>3. CASE n # "EvtInitializePool"
  <2>1. TakesUpTo(Len(Script), Script, Layout)
      BY <1>1, <1>2, <1>3, OwnReads
  <2>2. Leading = Len(Script)
      BY <1>3 DEF Leading
  <2> QED
      BY <1>3, <2>1, <2>2 DEF TakesUpTo
<1>4. CASE n = "EvtInitializePool"
  <2>1. Script = EvtInitializePoolReads /\ Layout = MeteoraLayouts.EvtInitializePool
      BY <1>1, <1>2, <1>4, OwnReads
  <2>2. Leading = 6
      BY <1>4 DEF Leading
  <2>3. TakesUpTo(6, Script, Layout) /\ Len(Script) = 21 /\ Len(Layout) = 21
      BY <2>1, EvtInitializePoolTakes
  <2> QED
      BY <1>4, <2>1, <2>2, <2>3 DEF TakesUpTo
<1> QED
    BY <1>3, <1>4

\* After the jump the reads are of fixed widths, and those that are used are
\* as far from the end as their fields.
LEMMA TrailingFacts ==
    ASSUME BodyOK, Own, body.name = "EvtInitializePool"
    PROVE  /\ Script[7] = jump("-")
           /\ Place(8) + TRAILING = Place(22)
           /\ TrailingReadOffsets[1] = 0
           /\ \A k \in 8 .. 21 :
                  /\ Lies(Script[k], TrailingReadOffsets[k - 7], TrailingReadOffsets[k - 6])
                  /\ TrailingReadOffsets[k - 6] <= TRAILING
                  /\ Script[k].name # "-" =>
                         /\ Script[k].name = Layout[k].name
                         /\ Script[k].type = Layout[k].type
                         /\ body.fields[k].from = Place(22) - TRAILING + TrailingReadOffsets[k - 7]
<1>1. /\ Script = EvtInitializePoolReads /\ Layout = MeteoraLayouts.EvtInitializePool
      /\ Len(Layout) = 21 /\ Laid(body.fields, Layout)
    BY OwnFacts DEF BodyOK
<1>2. PICK d \in Nat, n \in Nat \ {0} : d = 7 /\ n = 14
    OBVIOUS
<1> DEFINE F(k) == body.fields[k].from
           W(k) == body.fields[k].width
<1>3. \A k \in 1 .. n : /\ F(d + k) = F(d + 1) + TrailingOffsets[k] - TrailingOffsets[1]
                         /\ F(d + k) + W(d + k) = F(d + 1) + TrailingOffsets[k + 1] - TrailingOffsets[1]
  <2>1. \A k \in 1 .. n : Lies(Layout[d + k], TrailingOffsets[k], TrailingOffsets[k + 1])
      BY <1>1, <1>2, TrailingFieldsLie
  <2>2. d + n <= Len(Layout)
      BY <1>1, <1>2
  <2>3. LieAt(body.fields, d, TrailingOffsets, n)
      BY <1>1, <2>1, <2>2, PlacesByOffset, Zenon
  <2> QED
      BY <2>3 DEF LieAt
<1>4. d + 1 = 8 /\ d + 6 = 13 /\ d + 10 = 17 /\ d + 11 = 18 /\ d + 14 = 21 /\ 14 + 1 = 15
       /\ 6 \in 1 .. n /\ 10 \in 1 .. n /\ 11 \in 1 .. n /\ 14 \in 1 .. n
    BY <1>2
<1> HIDE DEF F, W
<1>5. /\ F(13) = F(8) + TrailingOffsets[6] - TrailingOffsets[1]
       /\ F(17) = F(8) + TrailingOffsets[10] - TrailingOffsets[1]
       /\ F(18) = F(8) + TrailingOffsets[11] - TrailingOffsets[1]
       /\ F(21) + W(21) = F(8) + TrailingOffsets[15] - TrailingOffsets[1]
    BY <1>3, <1>4
<1>6. /\ TrailingOffsets[1] = 0 /\ TrailingOffsets[6] = 50 /\ TrailingOffsets[10] = 76
      /\ TrailingOffsets[11] = 84 /\ TrailingOffsets[15] = 109
    BY DEF TrailingOffsets
<1>7. /\ TrailingReadOffsets[1] = 0 /\ TrailingReadOffsets[6] = 50 /\ TrailingReadOffsets[10] = 76
      /\ TrailingReadOffsets[11] = 84
    BY DEF TrailingReadOffsets
<1>8. PICK a \in Nat : a = F(8) /\ a = Place(8)
    BY <1>1, Measures DEF F
<1>9. Place(22) = a + 109 /\ TRAILING = 109
  <2>1. Place(22) = F(21) + W(21)
      BY <1>1 DEF Place, F, W
  <2> QED
      BY <1>6, <1>8, <1>5, <2>1 DEF TRAILING
<1>10. F(13) = a + 50 /\ F(17) = a + 76 /\ F(18) = a + 84
    BY <1>6, <1>8, <1>5
<1>11. \A k \in 8 .. 21 : Script[k].name # "-" => k = 13 \/ k = 17 \/ k = 18
  <2> DEFINE unused(k) == EvtInitializePoolReads[k].name = "-"
  <2>1. /\ unused(8) /\ unused(9) /\ unused(10) /\ unused(11) /\ unused(12) /\ unused(14)
        /\ unused(15) /\ unused(16) /\ unused(19) /\ unused(20) /\ unused(21)
      BY DEF EvtInitializePoolReads, u8, u64, u128
  <2> HIDE DEF unused
  <2>2. \A k \in 8 .. 21 : ~unused(k) => k = 13 \/ k = 17 \/ k = 18
      BY <2>1
  <2> QED
      BY <1>1, <2>2 DEF unused
<1>12. /\ Script[13] = Layout[13] /\ Script[17] = Layout[17] /\ Script[18] = Layout[18]
  <2>1. /\ EvtInitializePoolReads[13] = MeteoraLayouts.EvtInitializePool[13]
        /\ EvtInitializePoolReads[17] = MeteoraLayouts.EvtInitializePool[17]
        /\ EvtInitializePoolReads[18] = MeteoraLayouts.EvtInitializePool[18]
      BY DEF EvtInitializePoolReads, MeteoraLayouts
  <2> QED
      BY <1>1, <2>1
<1>13. EvtInitializePoolReads[7] = jump("-")
    BY DEF EvtInitializePoolReads
<1>14. \A k \in 8 .. 21 : TrailingReadOffsets[k - 6] <= 109
  <2> DEFINE within(k) == TrailingReadOffsets[k] <= 109
  <2>1. /\ within(2) /\ within(3) /\ within(4) /\ within(5) /\ within(6) /\ within(7) /\ within(8)
        /\ within(9) /\ within(10) /\ within(11) /\ within(12) /\ within(13) /\ within(14) /\ within(15)
      BY DEF TrailingReadOffsets
  <2> HIDE DEF within
  <2>2. \A k \in 2 .. 15 : within(k)
      BY <2>1
  <2>3. \A k \in 8 .. 21 : within(k - 6)
      BY <2>2
  <2> QED
      BY <2>3 DEF within
<1>15. ASSUME NEW k \in 8 .. 21
       PROVE  Lies(Script[k], TrailingReadOffsets[k - 7], TrailingReadOffsets[k - 6])
  <2>1. PICK j \in 1 .. 14 : k = 7 + j /\ k - 7 = j /\ k - 6 = j + 1
    <3>1. k - 7 \in 1 .. 14 /\ k = 7 + (k - 7) /\ k - 6 = (k - 7) + 1
        OBVIOUS
    <3> QED
        BY <3>1
  <2> QED
      BY <1>1, <2>1, TrailingReadsLie
<1>16. ASSUME NEW k \in 8 .. 21, Script[k].name # "-"
       PROVE  /\ Script[k].name = Layout[k].name
              /\ Script[k].type = Layout[k].type
              /\ body.fields[k].from = Place(22) - TRAILING + TrailingReadOffsets[k - 7]
  <2>1. Script[k] = Layout[k]
      BY <1>11, <1>12, <1>16
  <2>2. k = 13 \/ k = 17 \/ k = 18
      BY <1>11, <1>16
  <2>3. Place(22) - TRAILING = a
      BY <1>9
  <2>4. F(k) = a + TrailingReadOffsets[k - 7]
    <3>1. 13 - 7 = 6 /\ 17 - 7 = 10 /\ 18 - 7 = 11
        OBVIOUS
    <3> QED
        BY <1>7, <1>10, <2>2, <3>1
  <2> QED
      BY <2>1, <2>3, <2>4 DEF F
<1>17. Place(8) + TRAILING = Place(22)
    BY <1>8, <1>9
<1> QED
    BY <1>1, <1>7, <1>9, <1>13, <1>14, <1>15, <1>16, <1>17

\* Whatever a read takes, the reader stays within the body and its script.
LEMMA ConsumeReader ==
    ASSUME ReaderOK, Reading, Len(Script) \in Nat, body.length \in Nat, NEW width \in Nat, Consume(width)
    PROVE  ReaderOK'
<1>1. body' = body /\ parser' = parser /\ Script' = Script
    BY ScriptStays DEF Consume, Return
<1>2. next \in Nat \ {0} /\ next <= Len(Script) /\ pos \in Nat /\ pos <= body.length
      /\ outcome = "reading"
    BY DEF ReaderOK, Reading
<1>3. CASE pos + width <= body.length
  <2>1. pos' = pos + width /\ next' = next + 1 /\ outcome' = "reading"
      BY <1>2, <1>3 DEF Consume
  <2> QED
      BY <1>1, <1>2, <1>3, <2>1 DEF ReaderOK
<1>4. CASE ~(pos + width <= body.length)
  <2>1. pos' = pos /\ next' = next /\ outcome' = "none"
      BY <1>4 DEF Consume, Return
  <2> QED
      BY <1>1, <1>2, <2>1 DEF ReaderOK
<1> QED
    BY <1>3, <1>4

LEMMA ReaderNext == DecodingInv /\ [DecodingNext]_decodingVars => ReaderOK'
<1> SUFFICES ASSUME DecodingInv, [DecodingNext]_decodingVars PROVE ReaderOK'
    OBVIOUS
<1>1. ReaderOK /\ BodyOK /\ body.length \in Nat
    BY DEF DecodingInv, BodyOK
<1>2. Len(Script) \in Nat
    BY <1>1, ScriptLengths DEF ReaderOK, Script
<1>3. CASE ReadField
  <2>1. PICK width \in ReadWidths(Script[next].type) : Consume(width)
      BY <1>3 DEF ReadField
  <2>2. width \in Nat
      BY <1>1, ReadWidthsPositive
  <2>3. Reading
      BY <1>3 DEF ReadField
  <2> QED
      BY <1>1, <1>2, <2>1, <2>2, <2>3, ConsumeReader
<1>4. CASE Jump /\ body.length - pos < TRAILING
  <2>1. body' = body /\ parser' = parser /\ pos' = pos /\ next' = next /\ outcome' = "none"
      BY <1>4 DEF Jump, Return
  <2> QED
      BY <1>1, <2>1, ScriptStays DEF ReaderOK
<1>5. CASE Jump /\ ~(body.length - pos < TRAILING)
  <2>1. Reading /\ Consume(body.length - pos - TRAILING)
      BY <1>5 DEF Jump
  <2>2. pos \in Nat
      BY <1>1 DEF ReaderOK
  <2>3. body.length - pos - TRAILING \in Nat
      BY <1>1, <1>5, <2>2 DEF TRAILING
  <2> QED
      BY <1>1, <1>2, <2>1, <2>3, ConsumeReader
<1>6. CASE EndBody
  <2>1. body' = body /\ parser' = parser /\ pos' = pos /\ next' = next /\ outcome' \in {"row", "unknown"}
        /\ next > Len(Script)
      BY <1>6 DEF EndBody, Return
  <2>2. next = Len(Script) + 1
      BY <1>1, <1>2, <2>1 DEF ReaderOK
  <2> QED
      BY <1>1, <2>1, <2>2, ScriptStays DEF ReaderOK
<1>7. CASE UNCHANGED decodingVars
  <2>1. body' = body /\ parser' = parser /\ pos' = pos /\ next' = next /\ outcome' = outcome
      BY <1>7 DEF decodingVars
  <2> QED
      BY <1>1, <2>1, ScriptStays DEF ReaderOK
<1> QED
    BY <1>3, <1>4, <1>5, <1>6, <1>7 DEF DecodingNext

\* A read adds to what was read at most its own name.
LEMMA GotNext ==
    ASSUME NEW width, body' = body, parser' = parser,
           \A name \in DOMAIN got : InPlace(name),
           got' = [name \in DOMAIN got \cup ({Script[next].name} \ {"-"}) |->
                      IF name \in DOMAIN got THEN got[name] ELSE <<pos, width>>],
           Script[next].name # "-" =>
               \/ AfterJump(Script[next].name) /\ body.trim # 0
               \/ \E f \in Range(body.fields) : f.name = Script[next].name /\ f.from = pos /\ f.width = width
    PROVE  \A name \in DOMAIN got' : InPlace(name)'
<1> SUFFICES ASSUME NEW name \in DOMAIN got' PROVE InPlace(name)'
    OBVIOUS
<1>1. AfterJump(name)' <=> AfterJump(name)
    BY DEF AfterJump, Script
<1>2. CASE name \in DOMAIN got
  <2>1. InPlace(name) /\ got'[name] = got[name]
      BY <1>2
  <2> QED
      BY <1>1, <2>1 DEF InPlace
<1>3. CASE name \notin DOMAIN got
  <2>1. name = Script[next].name /\ name # "-" /\ got'[name] = <<pos, width>>
      BY <1>3
  <2>2. CASE AfterJump(name) /\ body.trim # 0
      BY <1>1, <2>2 DEF InPlace
  <2>3. CASE \E f \in Range(body.fields) : f.name = name /\ f.from = pos /\ f.width = width
    <3>1. PICK f \in Range(body.fields) : f.name = name /\ f.from = pos /\ f.width = width
        BY <2>3
    <3>2. <<f.from, f.width>> = got'[name]
        BY <2>1, <3>1
    <3> QED
        BY <3>1, <3>2 DEF InPlace
  <2> QED
      BY <2>1, <2>2, <2>3
<1> QED
    BY <1>2, <1>3

\* The reads that follow the layout.
LEMMA LeadingRead ==
    ASSUME BodyOK, ReaderOK, ReaderOK', Own, OwnInv, ReadField, next <= Leading
    PROVE  OwnInv'
<1>1. PICK n \in Nat \ {0} : n = Len(Layout)
    BY Measures
<1>2. PICK l \in Nat : l = Leading /\ l <= n /\ l <= Len(Script)
    BY <1>1, OwnFacts
<1>3. PICK k \in 1 .. n : k = next /\ k <= l
    BY <1>1, <1>2 DEF ReaderOK
<1>4. Takes(Script, Layout, k)
    BY <1>2, <1>3, OwnFacts
<1>5. PICK width \in ReadWidths(Layout[k].type) : Consume(width)
    BY <1>3, <1>4 DEF ReadField, Takes
<1>6. pos = Place(k) /\ pos = body.fields[k].from
  <2>1. next <= Leading + 1
      BY <1>2, <1>3
  <2>2. pos = Place(k)
      BY <1>3, <2>1 DEF OwnInv, StandsInPlace
  <2> QED
      BY <1>1, <2>2, Measures
<1>7. width = body.fields[k].width
    BY <1>1, <1>4, <1>5, <1>6, ReadsItsField DEF Takes
<1>8. body' = body /\ parser' = parser /\ Script' = Script
    BY <1>5, ScriptStays DEF Consume, Return
<1>9. Leading' = Leading /\ Layout' = Layout /\ \A i : Place(i)' = Place(i)
    BY <1>8 DEF Leading, Layout, Place
<1>10. /\ width \in Nat /\ pos \in Nat /\ Place(k + 1) = pos + width /\ Place(k + 1) <= Place(n + 1)
       /\ Place(n + 1) \in Nat
    BY <1>1, <1>6, <1>7, Measures
<1>11. body.length = Place(n + 1) + body.trim /\ body.trim \in Int
    BY <1>1 DEF BodyOK
<1>12. CASE pos + width <= body.length
  <2>1. /\ pos' = Place(k + 1) /\ next' = k + 1 /\ outcome' = outcome
        /\ got' = [name \in DOMAIN got \cup ({Script[next].name} \ {"-"}) |->
                      IF name \in DOMAIN got THEN got[name] ELSE <<pos, width>>]
      BY <1>3, <1>5, <1>10, <1>12 DEF Consume
  <2>2. StandsInPlace'
    <3>1. next' <= Leading' + 1
        BY <1>2, <1>3, <1>9, <2>1
    <3>2. pos' = Place(k + 1)'
        BY <1>9, <2>1
    <3> QED
        BY <2>1, <3>1, <3>2 DEF StandsInPlace
  <2>3. \A name \in DOMAIN got' : InPlace(name)'
    <3>1. ASSUME Script[next].name # "-"
          PROVE  \E f \in Range(body.fields) : f.name = Script[next].name /\ f.from = pos /\ f.width = width
      <4>1. Script[next].name = Layout[k].name
          BY <1>3, <1>4, <3>1 DEF Takes
      <4>2. body.fields[k].name = Layout[k].name
          BY <1>1 DEF BodyOK, Laid
      <4>3. body.fields[k] \in Range(body.fields)
          BY <1>1, Measures DEF Range
      <4> QED
          BY <1>6, <1>7, <4>1, <4>2, <4>3
    <3> QED
        BY <1>8, <2>1, <3>1, GotNext DEF OwnInv
  <2>4. outcome' # "none"
      BY <2>1 DEF ReadField, Reading
  <2> QED
      BY <2>2, <2>3, <2>4 DEF OwnInv
<1>13. CASE ~(pos + width <= body.length)
  <2>1. pos' = pos /\ next' = next /\ got' = got
      BY <1>5, <1>13 DEF Consume, Return
  <2>2. body.trim < 0
      BY <1>10, <1>11, <1>13
  <2>3. StandsInPlace'
      BY <1>8, <1>9, <2>1 DEF StandsInPlace, OwnInv
  <2>4. \A name \in DOMAIN got' : InPlace(name)'
      BY <1>8, <2>1 DEF OwnInv, InPlace, AfterJump, Script
  <2> QED
      BY <1>8, <2>2, <2>3, <2>4 DEF OwnInv
<1> QED
    BY <1>12, <1>13

\* The jump: a body with all of its fields is long enough for it.
LEMMA JumpStep ==
    ASSUME BodyOK, ReaderOK, Own, OwnInv, Jump
    PROVE  OwnInv'
<1>1. next \in Nat \ {0} /\ next <= Len(Script) /\ pos \in Nat /\ Script[next].type = "jump"
    BY DEF Jump, Reading, ReaderOK
<1>2. next = 7 /\ body.name = "EvtInitializePool"
  <2>1. ~(next <= Leading)
    <3>1. \A k \in 1 .. Leading : Script[k].type # "jump"
        BY OwnFacts DEF Takes
    <3> QED
        BY <1>1, <3>1, OwnFacts
  <2>2. body.name = "EvtInitializePool" /\ Leading = 6 /\ Len(Script) = 21
      BY <1>1, <2>1, OwnFacts
  <2>3. ~(next \in 8 .. 21)
    <3>1. \A k \in 8 .. 21 : Script[k].type # "jump"
        BY <2>2, TrailingFacts DEF Lies
    <3> QED
        BY <1>1, <3>1
  <2> QED
      BY <1>1, <2>1, <2>2, <2>3
<1>3. /\ Leading = 6 /\ Len(Script) = 21 /\ Len(Layout) = 21
      /\ Place(8) + TRAILING = Place(22) /\ TrailingReadOffsets[1] = 0
      /\ Script[7].name = "-"
    BY <1>2, OwnFacts, TrailingFacts DEF jump
<1>4. pos = Place(7) /\ Place(7) \in Nat /\ Place(8) \in Nat /\ Place(7) <= Place(8) /\ Place(22) \in Nat
  <2>1. pos = Place(7)
      BY <1>2, <1>3 DEF OwnInv, StandsInPlace
  <2>2. /\ Place(7) = body.fields[7].from /\ body.fields[7].from \in Nat /\ body.fields[7].width \in Nat
        /\ Place(8) = Place(7) + body.fields[7].width
    <3>1. 7 \in 1 .. Len(Layout) /\ 7 + 1 = 8
        BY <1>3
    <3> QED
        BY <3>1, Measures
  <2>3. Place(22) \in Nat
    <3>1. Len(Layout) + 1 = 22
        BY <1>3
    <3> QED
        BY <3>1, Measures
  <2> QED
      BY <2>1, <2>2, <2>3
<1>5. body.length = Place(22) + body.trim /\ body.trim \in Int /\ body.length \in Nat
  <2>1. Len(Layout) + 1 = 22
      BY <1>3
  <2> QED
      BY <2>1 DEF BodyOK
<1>6. body' = body /\ parser' = parser /\ Script' = Script
    BY ScriptStays DEF Jump, Consume, Return
<1>7. Leading' = Leading /\ \A i : Place(i)' = Place(i)
    BY <1>6 DEF Leading, Layout, Place
<1>8. TRAILING = 109
    BY DEF TRAILING
<1>9. CASE body.length - pos < TRAILING
  <2>1. body.trim < 0
      BY <1>3, <1>4, <1>5, <1>8, <1>9
  <2>2. pos' = pos /\ next' = next /\ got' = got
      BY <1>9 DEF Jump, Return
  <2>3. StandsInPlace'
      BY <1>6, <1>7, <2>2 DEF StandsInPlace, OwnInv
  <2>4. \A name \in DOMAIN got' : InPlace(name)'
      BY <1>6, <2>2 DEF OwnInv, InPlace, AfterJump, Script
  <2> QED
      BY <1>6, <2>1, <2>3, <2>4 DEF OwnInv
<1>10. CASE ~(body.length - pos < TRAILING)
  <2>1. Consume(body.length - pos - TRAILING)
      BY <1>10 DEF Jump
  <2>2. pos + (body.length - pos - TRAILING) = body.length - TRAILING
        /\ body.length - TRAILING <= body.length
      BY <1>1, <1>5, <1>8
  <2>3. /\ pos' = body.length - TRAILING /\ next' = 8 /\ outcome' = outcome
        /\ got' = [name \in DOMAIN got \cup ({Script[next].name} \ {"-"}) |->
                      IF name \in DOMAIN got THEN got[name] ELSE <<pos, body.length - pos - TRAILING>>]
      BY <1>2, <2>1, <2>2 DEF Consume
  <2>4. StandsInPlace'
    <3>1. ~(next' <= Leading' + 1) /\ next' - 7 = 1
        BY <1>3, <1>7, <2>3
    <3>2. pos' = body.length - TRAILING + TrailingReadOffsets[1]
        BY <1>3, <1>5, <1>8, <2>3
    <3> QED
        BY <1>6, <3>1, <3>2 DEF StandsInPlace
  <2>5. \A name \in DOMAIN got' : InPlace(name)'
      BY <1>2, <1>3, <1>6, <2>3, GotNext DEF OwnInv
  <2>6. outcome' # "none"
      BY <2>3 DEF Jump, Reading
  <2> QED
      BY <2>4, <2>5, <2>6 DEF OwnInv
<1> QED
    BY <1>9, <1>10

\* The reads after the jump: none of them can fail, and what they take is in
\* its place when the body is just as long as its layout.
LEMMA TrailingRead ==
    ASSUME BodyOK, ReaderOK, Own, OwnInv, ReadField, ~(next <= Leading)
    PROVE  OwnInv'
<1>1. next \in Nat \ {0} /\ next <= Len(Script) /\ pos \in Nat /\ Script[next].type # "jump"
    BY DEF ReadField, Reading, ReaderOK
<1>2. body.name = "EvtInitializePool" /\ Leading = 6 /\ Len(Script) = 21 /\ Len(Layout) = 21
    BY <1>1, OwnFacts
<1>3. PICK k \in 8 .. 21 : k = next
  <2>1. Script[7].type = "jump"
      BY <1>2, TrailingFacts DEF jump
  <2> QED
      BY <1>1, <1>2, <2>1
<1>4. PICK from \in Nat, to \in Nat : /\ from = TrailingReadOffsets[k - 7] /\ to = TrailingReadOffsets[k - 6]
                                      /\ to = from + Bytes(Script[k].type) /\ to <= TRAILING
                                      /\ Script[k].type \notin Varying
    BY <1>2, TrailingFacts DEF Lies
<1>5. PICK width \in Nat : width = Bytes(Script[k].type) /\ Consume(width)
  <2>1. PICK w \in ReadWidths(Script[k].type) : Consume(w)
      BY <1>3 DEF ReadField
  <2>2. w = Bytes(Script[k].type)
      BY <1>4, <2>1 DEF ReadWidths, Varying
  <2> QED
      BY <2>1, <2>2, BytesPositive
<1>6. pos = body.length - TRAILING + from
  <2>1. ~(next <= Leading + 1)
      BY <1>2, <1>3
  <2> QED
      BY <1>3, <1>4, <2>1 DEF OwnInv, StandsInPlace
<1>7. TRAILING = 109 /\ body.length \in Nat
    BY DEF TRAILING, BodyOK
<1>8. pos + width = body.length - TRAILING + to /\ pos + width <= body.length
    BY <1>4, <1>5, <1>6, <1>7
<1>9. /\ pos' = body.length - TRAILING + to /\ next' = k + 1 /\ outcome' = outcome
      /\ got' = [name \in DOMAIN got \cup ({Script[next].name} \ {"-"}) |->
                    IF name \in DOMAIN got THEN got[name] ELSE <<pos, width>>]
    BY <1>3, <1>5, <1>8 DEF Consume
<1>10. body' = body /\ parser' = parser /\ Script' = Script
    BY <1>5, ScriptStays DEF Consume, Return
<1>11. Leading' = Leading
    BY <1>10 DEF Leading
<1>12. StandsInPlace'
  <2>1. ~(next' <= Leading' + 1) /\ next' - 7 = k - 6
      BY <1>2, <1>9, <1>11
  <2> QED
      BY <1>4, <1>9, <1>10, <2>1 DEF StandsInPlace
<1>13. ASSUME Script[next].name # "-"
       PROVE  \/ AfterJump(Script[next].name) /\ body.trim # 0
              \/ \E f \in Range(body.fields) : f.name = Script[next].name /\ f.from = pos /\ f.width = width
  <2>1. CASE body.trim # 0
    <3>1. 7 \in DOMAIN Script /\ k \in DOMAIN Script
      <4>1. DOMAIN Script = 1 .. 21
          BY <1>2, OwnFacts, EvtInitializePoolTakes DEF TakesUpTo
      <4> QED
          BY <4>1
    <3>2. Script[7].type = "jump" /\ 7 < k
        BY <1>2, TrailingFacts DEF jump
    <3>3. AfterJump(Script[next].name)
        BY <1>3, <3>1, <3>2 DEF AfterJump
    <3> QED
        BY <2>1, <3>3
  <2>2. CASE body.trim = 0
    <3>1. /\ Script[k].name = Layout[k].name
          /\ Script[k].type = Layout[k].type
          /\ body.fields[k].from = Place(22) - TRAILING + from
        BY <1>2, <1>3, <1>4, <1>13, TrailingFacts
    <3>2. body.length = Place(22)
      <4>1. Len(Layout) + 1 = 22
          BY <1>2
      <4>2. Place(22) \in Nat
          BY <4>1, Measures
      <4> QED
          BY <2>2, <4>1, <4>2 DEF BodyOK
    <3>3. /\ body.fields[k].name = Layout[k].name
          /\ Layout[k].type \notin Varying => body.fields[k].width = Bytes(Layout[k].type)
          /\ body.fields[k] \in Range(body.fields)
      <4>1. k \in 1 .. Len(Layout) /\ DOMAIN body.fields = 1 .. Len(Layout)
          BY <1>2, Measures
      <4> QED
          BY <4>1 DEF BodyOK, Laid, Range
    <3>4. body.fields[k].from = pos
        BY <1>6, <3>1, <3>2
    <3>5. body.fields[k].width = width
        BY <1>4, <1>5, <3>1, <3>3
    <3> QED
        BY <1>3, <3>1, <3>3, <3>4, <3>5
  <2> QED
      BY <2>1, <2>2
<1>14. \A name \in DOMAIN got' : InPlace(name)'
    BY <1>9, <1>10, <1>13, GotNext DEF OwnInv
<1>15. outcome' # "none"
    BY <1>9 DEF ReadField, Reading
<1> QED
    BY <1>12, <1>14, <1>15 DEF OwnInv

LEMMA OwnNext ==
    ASSUME BodyOK, ReaderOK, ReaderOK', Own, OwnInv, [DecodingNext]_decodingVars
    PROVE  OwnInv'
<1>1. CASE ReadField /\ next <= Leading
    BY <1>1, LeadingRead
<1>2. CASE ReadField /\ ~(next <= Leading)
    BY <1>2, TrailingRead
<1>3. CASE Jump
    BY <1>3, JumpStep
<1>4. CASE EndBody \/ UNCHANGED decodingVars
  <2>1. /\ body' = body /\ parser' = parser /\ pos' = pos /\ next' = next /\ got' = got
        /\ outcome' \in {"row", "unknown"} \/ outcome' = outcome
      BY <1>4 DEF EndBody, Return, decodingVars
  <2>2. Script' = Script
      BY <2>1, ScriptStays
  <2>3. Leading' = Leading /\ \A i : Place(i)' = Place(i)
      BY <2>1, <2>2 DEF Leading, Layout, Place
  <2>4. StandsInPlace'
      BY <2>1, <2>3 DEF StandsInPlace, OwnInv
  <2>5. \A name \in DOMAIN got' : InPlace(name)'
      BY <2>1 DEF OwnInv, InPlace, AfterJump, Script
  <2> QED
      BY <2>1, <2>4, <2>5 DEF OwnInv
<1> QED
    BY <1>1, <1>2, <1>3, <1>4 DEF DecodingNext

\* A reader whose reads are all of fixed widths stands where they take it,
\* whatever the body.
LEMMA FixedRead ==
    ASSUME ReaderOK, Len(Script) \in Nat, NEW offset, pos = offset[next], [DecodingNext]_decodingVars,
           \A k \in 1 .. Len(Script) : Lies(Script[k], offset[k], offset[k + 1])
    PROVE  pos' = offset[next']
<1>1. next \in Nat \ {0}
    BY DEF ReaderOK
<1>2. CASE ReadField
  <2>1. next <= Len(Script)
      BY <1>2 DEF ReadField, Reading
  <2>2. PICK k \in 1 .. Len(Script) : k = next
      BY <1>1, <2>1
  <2>3. /\ Script[k].type \notin Varying
        /\ offset[k + 1] = offset[k] + Bytes(Script[k].type)
      BY <2>2 DEF Lies
  <2>4. PICK width \in ReadWidths(Script[k].type) : Consume(width)
      BY <1>2, <2>2 DEF ReadField
  <2>5. width = Bytes(Script[k].type)
      BY <2>3, <2>4 DEF ReadWidths, Varying
  <2>6. (pos' = pos + width /\ next' = next + 1) \/ (pos' = pos /\ next' = next)
      BY <2>4 DEF Consume, Return
  <2> QED
      BY <2>2, <2>3, <2>5, <2>6
<1>3. CASE Jump
  <2>1. next <= Len(Script) /\ Script[next].type = "jump"
      BY <1>3 DEF Jump, Reading
  <2>2. next \in 1 .. Len(Script)
      BY <1>1, <2>1
  <2>3. Script[next].type # "jump"
      BY <2>2 DEF Lies
  <2> QED
      BY <2>1, <2>3
<1>4. CASE EndBody \/ UNCHANGED decodingVars
    BY <1>4 DEF EndBody, Return, decodingVars
<1> QED
    BY <1>2, <1>3, <1>4 DEF DecodingNext

LEMMA StrangeNext ==
    ASSUME ReaderOK, parser = body.program, Strange, StrangeInv, [DecodingNext]_decodingVars
    PROVE  StrangeInv'
<1>1. Script = PoolInitializedReads
    BY DEF Script, Strange, Reads
<1>2. Len(Script) = 9
  <2>1. Len(PoolInitializedReads) = 9
      BY DEF PoolInitializedReads
  <2> QED
      BY <1>1, <2>1
<1>3. \A k \in 1 .. Len(Script) : Lies(Script[k], StrangeOffsets[k], StrangeOffsets[k + 1])
    BY <1>1, <1>2, StrangeReadsLie
<1>4. pos' = StrangeOffsets[next']
    BY <1>2, <1>3, FixedRead DEF StrangeInv
<1> QED
    BY <1>4 DEF StrangeInv

\* The one name that two programs share.
LEMMA ForeignName ==
    ASSUME BodyOK, ReaderOK, parser # body.program
    PROVE  /\ body.name = "TradeEvent"
           /\ \/ parser = "pump" /\ body.program = "launchlab"
              \/ parser = "launchlab" /\ body.program = "pump"
    BY Names DEF BodyOK, ReaderOK

LEMMA PumpNext ==
    ASSUME BodyOK, ReaderOK, parser = "pump", body.program = "launchlab", PumpInv, [DecodingNext]_decodingVars
    PROVE  PumpInv'
<1>1. Script = PumpTradeReads /\ Len(Script) = 13
  <2>1. body.name = "TradeEvent"
      BY ForeignName
  <2>2. Script = PumpTradeReads
      BY <2>1 DEF Script, Reads
  <2> QED
      BY <2>2, PumpTradeTakes
<1>2. \A k \in 1 .. Len(Script) : Lies(Script[k], PumpTradeOffsets[k], PumpTradeOffsets[k + 1])
    BY <1>1, PumpTradeReadsLie
<1>3. pos' = PumpTradeOffsets[next']
    BY <1>1, <1>2, FixedRead DEF PumpInv
<1> QED
    BY <1>3 DEF PumpInv

\* No field of Pumpfun's TradeEvent is a pool_state: the registry is asked for
\* an address that is none.
LEMMA LaunchLabNext ==
    ASSUME BodyOK, ReaderOK, parser = "launchlab", body.program = "pump", outcome # "row",
           [DecodingNext]_decodingVars
    PROVE  outcome' # "row"
<1>1. body.name = "TradeEvent" /\ Layout = PumpLayouts.TradeEvent
  <2>1. body.name = "TradeEvent"
      BY ForeignName
  <2> QED
      BY <2>1 DEF Layout, Layouts
<1>2. \A k \in 1 .. 22 : PumpLayouts.TradeEvent[k].name # "pool_state"
  <2> DEFINE other(k) == PumpLayouts.TradeEvent[k].name # "pool_state"
  <2>1. /\ other(1) /\ other(2) /\ other(3) /\ other(4) /\ other(5) /\ other(6) /\ other(7) /\ other(8)
        /\ other(9) /\ other(10) /\ other(11) /\ other(12) /\ other(13) /\ other(14) /\ other(15)
        /\ other(16) /\ other(17) /\ other(18) /\ other(19) /\ other(20) /\ other(21) /\ other(22)
      BY DEF PumpLayouts, bool, u64, i64, pubkey, string
  <2> HIDE DEF other
  <2>2. \A k \in 1 .. 22 : other(k)
      BY <2>1
  <2> QED
      BY <2>2 DEF other
<1>3. \A f \in Range(body.fields) : f.name # "pool_state"
  <2>1. Len(Layout) = 22
      BY <1>1, PumpTradeTakes
  <2>2. \A k \in 1 .. 22 : body.fields[k].name = Layout[k].name
      BY <2>1 DEF BodyOK, Laid
  <2>3. \A f \in Range(body.fields) : \E k \in 1 .. 22 : f = body.fields[k]
      BY <2>1, Measures DEF Range
  <2> QED
      BY <1>1, <1>2, <2>2, <2>3, Zenon
<1>4. AsksRegistry(parser, body.name) /\ PoolField[parser][body.name] = "pool_state"
    BY <1>1 DEF AsksRegistry, PoolField
<1>5. ~IsPool
    BY <1>3, <1>4 DEF IsPool
<1>6. CASE ReadField
    BY <1>6 DEF ReadField, Consume, Return
<1>7. CASE Jump
    BY <1>7 DEF Jump, Consume, Return
<1>8. CASE EndBody
    BY <1>4, <1>5, <1>8 DEF EndBody, Return
<1>9. CASE UNCHANGED decodingVars
    BY <1>9 DEF decodingVars
<1> QED
    BY <1>6, <1>7, <1>8, <1>9 DEF DecodingNext

LEMMA DecodingInvNext == DecodingInv /\ [DecodingNext]_decodingVars => DecodingInv'
<1> SUFFICES ASSUME DecodingInv, [DecodingNext]_decodingVars PROVE DecodingInv'
    OBVIOUS
<1>1. body' = body /\ parser' = parser
    BY BodyStays
<1>2. BodyOK /\ ReaderOK
    BY DEF DecodingInv
<1>3. BodyOK'
    BY <1>1, <1>2 DEF BodyOK, Layout, Place
<1>4. ReaderOK'
    BY ReaderNext
<1>5. Own' => OwnInv'
  <2>1. Own' => Own
      BY <1>1 DEF Own, Strange
  <2> QED
      BY <1>2, <1>4, <2>1, OwnNext DEF DecodingInv
<1>6. (parser = body.program /\ Strange)' => StrangeInv'
  <2>1. (parser = body.program /\ Strange)' => parser = body.program /\ Strange
      BY <1>1 DEF Strange
  <2> QED
      BY <1>2, <2>1, StrangeNext DEF DecodingInv
<1>7. (parser = "pump" /\ body.program = "launchlab")' => PumpInv'
    BY <1>1, <1>2, PumpNext DEF DecodingInv
<1>8. (parser = "launchlab" /\ body.program = "pump")' => outcome' # "row"
    BY <1>1, <1>2, LaunchLabNext DEF DecodingInv
<1> QED
    BY <1>3, <1>4, <1>5, <1>6, <1>7, <1>8 DEF DecodingInv

LEMMA DecodingInvariant == DecodingSpec => []DecodingInv
<1>1. DecodingInv /\ [DecodingNext]_decodingVars => DecodingInv'
    BY DecodingInvNext
<1> QED
    BY <1>1, DecodingInvInit, PTL DEF DecodingSpec

-----------------------------------------------------------------------------
(* What follows *)

\* Whole bodies of the layouts, by their lengths.
LEMMA BodyLengths ==
    ASSUME BodyOK
    PROVE  /\ Strange => body.length = 212 + body.trim
           /\ body.program = "launchlab" /\ body.name = "TradeEvent" => body.length = 139 + body.trim
<1>1. ASSUME Strange
      PROVE  body.length = 212 + body.trim
  <2>1. Layout = WhirlpoolLayouts.PoolInitialized
      BY <1>1 DEF Layout, Strange, Layouts
  <2>2. Len(Layout) = 10
    <3>1. Len(WhirlpoolLayouts.PoolInitialized) = 10
        BY DEF WhirlpoolLayouts
    <3> QED
        BY <2>1, <3>1
  <2>3. PICK d \in Nat, n \in Nat \ {0} : d = 0 /\ n = 10
      OBVIOUS
  <2>4. LieAt(body.fields, d, PoolInitializedOffsets, n)
    <3>1. \A k \in 1 .. n : Lies(Layout[d + k], PoolInitializedOffsets[k], PoolInitializedOffsets[k + 1])
        BY <2>1, <2>3, PoolInitializedLies
    <3>2. d + n <= Len(Layout)
        BY <2>2, <2>3
    <3>3. Laid(body.fields, Layout)
        BY DEF BodyOK
    <3> QED
        BY <3>1, <3>2, <3>3, PlacesByOffset, Zenon
  <2>5. body.fields[10].from + body.fields[10].width
            = body.fields[1].from + PoolInitializedOffsets[11] - PoolInitializedOffsets[1]
    <3>1. d + 10 = 10 /\ d + 1 = 1 /\ 10 + 1 = 11 /\ 10 \in 1 .. n
        BY <2>3
    <3> QED
        BY <2>4, <3>1 DEF LieAt
  <2>6. PoolInitializedOffsets[1] = 0 /\ PoolInitializedOffsets[11] = 212
      BY DEF PoolInitializedOffsets
  <2>7. Place(11) = 212
    <3>1. body.fields[1].from = 0
        BY DEF BodyOK, Laid
    <3>2. Place(11) = body.fields[10].from + body.fields[10].width
        BY <2>2 DEF Place
    <3> QED
        BY <2>5, <2>6, <3>1, <3>2
  <2>8. Len(Layout) + 1 = 11
      BY <2>2
  <2> QED
      BY <2>7, <2>8 DEF BodyOK
<1>2. ASSUME body.program = "launchlab", body.name = "TradeEvent"
      PROVE  body.length = 139 + body.trim
  <2>1. Layout = LaunchLabLayouts.TradeEvent
      BY <1>2 DEF Layout, Layouts
  <2>2. Len(Layout) = 17
      BY <2>1, LaunchLabTradeTakes
  <2>3. PICK d \in Nat, n \in Nat \ {0} : d = 0 /\ n = 17
      OBVIOUS
  <2>4. LieAt(body.fields, d, LaunchLabTradeOffsets, n)
    <3>1. \A k \in 1 .. n : Lies(Layout[d + k], LaunchLabTradeOffsets[k], LaunchLabTradeOffsets[k + 1])
        BY <2>1, <2>3, LaunchLabTradeLies
    <3>2. d + n <= Len(Layout)
        BY <2>2, <2>3
    <3>3. Laid(body.fields, Layout)
        BY DEF BodyOK
    <3> QED
        BY <3>1, <3>2, <3>3, PlacesByOffset, Zenon
  <2>5. body.fields[17].from + body.fields[17].width
            = body.fields[1].from + LaunchLabTradeOffsets[18] - LaunchLabTradeOffsets[1]
    <3>1. d + 17 = 17 /\ d + 1 = 1 /\ 17 + 1 = 18 /\ 17 \in 1 .. n
        BY <2>3
    <3> QED
        BY <2>4, <3>1 DEF LieAt
  <2>6. LaunchLabTradeOffsets[1] = 0 /\ LaunchLabTradeOffsets[18] = 139
      BY DEF LaunchLabTradeOffsets
  <2>7. Place(18) = 139
    <3>1. body.fields[1].from = 0
        BY DEF BodyOK, Laid
    <3>2. Place(18) = body.fields[17].from + body.fields[17].width
        BY <2>2 DEF Place
    <3> QED
        BY <2>5, <2>6, <3>1, <3>2
  <2>8. Len(Layout) + 1 = 18
      BY <2>2
  <2> QED
      BY <2>7, <2>8 DEF BodyOK
<1> QED
    BY <1>1, <1>2

\* A PoolInitialized that is not 30 bytes too long is never a row.
LEMMA StrangeNeverRow ==
    ASSUME DecodingInv, outcome = "row", parser = body.program, Strange
    PROVE  ~(body.trim < 30)
<1>1. Script = PoolInitializedReads
    BY DEF Script, Strange, Reads
<1>2. Len(PoolInitializedReads) = 9
    BY DEF PoolInitializedReads
<1>3. next = 10 /\ pos <= body.length
    BY <1>1, <1>2 DEF DecodingInv, ReaderOK
<1>4. pos = StrangeOffsets[10]
    BY <1>3 DEF DecodingInv, StrangeInv
<1>5. StrangeOffsets[10] = 242
    BY DEF StrangeOffsets
<1>6. body.length = 212 + body.trim /\ body.trim \in Int
    BY BodyLengths DEF DecodingInv, BodyOK
<1> QED
    BY <1>3, <1>4, <1>5, <1>6

\* The program's record of a TradeEvent of Pumpfun is longer than that of
\* LaunchLab's by 30 bytes.
LEMMA ForeignInv == DecodingInv => ForeignNeverRow
<1> SUFFICES ASSUME DecodingInv, outcome = "row", body.trim < 30, parser # body.program
             PROVE  FALSE
    BY DEF ForeignNeverRow
<1>1. BodyOK /\ ReaderOK
    BY DEF DecodingInv
<1>2. parser = "pump" /\ body.program = "launchlab" /\ body.name = "TradeEvent"
    BY <1>1, ForeignName DEF DecodingInv
<1>3. Script = PumpTradeReads /\ Len(Script) = 13
  <2>1. Script = PumpTradeReads
      BY <1>2 DEF Script, Reads
  <2> QED
      BY <2>1, PumpTradeTakes
<1>4. next = 14 /\ pos <= body.length
    BY <1>1, <1>3 DEF ReaderOK
<1>5. pos = PumpTradeOffsets[14]
    BY <1>2, <1>4 DEF DecodingInv, PumpInv
<1>6. PumpTradeOffsets[14] = 169
    BY DEF PumpTradeOffsets
<1>7. body.length = 139 + body.trim /\ body.trim \in Int
    BY <1>1, <1>2, BodyLengths DEF BodyOK
<1> QED
    BY <1>4, <1>5, <1>6, <1>7

\* Every field of a row was read from the place and with the width that the
\* layout gives it, for strings of any length and bodies of any trim.
THEOREM RowsAligned == DecodingSpec => []AlignedOrNone
<1>1. DecodingInv => AlignedOrNone
    BY StrangeNeverRow DEF DecodingInv, AlignedOrNone, Own, OwnInv, InPlace
<1> QED
    BY <1>1, DecodingInvariant, PTL

\* A body is given up only when it is shorter than its layout.
THEOREM WholeBodiesParsed == DecodingSpec => []WholeBodyIsParsed
<1>1. DecodingInv => WholeBodyIsParsed
    BY DEF DecodingInv, WholeBodyIsParsed, Own, OwnInv
<1> QED
    BY <1>1, DecodingInvariant, PTL

\* The TradeEvent of another program, unless it has grown by 30 bytes or more,
\* is never a row.
THEOREM NoForeignRow == DecodingSpec => []ForeignNeverRow
    BY ForeignInv, DecodingInvariant, PTL

\* The reader stays within the body and its script.
THEOREM DecodingTypeCorrect == DecodingSpec => []DecodingTypeOK
<1>1. DecodingInv => DecodingTypeOK
  <2> SUFFICES ASSUME DecodingInv PROVE DecodingTypeOK
      OBVIOUS
  <2>1. ReaderOK /\ body.length \in Nat /\ Len(Script) \in Nat
      BY ScriptLengths DEF DecodingInv, BodyOK, ReaderOK, Script
  <2>2. /\ pos \in Nat /\ pos <= body.length
        /\ next \in Nat \ {0} /\ next <= Len(Script) + 1
      BY <2>1 DEF ReaderOK
  <2>3. pos \in 0 .. body.length
      BY <2>1, <2>2
  <2>4. next \in 1 .. Len(Script) + 1
      BY <2>1, <2>2
  <2> QED
      BY <2>1, <2>3, <2>4 DEF DecodingTypeOK, ReaderOK
<1> QED
    BY <1>1, DecodingInvariant, PTL
=============================================================================
