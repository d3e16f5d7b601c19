---------------------------- MODULE EntryDecoding ----------------------------
(***************************************************************************)
(* The way of one Pumpfun instruction from a shred to a row when the       *)
(* payload holds entries: the entry_decoder binary resolves the accounts   *)
(* of a transaction, EntryDecoder runs it and cleans what it prints, and   *)
(* the instruction parser picks accounts by their position.                *)
(*                                                                         *)
(* Accounts stand for themselves by the name that pumpidl.json gives to    *)
(* their position.  The binary knows the keys of the transaction itself;   *)
(* an account that comes from a lookup table is a text "lookup:...".       *)
(***************************************************************************)
EXTENDS Naturals, Sequences, FiniteSets

CONSTANTS
    MaxLookups,     \* bound: accounts from lookup tables
    Missing         \* numbers of accounts cut off at the end

ASSUME EntryAssumption == MaxLookups \in Nat /\ Missing \subseteq 0 .. 8

\* pumpidl.json: the first accounts of each instruction.
TradeAccounts == <<"global", "fee_recipient", "mint", "bonding_curve", "associated_bonding_curve",
                   "associated_user", "user", "system_program">>

AccountNames == [
    buy |-> TradeAccounts, buy_exact_sol_in |-> TradeAccounts, sell |-> TradeAccounts,
    create |-> <<"mint", "mint_authority", "bonding_curve", "associated_bonding_curve", "global",
                 "mpl_token_metadata", "metadata", "user">>,
    create_v2 |-> <<"mint", "mint_authority", "bonding_curve", "associated_bonding_curve", "global",
                    "user", "system_program", "token_program">>]

VARIABLES
    instruction,    \* its name
    sent,           \* the accounts of the instruction on the chain: names
    looked_up,      \* positions of accounts from a lookup table
    accounts,       \* what is known of them: [name, kind]
    stage,          \* sent, printed, cleaned, row, none
    picked          \* accounts in the row: mint, pool, signer

entryVars == <<instruction, sent, looked_up, accounts, stage, picked>>

NoRowYet == [mint |-> "", pool |-> "", signer |-> ""]

EntryInit ==
    /\ instruction \in DOMAIN AccountNames
    /\ \E n \in Missing : sent = SubSeq(AccountNames[instruction], 1, 8 - n)
    /\ looked_up \in {l \in SUBSET (DOMAIN sent) : Cardinality(l) <= MaxLookups}
    /\ accounts = <<>>
    /\ stage = "sent"
    /\ picked = NoRowYet

\* resolve_account_key_v0 and its counterpart for legacy messages.
Decode ==
    /\ stage = "sent"
    /\ accounts' = [i \in DOMAIN sent |->
                       [name |-> sent[i], kind |-> IF i \in looked_up THEN "lookup" ELSE "key"]]
    /\ stage' = "printed"
    /\ UNCHANGED <<instruction, sent, looked_up, picked>>

\* A timeout, an exit code, output that is no JSON list, or a transaction or
\* an instruction in it that is malformed, or whose program comes from a
\* lookup table: nothing is decoded.
DecodeFails ==
    /\ stage = "sent"
    /\ stage' = "none"
    /\ UNCHANGED <<instruction, sent, looked_up, accounts, picked>>

\* Mutant: accounts that are no text are left out, and the rest move up.
CleanedBySkipping(bad) == SelectSeq(accounts, LAMBDA a : a # accounts[CHOOSE i \in bad : TRUE])

\* A list with anything but texts in it is emptied.
Cleaned(bad) == <<>>

\* bad: a position whose account another version of the binary prints as no
\* text.
Clean(bad) ==
    /\ stage = "printed"
    /\ bad \subseteq DOMAIN accounts
    /\ accounts' = IF bad = {} THEN accounts ELSE Cleaned(bad)
    /\ stage' = "cleaned"
    /\ UNCHANGED <<instruction, sent, looked_up, picked>>

\* _account_at(accounts, idx), idx counted from 0; "" for None.
AccountAt(idx) ==
    IF idx + 1 \in DOMAIN accounts /\ accounts[idx + 1].kind = "key" THEN accounts[idx + 1].name ELSE ""

\* What try_parse takes from the accounts; the creator of a new mint is in
\* the data.
Taken ==
    IF instruction \in {"create", "create_v2"}
    THEN [mint |-> AccountAt(0), pool |-> AccountAt(2), signer |-> ""]
    ELSE [mint |-> AccountAt(2), pool |-> AccountAt(3), signer |-> AccountAt(6)]

Parse ==
    /\ stage = "cleaned"
    /\ IF Taken.mint # "" /\ Taken.pool # ""
       THEN stage' = "row" /\ picked' = Taken
       ELSE stage' = "none" /\ UNCHANGED picked
    /\ UNCHANGED <<instruction, sent, looked_up, accounts>>

EntryNext ==
    \/ Decode \/ DecodeFails
    \/ \E bad \in {{}} \cup {{i} : i \in 1 .. 8} : Clean(bad)
    \/ Parse

EntrySpec == EntryInit /\ [][EntryNext]_entryVars
-----------------------------------------------------------------------------
\* Positions survive the way through two processes: a row names a mint, a
\* bonding curve and a trader that the transaction itself calls by these
\* names, or no row is made.  An account that only a lookup table knows, a
\* list cut short and one with a hole in it never move a neighbour into its
\* place.
AccountsAsNamed ==
    stage = "row" =>
        /\ picked.mint = "mint"
        /\ picked.pool = "bonding_curve"
        /\ picked.signer \in {"user", ""}
=============================================================================
