----------------------------- MODULE SolanaFeed -----------------------------
(***************************************************************************)
(* What the two Geyser subscribers make of one transaction of the stream:  *)
(* the wallet-scoring ingester a summary (who paid whom how much through   *)
(* which program), the orderflow parser the swaps in it.  An account is    *)
(* its index in the transaction's key list; the programs have indexes of   *)
(* their own.  The payload of an instruction is a record of the fields     *)
(* that the decoders look at: its discriminator tag, its size, and the two *)
(* numbers and two flags behind the tag.                                   *)
(***************************************************************************)
EXTENDS Integers, Sequences, FiniteSets, SequencesExt

CONSTANTS Updates   \* the transactions the stream may bring: keys and instructions

VARIABLE feedCase   \* a transaction and what both projects make of it

Programs == {"system", "token", "token2022", "ata", "raydium", "cpmm", "orca", "jupiter", "meteora",
             "budget", "memo", "other"}

-----------------------------------------------------------------------------
(* wallet-scoring: programs.go and parser.go. *)

IsSmartContract(program) == program \notin {"system", "token", "token2022", "ata", "memo", "budget"}
IsDEX(program)           == program \in {"raydium", "cpmm", "orca", "jupiter", "meteora"}

ClassifySystem(data) ==
  IF data.size < 4 THEN "unknown"
  ELSE CASE data.tag = 0 -> "create_account" [] data.tag = 2 -> "transfer"
         [] data.tag = 8 -> "close_account"  [] OTHER -> "unknown"

ClassifyToken(data) ==
  IF data.size = 0 THEN "unknown"
  ELSE CASE data.tag \in {3, 12} -> "transfer" [] data.tag = 7 -> "mint" [] data.tag = 8 -> "burn"
         [] data.tag = 9 -> "close_account" [] data.tag = 1 -> "create_account" [] OTHER -> "unknown"

ClassifyInstruction(program, data) ==
  CASE program = "budget" -> "compute" [] program = "memo" -> "memo"
    [] program = "system" -> ClassifySystem(data)
    [] program \in {"token", "token2022"} -> ClassifyToken(data)
    [] IsDEX(program) -> "swap" [] OTHER -> "unknown"

\* decodeTransferAmount: nine bytes are asked for and twelve are read.
IsTransfer(i) ==
  /\ i.data.size >= 9
  /\ \/ i.program = "system" /\ i.data.tag = 2
     \/ i.program \in {"token", "token2022"} /\ i.data.tag = 3

ReadsPastEnd(i) == IsTransfer(i) /\ i.program = "system" /\ i.data.size < 10

Summarised(summary, i) ==
  [summary EXCEPT !.program = i.program,
                  !.sender = IF Len(i.accounts) > 0 THEN i.accounts[1] ELSE @,
                  !.receiver = IF Len(i.accounts) > 1 THEN i.accounts[2] ELSE @]

\* The first instruction that is no budget or memo, then over it the first transfer.
FillSummary(instrs) ==
  LET plain    == SelectSeq(instrs, LAMBDA i : i.program \notin {"budget", "memo"})
      transfer == SelectSeq(instrs, IsTransfer)
      blank    == [program |-> "", sender |-> -1, receiver |-> -1, amount |-> 0, raw |-> 0, swapKind |-> ""]
      first    == IF plain = <<>> THEN blank ELSE [Summarised(blank, plain[1]) EXCEPT !.raw = plain[1].data.x]
  IN  IF transfer = <<>> THEN first
      ELSE [Summarised(first, transfer[1]) EXCEPT !.amount = transfer[1].data.x]

-----------------------------------------------------------------------------
(* The swap decoders.  Raydium's payload has 17 bytes, a Whirlpool swap 42, *)
(* a Jupiter route 27 and 40 for every hop.                                 *)

NoSwap == [decoded |-> FALSE]
Swap(i, user, tokenIn, tokenOut, amountIn, amountOut) ==
  [decoded |-> TRUE, user |-> i.accounts[user + 1], tokenIn |-> i.accounts[tokenIn + 1],
   tokenOut |-> i.accounts[tokenOut + 1], amountIn |-> amountIn, amountOut |-> amountOut]

WalletRaydium(i) ==
  CASE i.data.size < 17 \/ Len(i.accounts) < 17 -> NoSwap
    [] i.data.tag = 9  -> Swap(i, 16, 14, 15, i.data.x, i.data.y)
    [] i.data.tag = 11 -> Swap(i, 16, 14, 15, i.data.y, i.data.x)
    [] OTHER -> NoSwap

WalletOrca(i) ==
  LET aToB == i.data.tag = "swap" /\ i.data.aToB
  IN  IF \/ Len(i.accounts) < 11 \/ i.data.tag \notin {"swap", "swapV2"}
         \/ i.data.size < (IF i.data.tag = "swap" THEN 42 ELSE 24)
      THEN NoSwap
      ELSE Swap(i, 0, IF aToB THEN 2 ELSE 4, IF aToB THEN 4 ELSE 2, i.data.x, i.data.y)

WalletJupiter(i) ==
  IF \/ i.data.tag \notin {"route", "shared"} \/ Len(i.accounts) < 13
     \/ i.data.size < 27 \/ i.data.size < 27 + 40 * i.data.hops
  THEN NoSwap ELSE Swap(i, 1, 3, 6, i.data.x, i.data.y)

WalletDecodeSwap(i) ==
  CASE i.program = "raydium" -> WalletRaydium(i) [] i.program = "orca" -> WalletOrca(i)
    [] i.program = "jupiter" -> WalletJupiter(i) [] OTHER -> NoSwap

\* DecodeAllSwaps: of all swaps only one in the very first instruction is kept.
WithSwapKind(summary, instrs) ==
  IF instrs # <<>> /\ IsDEX(instrs[1].program) /\ WalletDecodeSwap(instrs[1]).decoded
  THEN [summary EXCEPT !.swapKind = instrs[1].program] ELSE summary

FlowIsDEX(program) == program \in {"raydium", "cpmm", "orca", "jupiter"}

Directed(swap, buy) == IF swap.decoded THEN [swap EXCEPT !.user = <<@, IF buy THEN "buy" ELSE "sell">>] ELSE swap

FlowRaydium(i) ==
  IF i.data.size < 17 \/ Len(i.accounts) < 18 \/ i.data.tag \notin {9, 11} THEN NoSwap
  ELSE Directed(Swap(i, 17, 15, 16, i.data.x, i.data.y), i.accounts[16] # i.accounts[6])

FlowOrca(i) ==
  IF Len(i.accounts) < 11 \/ i.data.tag \notin {"swap", "swapV2"} \/ i.data.size < 42 THEN NoSwap
  ELSE Directed(Swap(i, 0, IF i.data.aToB THEN 4 ELSE 5, IF i.data.aToB THEN 5 ELSE 4,
                     IF i.data.exactIn THEN i.data.x ELSE i.data.y,
                     IF i.data.exactIn THEN i.data.y ELSE i.data.x), i.data.aToB)

FlowJupiter(i) ==
  IF \/ Len(i.accounts) < 7 \/ i.data.tag \notin {"route", "shared"}
     \/ i.data.size < 25 \/ i.data.size < 25 + 40 * i.data.hops
  THEN NoSwap ELSE Directed(Swap(i, 1, 2, 6, i.data.x, i.data.y), TRUE)

FlowDecodeSwap(i) ==
  CASE i.program = "raydium" -> FlowRaydium(i) [] i.program = "orca" -> FlowOrca(i)
    [] i.program = "jupiter" -> FlowJupiter(i) [] OTHER -> NoSwap

TryDecodeSwaps(instrs) ==
  LET swaps == SelectSeq(instrs, LAMBDA i : FlowIsDEX(i.program) /\ FlowDecodeSwap(i).decoded)
  IN  [n \in DOMAIN swaps |-> FlowDecodeSwap(swaps[n])]

-----------------------------------------------------------------------------
(* The conversions of an update. *)

OutOfRange(u) == \E n \in DOMAIN u.instructions : \E a \in ToSet(u.instructions[n].accounts) : a >= u.keys

TransactionFromUpdate(u) ==
  CASE OutOfRange(u) -> [outcome |-> "error"]
    [] SelectSeq(u.instructions, IsTransfer) # <<>>
         /\ ReadsPastEnd(SelectSeq(u.instructions, IsTransfer)[1]) -> [outcome |-> "panic"]
    [] OTHER -> [outcome |-> "sent", summary |-> WithSwapKind(FillSummary(u.instructions), u.instructions),
                 kinds |-> [n \in DOMAIN u.instructions |->
                              ClassifyInstruction(u.instructions[n].program, u.instructions[n].data)]]

\* bundleFromUpdate, and runStream, which sends a bundle with swaps only.
BundleFromUpdate(u) ==
  IF OutOfRange(u) THEN [outcome |-> "error"]
  ELSE LET swaps == TryDecodeSwaps(u.instructions)
       IN  [outcome |-> IF swaps = <<>> THEN "skipped" ELSE "sent", swaps |-> swaps]

NotReceived == [outcome |-> "none"]
FeedInit == feedCase \in [update : Updates, wallet : {NotReceived}, flow : {NotReceived}]

WalletReceives == /\ feedCase.wallet = NotReceived
                  /\ feedCase' = [feedCase EXCEPT !.wallet = TransactionFromUpdate(feedCase.update)]
FlowReceives == /\ feedCase.flow = NotReceived
                /\ feedCase' = [feedCase EXCEPT !.flow = BundleFromUpdate(feedCase.update)]

FeedNext == WalletReceives \/ FlowReceives
FeedSpec == FeedInit /\ [][FeedNext]_feedCase

-----------------------------------------------------------------------------
(* Properties. *)

\* The amount of a summary is that of an instruction that is classified as a
\* transfer, and its program, sender and receiver are that instruction's, even
\* where another instruction came first (fillSummary, parser.go); the parties
\* are mixed only when the transfer names fewer than two accounts.
AmountHasItsParties ==
  LET s == feedCase.wallet.summary IN
  feedCase.wallet.outcome = "sent" /\ s.amount > 0 =>
    \E n \in DOMAIN feedCase.update.instructions :
      LET i == feedCase.update.instructions[n]
      IN  /\ feedCase.wallet.kinds[n] = "transfer" /\ i.data.x = s.amount /\ i.program = s.program
          /\ Len(i.accounts) > 1 => s.sender = i.accounts[1] /\ s.receiver = i.accounts[2]

\* The two projects read the same amounts out of every swap that both decode
\* and that states what it puts in; they differ on those that state what they
\* take out, where one reads the numbers the other way round (swap_decoder.go).
DecodersAgree ==
  \A i \in ToSet(feedCase.update.instructions) :
    LET w == WalletDecodeSwap(i)
        f == FlowDecodeSwap(i)
    IN  w.decoded /\ f.decoded =>
          (<<w.amountIn, w.amountOut>> = <<f.amountIn, f.amountOut>>
             <=> (\/ i.program = "jupiter" \/ i.data.x = i.data.y
                  \/ i.program = "raydium" /\ i.data.tag = 9
                  \/ i.program = "orca" /\ i.data.exactIn))

\* A transaction reaches the order flow with all the swaps that its decoder
\* knows, in their order, and the wallets with the same first swap or none.
SwapsKept ==
  /\ feedCase.flow.outcome = "sent" =>
       /\ feedCase.flow.swaps # <<>>
       /\ \A i \in ToSet(feedCase.update.instructions) :
            FlowDecodeSwap(i).decoded => FlowDecodeSwap(i) \in ToSet(feedCase.flow.swaps)
  /\ feedCase.wallet.outcome = "sent" /\ feedCase.wallet.summary.swapKind # "" =>
       feedCase.wallet.kinds[1] = "swap"

FeedSound == AmountHasItsParties /\ DecodersAgree /\ SwapsKept
=============================================================================
