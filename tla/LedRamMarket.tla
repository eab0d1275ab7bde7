---------------------------- MODULE LedRamMarket ----------------------------
(***************************************************************************)
(* The RAM market of led.system: a Bancor connector between bytes (base)   *)
(* and core tokens (quote), from which buyram and buyrambytes buy and to   *)
(* which sellram sells, and the supply that setram and the per-block rate  *)
(* add to it.                                                              *)
(*                                                                         *)
(* The conversions of the code truncate quotients of doubles.  A product   *)
(* that a double cannot hold is off by its last digits, either way, so a   *)
(* conversion yields one of a few numbers.                                 *)
(*                                                                         *)
(* led.ram holds total_ram_stake and gets and pays what changes it.        *)
(***************************************************************************)
EXTENDS Integers, FiniteSets, Functions

CONSTANTS Accounts,      \* the accounts that trade
          InitialRam,    \* max_ram_size at init
          InitialQuote,  \* a thousandth of the core supply at init
          Genesis,       \* the liquid balance of each account at the start
          Word,          \* 2^32 in the code: new_ram is computed in a uint32_t
          Precision,     \* 2^50 in the code: what three roundings of a double leave exact
          MaxRam,        \* bound: the RAM there ever is
          Rates,         \* bound: the rates setramrate is called with
          MaxBlocks      \* bound: blocks between two calls that use the market

ASSUME MarketAssumption ==
  /\ IsFiniteSet(Accounts)
  /\ InitialRam \in Nat /\ InitialRam > 0
  /\ InitialQuote \in Nat /\ InitialQuote > 0
  /\ Genesis \in [Accounts -> Nat]
  /\ Word \in Nat /\ Word > 0
  /\ Precision \in Nat /\ Precision > 0
  /\ MaxRam \in Nat /\ Rates \subseteq Nat /\ MaxBlocks \in Nat

VARIABLES
  balance,                   \* liquid core tokens of each account
  ram_bytes,                 \* userres: ram_bytes
  base,                      \* rammarket: base.balance
  quote,                     \* rammarket: quote.balance
  max_ram_size,              \* global
  total_ram_bytes_reserved,  \* global
  total_ram_stake,           \* global
  new_ram_per_block,         \* global
  blocks,                    \* blocks since last_ram_increase
  traded                     \* history: the products in * out_reserve of the trades

vars == <<balance, ram_bytes, base, quote, max_ram_size, total_ram_bytes_reserved,
          total_ram_stake, new_ram_per_block, blocks, traded>>

Init ==
  /\ balance = Genesis
  /\ ram_bytes = [a \in Accounts |-> 0]
  /\ base = InitialRam
  /\ quote = InitialQuote
  /\ max_ram_size = InitialRam
  /\ total_ram_bytes_reserved = 0 /\ total_ram_stake = 0
  /\ new_ram_per_block = 0 /\ blocks = 0 /\ traded = 0

-----------------------------------------------------------------------------
\* What a quotient of doubles may be truncated to: the product a is rounded and
\* then its quotient by b, each by less than half of its last digit.
Quotients(a, b) == (a - a \div Precision) \div b .. (a + a \div Precision) \div b

\* slip: the market's loss is rounded up
OutputsUp(in_reserve, out_reserve, in) ==
  {n + 1 : n \in Quotients(in * out_reserve, in_reserve + in)}

\* get_bancor_output: what may come out for in.  It is not more than the reserve,
\* from which doubles can tell what is left of it.
Outputs(in_reserve, out_reserve, in) ==
  {n \in Quotients(in * out_reserve, in_reserve + in) : n <= out_reserve}

\* get_bancor_input: what must go in for out, which is less than the reserve.
Inputs(out_reserve, in_reserve, out) == Quotients(in_reserve * out, out_reserve - out)

\* Half a percent, rounded up.
Fee(amount) == (amount + 199) \div 200

\* update_ram_supply, the first thing the market's handlers do.
NewRam == (blocks * new_ram_per_block) % Word

\* slip: the new bytes are not put on sale
UpdateRamSupplyUnsold(sold) ==
  /\ max_ram_size' = max_ram_size + NewRam
  /\ base' = base - sold
  /\ blocks' = 0

UpdateRamSupply(sold) ==
  /\ max_ram_size' = max_ram_size + NewRam
  /\ base' = base + NewRam - sold
  /\ blocks' = 0

\* slip: a row that is there is overwritten
AddBytesOver(account, bytes) == ram_bytes' = [ram_bytes EXCEPT ![account] = bytes]
AddBytes(account, bytes) == ram_bytes' = [ram_bytes EXCEPT ![account] = @ + bytes]

BuyRam(payer, receiver, quant) ==
  LET after == quant - Fee(quant)
  IN  /\ quant > 0
      /\ after > 0         \* a transfer of nothing aborts
      /\ balance[payer] >= quant
      /\ \E bytes \in Outputs(quote, base + NewRam, after) :
           /\ bytes > 0
           /\ UpdateRamSupply(bytes)
           /\ total_ram_bytes_reserved' = total_ram_bytes_reserved + bytes
           /\ AddBytes(receiver, bytes)
      /\ quote' = quote + after
      /\ balance' = [balance EXCEPT ![payer] = @ - quant]
      /\ total_ram_stake' = total_ram_stake + after
      /\ traded' = traded + after * (base + NewRam)
      /\ UNCHANGED new_ram_per_block

\* The price is that of the market before update_ram_supply, which buyram calls;
\* more bytes than there are cost 0 or nothing finite.
BuyRamBytes(payer, receiver, bytes) ==
  /\ bytes < base
  /\ \E cost \in Inputs(base, quote, bytes) :
       \E quant \in Quotients(cost * 1000, 995) : BuyRam(payer, receiver, quant)

MaySell(account, bytes) == bytes > 0 /\ ram_bytes[account] >= bytes

SellRam(account, bytes) ==
  /\ MaySell(account, bytes)
  /\ UpdateRamSupply(- bytes)
  /\ \E tokens \in Outputs(base + NewRam, quote, bytes) :
       /\ tokens > 1
       /\ total_ram_stake >= tokens
       /\ quote' = quote - tokens
       /\ total_ram_stake' = total_ram_stake - tokens
       /\ balance' = [balance EXCEPT ![account] = @ + tokens - Fee(tokens)]
  /\ total_ram_bytes_reserved' = total_ram_bytes_reserved - bytes
  /\ AddBytes(account, - bytes)
  /\ traded' = traded + bytes * quote
  /\ UNCHANGED new_ram_per_block

\* setram leaves the blocks since the last increase to be accounted for later.
SetRam(size) ==
  /\ max_ram_size < size
  /\ size > total_ram_bytes_reserved
  /\ base' = base + size - max_ram_size
  /\ max_ram_size' = size
  /\ UNCHANGED <<balance, ram_bytes, quote, total_ram_bytes_reserved, total_ram_stake,
                 new_ram_per_block, blocks, traded>>

SetRamRate(rate) ==
  /\ UpdateRamSupply(0)
  /\ new_ram_per_block' = rate
  /\ UNCHANGED <<balance, ram_bytes, quote, total_ram_bytes_reserved, total_ram_stake, traded>>

\* The chain's next block.
Block ==
  /\ blocks < MaxBlocks
  /\ blocks' = blocks + 1
  /\ max_ram_size + blocks' * new_ram_per_block <= MaxRam   \* bound
  /\ UNCHANGED <<balance, ram_bytes, base, quote, max_ram_size, total_ram_bytes_reserved,
                 total_ram_stake, new_ram_per_block, traded>>

\* What the market may be asked for: any amount an account has, any number of
\* bytes there are.
Next ==
  \/ \E payer, receiver \in Accounts :
       \/ \E quant \in 1 .. balance[payer] : BuyRam(payer, receiver, quant)
       \/ \E bytes \in 1 .. base - 1 : BuyRamBytes(payer, receiver, bytes)
  \/ \E account \in Accounts : \E bytes \in 1 .. max_ram_size : SellRam(account, bytes)
  \/ \E size \in 1 .. MaxRam : SetRam(size)
  \/ \E rate \in Rates : SetRamRate(rate)
  \/ Block

Spec == Init /\ [][Next]_vars

-----------------------------------------------------------------------------
(* Every amount is a natural number, and the market never runs out of      *)
(* tokens.                                                                 *)
TypeOK ==
  /\ balance \in [Accounts -> Nat]
  /\ ram_bytes \in [Accounts -> Nat]
  /\ base \in Nat
  /\ quote \in Nat /\ quote > 0
  /\ max_ram_size \in Nat
  /\ total_ram_bytes_reserved \in Nat
  /\ total_ram_stake \in Nat
  /\ new_ram_per_block \in Nat
  /\ blocks \in 0 .. MaxBlocks
  /\ traded \in Nat

(* The bytes reserved are the bytes the accounts have bought and not sold. *)
ReservedIsBought == total_ram_bytes_reserved = SumFunctionOnSet(ram_bytes, Accounts)

(* The market sells the RAM that is not reserved and holds, over what it   *)
(* started with, the tokens paid for what is: connector and globals agree  *)
(* however sales, setram and update_ram_supply interleave.                 *)
MarketIsBooked ==
  /\ base = max_ram_size - total_ram_bytes_reserved
  /\ quote = InitialQuote + total_ram_stake

(* "this shouldn't happen": no sale an account has the bytes for asks for  *)
(* more tokens than total_ram_stake, which buys at other prices, with      *)
(* other rounding and before the supply grew have added up to.  It holds   *)
(* while all that was ever traded, and this sale, is less than what        *)
(* doubles tell apart: Precision times the bytes there would be on sale.   *)
StakeCoversSale ==
  \A a \in Accounts : \A bytes \in 1 .. ram_bytes[a] :
    traded + bytes * quote < Precision * (base + NewRam + bytes) =>
      \A tokens \in Outputs(base + NewRam, quote, bytes) : tokens <= total_ram_stake

(* A trade may be rounded in the trader's favour, but only in the last     *)
(* digits of a double: the product of the reserves loses at most one part  *)
(* in Precision of the product the trade was converted with, and no step   *)
(* but a trade ever lowers it.                                             *)
NeverBelowCurve ==
  [][Precision * (base' * quote') + (traded' - traded) >= Precision * (base * quote)]_vars

=============================================================================
