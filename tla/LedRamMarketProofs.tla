------------------------- MODULE LedRamMarketProofs -------------------------
(***************************************************************************)
(* The RAM market is solvent for any reserves, rates and trades.  The      *)
(* argument is the curve of the market: a conversion lowers the product of *)
(* the reserves at most by what a double cannot hold, which traded adds    *)
(* up, so that base * quote stays as much at InitialQuote * max_ram_size.  *)
(* A sale leaves at most max_ram_size bytes in the market, and hence at    *)
(* least InitialQuote tokens while traded is small.                        *)
(***************************************************************************)
EXTENDS LedRamMarket, SumTheorems, TLAPS

\* A quotient is the largest number of its kind.
LEMMA Quotient ==
  ASSUME NEW a \in Nat, NEW b \in Nat, b > 0
  PROVE  /\ a \div b \in Nat
         /\ b * (a \div b) <= a
BY SMT

LEMMA Remainder ==
  ASSUME NEW a \in Nat, NEW b \in Nat, b > 0
  PROVE  a % b \in Nat
BY SMT

\* A product is not larger than one of larger factors.
LEMMA ProductMonotone ==
  ASSUME NEW a \in Nat, NEW b \in Nat, NEW c \in Nat, a <= b
  PROVE  a * c <= b * c
BY SMT

LEMMA ProductCancel ==
  ASSUME NEW a \in Int, NEW b \in Int, NEW c \in Nat, c > 0, a * c <= b * c
  PROVE  a <= b
BY SMT

-----------------------------------------------------------------------------
\* A quotient of doubles is a natural number, and larger than the exact one at most
\* by one part in Precision.
LEMMA QuotientOfDoubles ==
  ASSUME NEW a \in Nat, NEW b \in Nat, b > 0, NEW n \in Quotients(a, b)
  PROVE  n \in Nat /\ Precision * (b * n) <= Precision * a + a
<1> DEFINE p == Precision
           d == a \div Precision
<1>1. p \in Nat /\ p > 0 /\ d \in Nat /\ p * d <= a
  BY Quotient, MarketAssumption
<1>2. n \in (a - d) \div b .. (a + d) \div b
  BY DEF Quotients
<1> HIDE DEF p, d
<1>3. d <= a
  <2>1. d * 1 <= d * p
    BY <1>1, ProductMonotone
  <2> QED
    BY <1>1, <2>1
<1>4. /\ (a - d) \div b \in Nat /\ (a + d) \div b \in Nat
      /\ b * ((a + d) \div b) <= a + d
  <2>1. a - d \in Nat /\ a + d \in Nat
    BY <1>1, <1>3
  <2> QED
    BY <2>1, Quotient
<1>5. n \in Nat /\ n <= (a + d) \div b
  BY <1>2, <1>4
<1>6. b * n <= a + d
  <2>1. n * b <= ((a + d) \div b) * b
    BY <1>4, <1>5, ProductMonotone
  <2> QED
    BY <1>1, <1>4, <1>5, <2>1
<1>7. (b * n) * p <= (a + d) * p
  BY <1>1, <1>5, <1>6, ProductMonotone
<1>8. (a + d) * p <= p * a + a
  BY <1>1
<1>9. p * (b * n) <= p * a + a
  BY <1>1, <1>5, <1>7, <1>8
<1> QED
  BY <1>5, <1>9 DEF p

\* A conversion takes no more than the reserve, and lowers the product of the
\* reserves at most by one part in Precision of in * o.
LEMMA OutputOnCurve ==
  ASSUME NEW r \in Nat, NEW o \in Nat, NEW in \in Nat, r + in > 0,
         NEW n \in Outputs(r, o, in)
  PROVE  /\ n \in Nat /\ n <= o
         /\ Precision * ((r + in) * (o - n)) + in * o >= Precision * (r * o)
<1> DEFINE p == Precision
<1>1. in * o \in Nat /\ r + in \in Nat /\ p \in Nat
  BY MarketAssumption
<1>2. n \in Quotients(in * o, r + in) /\ n <= o
  BY DEF Outputs
<1>3. n \in Nat /\ p * ((r + in) * n) <= p * (in * o) + in * o
  BY <1>1, <1>2, QuotientOfDoubles
<1> HIDE DEF p
<1>4. (r + in) * (o - n) = r * o + in * o - (r + in) * n
  BY <1>3
<1>5. p * ((r + in) * (o - n)) = p * (r * o) + p * (in * o) - p * ((r + in) * n)
  <2> DEFINE x == r * o
             y == in * o
             z == (r + in) * n
  <2>1. x \in Int /\ y \in Int /\ z \in Int
    BY <1>3
  <2> HIDE DEF x, y, z
  <2>2. p * (x + y - z) = p * x + p * y - p * z
    BY <1>1, <2>1
  <2> QED
    BY <1>4, <2>2 DEF x, y, z
<1>6. p * ((r + in) * (o - n)) + in * o >= p * (r * o)
  <2>1. /\ p * (r * o) \in Int /\ p * (in * o) \in Int /\ p * ((r + in) * n) \in Int
    BY <1>1, <1>3
  <2> QED
    BY <1>1, <1>3, <1>5, <2>1
<1> QED
  BY <1>2, <1>3, <1>6 DEF p

\* What TypeOK says of amounts alone.
LEMMA FeeBelow ==
  ASSUME NEW x \in Nat, x > 0
  PROVE  Fee(x) \in Nat /\ Fee(x) <= x
BY DEF Fee

LEMMA NewRamNatural == TypeOK => NewRam \in Nat
<1> SUFFICES ASSUME TypeOK PROVE NewRam \in Nat
  OBVIOUS
<1>1. blocks * new_ram_per_block \in Nat
  BY MarketAssumption DEF TypeOK
<1> QED
  BY <1>1, Remainder, MarketAssumption DEF NewRam

-----------------------------------------------------------------------------
Curve == Precision * (base * quote) + traded >= Precision * (InitialQuote * max_ram_size)

\* What NeverBelowCurve says of a step.
OnCurve == Precision * (base' * quote') + (traded' - traded) >= Precision * (base * quote)

IInv == TypeOK /\ ReservedIsBought /\ MarketIsBooked /\ Curve

LEMMA InitInv == Init => IInv
<1> SUFFICES ASSUME Init PROVE IInv
  OBVIOUS
<1>1. TypeOK
  BY MarketAssumption DEF Init, TypeOK
<1>2. SumFunctionOnSet(ram_bytes, Accounts) = 0
  BY SumZero, MarketAssumption DEF Init
<1>3. MarketIsBooked /\ Curve
  BY MarketAssumption DEF Init, MarketIsBooked, Curve
<1> QED
  BY <1>1, <1>2, <1>3 DEF IInv, ReservedIsBought, Init

\* The sum of ram_bytes follows a change of one account's.
LEMMA BytesFollow ==
  ASSUME TypeOK, TypeOK', ReservedIsBought, NEW a \in Accounts, NEW n \in Int,
         AddBytes(a, n), total_ram_bytes_reserved' = total_ram_bytes_reserved + n
  PROVE  ReservedIsBought'
<1>1. \A x \in Accounts : ram_bytes[x] \in Int /\ ram_bytes'[x] \in Int
  BY DEF TypeOK
<1>2. \A x \in Accounts \ {a} : ram_bytes'[x] = ram_bytes[x]
  BY DEF TypeOK, AddBytes
<1>3. ram_bytes'[a] = ram_bytes[a] + n
  BY DEF TypeOK, AddBytes
<1>4. SumFunctionOnSet(ram_bytes', Accounts)
        = SumFunctionOnSet(ram_bytes, Accounts) - ram_bytes[a] + ram_bytes'[a]
  BY <1>1, <1>2, SumUpdate, MarketAssumption
<1>5. SumFunctionOnSet(ram_bytes, Accounts) \in Int
  BY <1>1, SumType, MarketAssumption
<1> QED
  BY <1>1, <1>3, <1>4, <1>5 DEF ReservedIsBought

LEMMA BytesReserved ==
  ASSUME IInv, NEW a \in Accounts
  PROVE  ram_bytes[a] <= total_ram_bytes_reserved
<1>1. \A x \in Accounts : ram_bytes[x] \in Nat
  BY DEF IInv, TypeOK
<1>2. ram_bytes[a] <= SumFunctionOnSet(ram_bytes, Accounts)
  BY <1>1, SumBoundsTerm, MarketAssumption
<1> QED
  BY <1>2 DEF IInv, ReservedIsBought

-----------------------------------------------------------------------------
\* Products by Precision are ordered as their factors are.
LEMMA ByPrecision ==
  ASSUME NEW x \in Int, NEW y \in Int
  PROVE  /\ Precision * x \in Int /\ Precision * (x + y) = Precision * x + Precision * y
         /\ x <= y => Precision * x <= Precision * y
BY MarketAssumption

\* Adding bytes to the market moves it up its curve.
LEMMA SupplyOnCurve ==
  ASSUME IInv, NEW n \in Nat
  PROVE  /\ Precision * ((base + n) * quote) + traded
              >= Precision * (InitialQuote * (max_ram_size + n))
         /\ Precision * ((base + n) * quote) >= Precision * (base * quote)
<1>1. base \in Nat /\ quote \in Nat /\ max_ram_size \in Nat /\ InitialQuote \in Nat
      /\ traded \in Nat
  BY MarketAssumption DEF IInv, TypeOK
<1>2. InitialQuote <= quote
  BY <1>1 DEF IInv, TypeOK, MarketIsBooked
<1>3. InitialQuote * n <= quote * n
  BY <1>1, <1>2, ProductMonotone
<1> DEFINE x == base * quote
           y == quote * n
           u == InitialQuote * max_ram_size
           v == InitialQuote * n
<1>4. (base + n) * quote = x + y /\ InitialQuote * (max_ram_size + n) = u + v
  BY <1>1
<1>5. x \in Nat /\ y \in Nat /\ u \in Nat /\ v \in Nat /\ v <= y
  BY <1>1, <1>3
<1>6. Precision * x + traded >= Precision * u
  BY DEF IInv, Curve
<1> HIDE DEF x, y, u, v
<1>7. /\ Precision * (x + y) = Precision * x + Precision * y
      /\ Precision * (u + v) = Precision * u + Precision * v
      /\ Precision * v <= Precision * y /\ Precision * 0 <= Precision * y
      /\ Precision * x \in Int /\ Precision * y \in Int
      /\ Precision * u \in Int /\ Precision * v \in Int
  BY <1>5, ByPrecision
<1>8. /\ Precision * (x + y) + traded >= Precision * (u + v)
      /\ Precision * (x + y) >= Precision * x
  BY <1>1, <1>6, <1>7, MarketAssumption
<1> QED
  BY <1>4, <1>8 DEF x

\* What a purchase leaves of the reserves o and r.
LEMMA BuyOnCurve ==
  ASSUME NEW r \in Nat, r > 0, NEW o \in Nat, NEW after \in Nat,
         NEW bytes \in Outputs(r, o, after)
  PROVE  /\ bytes \in Nat /\ bytes <= o
         /\ Precision * ((o - bytes) * (r + after)) + after * o >= Precision * (o * r)
<1>1. /\ bytes \in Nat /\ bytes <= o
      /\ Precision * ((r + after) * (o - bytes)) + after * o >= Precision * (r * o)
  BY OutputOnCurve
<1>2. (r + after) * (o - bytes) = (o - bytes) * (r + after) /\ r * o = o * r
  BY <1>1
<1> QED
  BY <1>1, <1>2

\* A trade that keeps the types, moves bytes between the market and one account
\* and tokens between total_ram_stake and the market, and leaves the curve by no
\* more than it adds to traded, preserves the invariant.
LEMMA TradeKeeps ==
  ASSUME IInv, TypeOK', NEW a \in Accounts, NEW n \in Int, NEW t \in Int, NEW g \in Nat,
         NEW r \in Nat, r = base + NewRam, base' = r - n, quote' = quote + t,
         max_ram_size' = max_ram_size + NewRam,
         total_ram_bytes_reserved' = total_ram_bytes_reserved + n,
         total_ram_stake' = total_ram_stake + t,
         AddBytes(a, n), traded' = traded + g,
         Precision * (base' * quote') + g >= Precision * (r * quote)
  PROVE  IInv' /\ OnCurve
<1>1. NewRam \in Nat
  BY NewRamNatural DEF IInv
<1>2. MarketIsBooked'
  BY <1>1, MarketAssumption DEF IInv, TypeOK, MarketIsBooked
<1>3. ReservedIsBought'
  BY BytesFollow DEF IInv
<1> DEFINE x == base' * quote'
           y == r * quote
           z == base * quote
           u == InitialQuote * max_ram_size'
<1>4. Precision * y + traded >= Precision * u /\ Precision * y >= Precision * z
  BY <1>1, SupplyOnCurve
<1>5. x \in Int /\ y \in Int /\ z \in Int /\ u \in Int /\ traded \in Nat
  BY <1>1, MarketAssumption DEF IInv, TypeOK
<1>6. Precision * x + g >= Precision * y
  OBVIOUS
<1> HIDE DEF x, y, z, u
<1>7. Precision * x \in Int /\ Precision * y \in Int /\ Precision * z \in Int
      /\ Precision * u \in Int
  BY <1>5, ByPrecision
<1>8. /\ Precision * x + traded' >= Precision * u
      /\ Precision * x + (traded' - traded) >= Precision * z
  BY <1>4, <1>5, <1>6, <1>7
<1>9. Curve' /\ OnCurve
  BY <1>8 DEF Curve, OnCurve, x, z, u
<1> QED
  BY <1>2, <1>3, <1>9 DEF IInv

LEMMA BuyKeeps ==
  ASSUME IInv, NEW payer \in Accounts, NEW receiver \in Accounts, NEW quant \in Nat,
         BuyRam(payer, receiver, quant)
  PROVE  IInv' /\ OnCurve
<1>1. PICK after, bytes :
        /\ after = quant - Fee(quant) /\ after > 0 /\ quant > 0
        /\ bytes \in Outputs(quote, base + NewRam, after) /\ bytes > 0
        /\ base' = base + NewRam - bytes /\ quote' = quote + after
        /\ max_ram_size' = max_ram_size + NewRam /\ blocks' = 0
        /\ total_ram_bytes_reserved' = total_ram_bytes_reserved + bytes
        /\ total_ram_stake' = total_ram_stake + after
        /\ balance' = [balance EXCEPT ![payer] = @ - quant] /\ balance[payer] >= quant
        /\ AddBytes(receiver, bytes)
        /\ traded' = traded + after * (base + NewRam)
        /\ UNCHANGED new_ram_per_block
  BY DEF BuyRam, UpdateRamSupply
<1>2. NewRam \in Nat /\ after \in Nat /\ after <= quant
  BY <1>1, NewRamNatural, FeeBelow DEF IInv
<1>3. PICK r \in Nat : r = base + NewRam
  BY <1>2 DEF IInv, TypeOK
<1>4. /\ bytes \in Nat /\ bytes <= r
      /\ Precision * ((r - bytes) * (quote + after)) + after * r >= Precision * (r * quote)
  <2>1. quote \in Nat /\ quote > 0 /\ bytes \in Outputs(quote, r, after)
    BY <1>1, <1>3 DEF IInv, TypeOK
  <2> QED
    BY <1>2, <2>1, BuyOnCurve
<1>5. after * r \in Nat /\ base' = r - bytes /\ traded' = traded + after * r
  <2>1. after * r \in Nat
    BY <1>2, <1>3
  <2>2. base' = r - bytes
    BY <1>1, <1>2, <1>3, <1>4 DEF IInv, TypeOK
  <2>3. traded' = traded + after * r
    BY <1>1, <1>3, Zenon
  <2> QED
    BY <2>1, <2>2, <2>3
<1>6. TypeOK'
  <2>1. /\ base' \in Nat /\ quote' \in Nat /\ quote' > 0 /\ max_ram_size' \in Nat
        /\ total_ram_bytes_reserved' \in Nat /\ total_ram_stake' \in Nat
        /\ new_ram_per_block' \in Nat /\ blocks' \in 0 .. MaxBlocks /\ traded' \in Nat
    BY <1>1, <1>2, <1>4, <1>5, MarketAssumption DEF IInv, TypeOK
  <2>2. balance' \in [Accounts -> Nat] /\ ram_bytes' \in [Accounts -> Nat]
    BY <1>1, <1>2, <1>4 DEF IInv, TypeOK, AddBytes
  <2> QED
    BY <2>1, <2>2 DEF TypeOK
<1>7. Precision * (base' * quote') + after * r >= Precision * (r * quote)
  BY <1>1, <1>4, <1>5
<1> QED
  BY <1>1, <1>2, <1>3, <1>4, <1>5, <1>6, <1>7, TradeKeeps

\* What a sale of bytes leaves in the market, and that it is enough while traded
\* is small.
LEMMA SaleOnCurve ==
  ASSUME IInv, NEW a \in Accounts, NEW bytes \in Nat, bytes > 0, bytes <= ram_bytes[a],
         NEW r \in Nat, r = base + NewRam, NEW tokens \in Outputs(r, quote, bytes)
  PROVE  /\ tokens \in Nat /\ tokens <= quote
         /\ Precision * ((r + bytes) * (quote - tokens)) + bytes * quote
              >= Precision * (r * quote)
         /\ traded + bytes * quote < Precision * (r + bytes) => tokens <= total_ram_stake
<1>1. /\ NewRam \in Nat /\ base \in Nat /\ quote \in Nat /\ traded \in Nat
      /\ max_ram_size \in Nat /\ total_ram_stake \in Nat /\ total_ram_bytes_reserved \in Nat
      /\ InitialQuote \in Nat /\ ram_bytes[a] \in Nat
  BY NewRamNatural, MarketAssumption DEF IInv, TypeOK
<1> DEFINE left == r + bytes
<1>2. left \in Nat /\ left > 0
  BY <1>1
<1>3. /\ tokens \in Nat /\ tokens <= quote
      /\ Precision * (left * (quote - tokens)) + bytes * quote >= Precision * (r * quote)
  BY <1>1, <1>2, OutputOnCurve
<1>4. left <= max_ram_size + NewRam
  BY <1>1, BytesReserved DEF IInv, MarketIsBooked
<1>5. Precision * (r * quote) + traded >= Precision * (InitialQuote * (max_ram_size + NewRam))
  BY <1>1, SupplyOnCurve
<1>6. InitialQuote * left <= InitialQuote * (max_ram_size + NewRam)
  <2>1. left * InitialQuote <= (max_ram_size + NewRam) * InitialQuote
    BY <1>1, <1>2, <1>4, ProductMonotone
  <2>2. /\ left * InitialQuote = InitialQuote * left
        /\ (max_ram_size + NewRam) * InitialQuote = InitialQuote * (max_ram_size + NewRam)
    BY <1>1, <1>2
  <2> QED
    BY <2>1, <2>2
<1>7. ASSUME traded + bytes * quote < Precision * left
      PROVE  tokens <= total_ram_stake
  <2> SUFFICES ASSUME quote - tokens <= InitialQuote - 1 PROVE FALSE
    BY <1>1, <1>3 DEF IInv, MarketIsBooked
  <2> DEFINE s == left * (quote - tokens)
             y == r * quote
             w == InitialQuote * left
             m == InitialQuote * (max_ram_size + NewRam)
             g == bytes * quote
  <2>1. s <= w - left
    <3>1. quote - tokens \in Nat /\ InitialQuote - 1 \in Nat
      BY <1>1, <1>3, MarketAssumption
    <3>2. (quote - tokens) * left <= (InitialQuote - 1) * left
      BY <1>2, <3>1, ProductMonotone
    <3> QED
      BY <1>1, <1>2, <1>3, <3>1, <3>2
  <2>2. s \in Int /\ y \in Int /\ w \in Int /\ m \in Int /\ g \in Int /\ w <= m
    BY <1>1, <1>2, <1>3, <1>6
  <2>3. /\ Precision * s + g >= Precision * y /\ Precision * y + traded >= Precision * m
        /\ traded + g < Precision * left
    BY <1>3, <1>5, <1>7
  <2> HIDE DEF s, y, w, m, g, left
  <2>4. s + left <= w /\ left \in Int
    BY <1>2, <2>1, <2>2
  <2>5. /\ Precision * (s + left) = Precision * s + Precision * left
        /\ Precision * (s + left) <= Precision * w /\ Precision * w <= Precision * m
        /\ Precision * s \in Int /\ Precision * left \in Int /\ Precision * w \in Int
        /\ Precision * m \in Int /\ Precision * y \in Int
    <3>1. s + left \in Int
      BY <2>2, <2>4
    <3> QED
      BY <2>2, <2>4, <3>1, ByPrecision
  <2> QED
    BY <1>1, <2>2, <2>3, <2>5
<1> QED
  BY <1>3, <1>7

LEMMA BuyBytesKeeps ==
  ASSUME IInv, NEW payer \in Accounts, NEW receiver \in Accounts, NEW bytes \in Nat,
         BuyRamBytes(payer, receiver, bytes)
  PROVE  IInv' /\ OnCurve
<1>1. base \in Nat /\ quote \in Nat /\ bytes < base
  BY DEF IInv, TypeOK, BuyRamBytes
<1>2. quote * bytes \in Nat /\ base - bytes \in Nat /\ base - bytes > 0
  BY <1>1
<1>3. PICK cost \in Inputs(base, quote, bytes) :
        \E quant \in Quotients(cost * 1000, 995) : BuyRam(payer, receiver, quant)
  BY DEF BuyRamBytes
<1>4. PICK quant \in Quotients(cost * 1000, 995) : BuyRam(payer, receiver, quant)
  BY <1>3
<1>5. cost \in Nat
  BY <1>2, QuotientOfDoubles DEF Inputs
<1>6. quant \in Nat
  <2>1. cost * 1000 \in Nat
    BY <1>5
  <2> QED
    BY <2>1, QuotientOfDoubles
<1> QED
  BY <1>4, <1>6, BuyKeeps

LEMMA SellKeeps ==
  ASSUME IInv, NEW a \in Accounts, NEW bytes \in Nat, SellRam(a, bytes)
  PROVE  IInv' /\ OnCurve
<1>0. PICK r \in Nat : r = base + NewRam
  BY NewRamNatural DEF IInv, TypeOK
<1>1. PICK tokens :
        /\ tokens \in Outputs(r, quote, bytes) /\ tokens > 1
        /\ total_ram_stake >= tokens
        /\ bytes > 0 /\ ram_bytes[a] >= bytes
        /\ base' = r - (- bytes) /\ quote' = quote - tokens
        /\ max_ram_size' = max_ram_size + NewRam /\ blocks' = 0
        /\ total_ram_bytes_reserved' = total_ram_bytes_reserved - bytes
        /\ total_ram_stake' = total_ram_stake - tokens
        /\ balance' = [balance EXCEPT ![a] = @ + tokens - Fee(tokens)]
        /\ AddBytes(a, - bytes)
        /\ traded' = traded + bytes * quote
        /\ UNCHANGED new_ram_per_block
  <2>1. PICK tokens :
        /\ tokens \in Outputs(base + NewRam, quote, bytes) /\ tokens > 1
        /\ total_ram_stake >= tokens
        /\ quote' = quote - tokens
        /\ total_ram_stake' = total_ram_stake - tokens
        /\ balance' = [balance EXCEPT ![a] = @ + tokens - Fee(tokens)]
    BY DEF SellRam
  <2>2. /\ bytes > 0 /\ ram_bytes[a] >= bytes
        /\ base' = base + NewRam - (- bytes)
        /\ max_ram_size' = max_ram_size + NewRam /\ blocks' = 0
        /\ total_ram_bytes_reserved' = total_ram_bytes_reserved - bytes
        /\ AddBytes(a, - bytes)
        /\ traded' = traded + bytes * quote
        /\ UNCHANGED new_ram_per_block
    BY DEF SellRam, MaySell, UpdateRamSupply
  <2>3. tokens \in Outputs(r, quote, bytes)
    BY <1>0, <2>1, Zenon
  <2>4. base' = r - (- bytes)
    BY <1>0, <2>2, NewRamNatural DEF IInv, TypeOK
  <2> QED
    BY <2>1, <2>2, <2>3, <2>4
<1>2. NewRam \in Nat
      /\ ram_bytes[a] \in Nat /\ ram_bytes[a] <= total_ram_bytes_reserved
  BY <1>1, NewRamNatural, BytesReserved DEF IInv, TypeOK
<1>3. /\ tokens \in Nat
      /\ Precision * ((r + bytes) * (quote - tokens)) + bytes * quote
           >= Precision * (r * quote)
  BY <1>0, <1>1, <1>2, SaleOnCurve
<1>4. Fee(tokens) \in Nat /\ Fee(tokens) <= tokens
  BY <1>1, <1>3, FeeBelow
<1>5. bytes * quote \in Nat
  BY DEF IInv, TypeOK
<1>6. TypeOK'
  <2>1. /\ base' \in Nat /\ quote' \in Nat /\ quote' > 0 /\ max_ram_size' \in Nat
        /\ total_ram_bytes_reserved' \in Nat /\ total_ram_stake' \in Nat
        /\ new_ram_per_block' \in Nat /\ blocks' \in 0 .. MaxBlocks /\ traded' \in Nat
    BY <1>1, <1>2, <1>3, <1>5, MarketAssumption DEF IInv, TypeOK, MarketIsBooked
  <2>2. balance' \in [Accounts -> Nat] /\ ram_bytes' \in [Accounts -> Nat]
    BY <1>1, <1>2, <1>3, <1>4 DEF IInv, TypeOK, AddBytes
  <2> QED
    BY <2>1, <2>2 DEF TypeOK
<1>7. base' = r + bytes
  BY <1>1, <1>2
<1>8. Precision * (base' * quote') + bytes * quote >= Precision * (r * quote)
  BY <1>1, <1>3, <1>7
<1>9. /\ - bytes \in Int /\ - tokens \in Int /\ quote' = quote + (- tokens)
      /\ total_ram_bytes_reserved' = total_ram_bytes_reserved + (- bytes)
      /\ total_ram_stake' = total_ram_stake + (- tokens)
  BY <1>1, <1>3 DEF IInv, TypeOK
<1> QED
  BY <1>0, <1>1, <1>5, <1>6, <1>8, <1>9, TradeKeeps

\* setram and setramrate put bytes on sale and leave the accounts alone.
LEMMA SupplyKeeps ==
  ASSUME IInv, TypeOK', NEW n \in Nat, base' = base + n, max_ram_size' = max_ram_size + n,
         UNCHANGED <<ram_bytes, quote, total_ram_bytes_reserved, total_ram_stake, traded>>
  PROVE  IInv' /\ OnCurve
<1>1. /\ Precision * ((base + n) * quote) + traded
           >= Precision * (InitialQuote * (max_ram_size + n))
      /\ Precision * ((base + n) * quote) >= Precision * (base * quote)
  BY SupplyOnCurve
<1>2. MarketIsBooked' /\ ReservedIsBought'
  BY DEF IInv, TypeOK, MarketIsBooked, ReservedIsBought
<1>3. Curve'
  BY <1>1 DEF Curve
<1>4. OnCurve
  <2>1. (base + n) * quote \in Int /\ traded' - traded = 0
    BY DEF IInv, TypeOK
  <2>2. Precision * ((base + n) * quote) \in Int
    BY <2>1, ByPrecision
  <2> QED
    BY <1>1, <2>1, <2>2 DEF OnCurve
<1> QED
  BY <1>2, <1>3, <1>4 DEF IInv

LEMMA SetRamKeeps ==
  ASSUME IInv, NEW size \in Nat, SetRam(size)
  PROVE  IInv' /\ OnCurve
<1>1. size - max_ram_size \in Nat /\ base' = base + (size - max_ram_size)
      /\ max_ram_size' = max_ram_size + (size - max_ram_size)
  BY DEF SetRam, IInv, TypeOK
<1>2. TypeOK'
  BY DEF SetRam, IInv, TypeOK
<1> QED
  BY <1>1, <1>2, SupplyKeeps DEF SetRam

LEMMA SetRamRateKeeps ==
  ASSUME IInv, NEW rate \in Nat, SetRamRate(rate)
  PROVE  IInv' /\ OnCurve
<1>1. NewRam \in Nat /\ base' = base + NewRam /\ max_ram_size' = max_ram_size + NewRam
  BY NewRamNatural DEF SetRamRate, UpdateRamSupply, IInv, TypeOK
<1>2. TypeOK'
  BY <1>1, MarketAssumption DEF SetRamRate, UpdateRamSupply, IInv, TypeOK
<1> QED
  BY <1>1, <1>2, SupplyKeeps DEF SetRamRate

LEMMA UnmovedOnCurve ==
  ASSUME TypeOK, base' = base, quote' = quote, traded' = traded
  PROVE  OnCurve
<1>1. base * quote \in Int /\ traded' - traded = 0
  BY DEF TypeOK
<1>2. Precision * (base * quote) \in Int
  BY <1>1, ByPrecision
<1> QED
  BY <1>1, <1>2 DEF OnCurve

LEMMA NextInv == IInv /\ [Next]_vars => IInv' /\ OnCurve
<1> SUFFICES ASSUME IInv, [Next]_vars
             PROVE  IInv' /\ OnCurve
  OBVIOUS
<1>1. CASE \E payer, receiver \in Accounts : \E quant \in 1 .. balance[payer] :
             BuyRam(payer, receiver, quant)
  <2>1. PICK payer \in Accounts, receiver \in Accounts :
          \E quant \in 1 .. balance[payer] : BuyRam(payer, receiver, quant)
    BY <1>1
  <2>2. PICK quant \in 1 .. balance[payer] : BuyRam(payer, receiver, quant)
    BY <2>1
  <2>3. quant \in Nat
    BY DEF IInv, TypeOK
  <2> QED
    BY <2>2, <2>3, BuyKeeps
<1>2. CASE \E payer, receiver \in Accounts : \E bytes \in 1 .. base - 1 :
             BuyRamBytes(payer, receiver, bytes)
  <2>1. PICK payer \in Accounts, receiver \in Accounts, bytes \in 1 .. base - 1 :
          BuyRamBytes(payer, receiver, bytes)
    BY <1>2
  <2>2. bytes \in Nat
    BY DEF IInv, TypeOK
  <2> QED
    BY <2>1, <2>2, BuyBytesKeeps
<1>3. CASE \E account \in Accounts : \E bytes \in 1 .. max_ram_size : SellRam(account, bytes)
  <2>1. PICK account \in Accounts, bytes \in 1 .. max_ram_size : SellRam(account, bytes)
    BY <1>3
  <2>2. bytes \in Nat
    BY DEF IInv, TypeOK
  <2> QED
    BY <2>1, <2>2, SellKeeps
<1>4. CASE \E size \in 1 .. MaxRam : SetRam(size)
  BY <1>4, SetRamKeeps, MarketAssumption
<1>5. CASE \E rate \in Rates : SetRamRate(rate)
  BY <1>5, SetRamRateKeeps, MarketAssumption
<1>6. CASE Block
  <2>1. TypeOK'
    BY <1>6, MarketAssumption DEF Block, IInv, TypeOK
  <2>2. (base' = base /\ quote' = quote /\ traded' = traded) /\ Curve' /\ MarketIsBooked' /\ ReservedIsBought'
    BY <1>6 DEF Block, IInv, Curve, MarketIsBooked, ReservedIsBought
  <2>3. OnCurve
    BY <2>2, UnmovedOnCurve DEF IInv
  <2> QED
    BY <2>1, <2>2, <2>3 DEF IInv
<1>7. CASE UNCHANGED vars
  <2>1. IInv'
    BY <1>7 DEF vars, IInv, TypeOK, Curve, MarketIsBooked, ReservedIsBought
  <2>2. OnCurve
    BY <1>7, UnmovedOnCurve DEF vars, IInv
  <2> QED
    BY <2>1, <2>2
<1> QED
  BY <1>1, <1>2, <1>3, <1>4, <1>5, <1>6, <1>7 DEF Next

LEMMA SpecInv == Spec => []IInv
<1>1. IInv /\ [Next]_vars => IInv'
  BY NextInv
<1> QED
  BY InitInv, <1>1, PTL DEF Spec

-----------------------------------------------------------------------------
(* No amount goes negative and the market never runs out of tokens,        *)
(* whatever trades, rates and sizes buyram, sellram, setramrate and setram *)
(* are called with.                                                        *)
THEOREM AmountsStand == Spec => []TypeOK
<1>1. IInv => TypeOK
  BY DEF IInv
<1> QED
  BY SpecInv, <1>1, PTL

(* total_ram_bytes_reserved is the sum of the ram_bytes of the accounts.   *)
THEOREM ReservedBytesAreBought == Spec => []ReservedIsBought
<1>1. IInv => ReservedIsBought
  BY DEF IInv
<1> QED
  BY SpecInv, <1>1, PTL

(* The connector's reserves are what the globals say is neither reserved   *)
(* nor staked.                                                             *)
THEOREM MarketBooked == Spec => []MarketIsBooked
<1>1. IInv => MarketIsBooked
  BY DEF IInv
<1> QED
  BY SpecInv, <1>1, PTL

(* sellram's "this shouldn't happen" does not, while what was traded is    *)
(* within what doubles tell apart: an account can sell any of the bytes it *)
(* has, and led.ram has the tokens.                                        *)
THEOREM SaleIsCovered == Spec => []StakeCoversSale
<1>1. IInv => StakeCoversSale
  <2> SUFFICES ASSUME IInv, NEW a \in Accounts, NEW bytes \in 1 .. ram_bytes[a],
                      traded + bytes * quote < Precision * (base + NewRam + bytes),
                      NEW tokens \in Outputs(base + NewRam, quote, bytes)
               PROVE  tokens <= total_ram_stake
    BY DEF StakeCoversSale
  <2>1. bytes \in Nat /\ bytes > 0 /\ bytes <= ram_bytes[a]
    BY DEF IInv, TypeOK
  <2>2. PICK r \in Nat : r = base + NewRam
    BY NewRamNatural DEF IInv, TypeOK
  <2> QED
    BY <2>1, <2>2, SaleOnCurve
<1> QED
  BY SpecInv, <1>1, PTL

(* No step but a trade lowers the product of the reserves, and a trade at  *)
(* most by one part in Precision of the product it was converted with:     *)
(* what the double of the code may round in the trader's favour.           *)
THEOREM CurveHolds == Spec => NeverBelowCurve
<1>1. IInv /\ [Next]_vars => [OnCurve]_vars
  BY NextInv
<1> QED
  BY SpecInv, <1>1, PTL DEF Spec, NeverBelowCurve, OnCurve

=============================================================================
