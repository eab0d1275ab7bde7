---------------------------- MODULE LedResources ----------------------------
(***************************************************************************)
(* The resource limits led.system gives to the chain: of RAM, net and cpu  *)
(* of each account.  They follow what an account holds, bought RAM and     *)
(* staked net and cpu, unless the administrator has set them by hand: then *)
(* a flag of the voters row keeps trading and staking off.  An account     *)
(* without a row in userres, as those that were there before the contract, *)
(* may have any limits, and none.                                          *)
(*                                                                         *)
(* Prices and payments are in LedRamMarket, delegations and refunds in     *)
(* LedStaking; here is what both do to the limits.  The chain keeps the    *)
(* limits it is given.                                                     *)
(*                                                                         *)
(* The names here differ from those of LedServices, as LedServicesProofs   *)
(* extends both.                                                           *)
(***************************************************************************)
EXTENDS Integers

CONSTANTS Accounts,
          Gift,         \* ram_gift_bytes: 1400
          Amounts,      \* bytes traded and tokens staked in one call
          MaxHeld,      \* bound: what an account holds of a resource
          HandLimits    \* limits set by hand, besides 0 and Unlimited

Unlimited == -1

ASSUME ResourcesAssumption ==
  /\ Gift \in Nat
  /\ Amounts \subseteq Nat \ {0} /\ MaxHeld \in Nat
  /\ HandLimits \subseteq Nat

Resources == {"ram", "net", "cpu"}
Nothing == [r \in Resources |-> 0]

VARIABLES
  accounts,  \* that exist
  userres,      \* those with a row in userres
  held,      \* ram_bytes, net_weight and cpu_weight of the row
  managed,   \* ram_managed, net_managed and cpu_managed: flags1 of the voters row
  limit      \* in the chain

resources_vars == <<accounts, userres, held, managed, limit>>

\* Accounts that are there before the contract are without limits.
ResourcesInit ==
  /\ accounts \in SUBSET Accounts
  /\ userres = {}
  /\ held = [a \in Accounts |-> Nothing]
  /\ managed = [a \in Accounts |-> {}]
  /\ limit = [a \in Accounts |-> [r \in Resources |-> IF a \in accounts THEN Unlimited ELSE 0]]

\* newaccount of the native actions.
NewAccount(a) ==
  /\ a \notin accounts
  /\ accounts' = accounts \cup {a}
  /\ userres' = userres \cup {a}
  /\ limit' = [limit EXCEPT ![a] = Nothing]
  /\ UNCHANGED <<held, managed>>

-----------------------------------------------------------------------------
(* Buying and selling RAM.                                                 *)

\* slip: trading overrules a limit set by hand
TradedLimitAnyway(a, ram) == [limit[a] EXCEPT !["ram"] = ram + Gift]

TradedLimit(a, ram) ==
  IF "ram" \in managed[a] THEN limit[a] ELSE [limit[a] EXCEPT !["ram"] = ram + Gift]

BuyRam(a, bytes) ==
  /\ a \in accounts
  /\ held[a]["ram"] + bytes <= MaxHeld   \* bound
  /\ userres' = userres \cup {a}
  /\ held' = [held EXCEPT ![a]["ram"] = @ + bytes]
  /\ limit' = [limit EXCEPT ![a] = TradedLimit(a, held[a]["ram"] + bytes)]
  /\ UNCHANGED <<accounts, managed>>

SellRam(a, bytes) ==
  /\ a \in userres
  /\ held[a]["ram"] >= bytes
  /\ held' = [held EXCEPT ![a]["ram"] = @ - bytes]
  /\ limit' = [limit EXCEPT ![a] = TradedLimit(a, held[a]["ram"] - bytes)]
  /\ UNCHANGED <<accounts, userres, managed>>

-----------------------------------------------------------------------------
(* Staking.                                                                *)

AtLeast(x, y) == IF x < y THEN y ELSE x

\* slip: either flag is enough to leave everything as it is
StakedLimitEither(a, h) ==
  IF {"net", "cpu"} \cap managed[a] # {}
    THEN limit[a]
    ELSE [r \in Resources |->
            CASE r \in managed[a] -> limit[a][r]
              [] r \notin managed[a] /\ r = "ram" -> AtLeast(h["ram"] + Gift, limit[a]["ram"])
              [] OTHER -> h[r]]

\* Only both flags together leave everything as it is.  RAM is given, not taken.
StakedLimit(a, h) ==
  IF {"net", "cpu"} \subseteq managed[a]
    THEN limit[a]
    ELSE [r \in Resources |->
            CASE r \in managed[a] -> limit[a][r]
              [] r \notin managed[a] /\ r = "ram" -> AtLeast(h["ram"] + Gift, limit[a]["ram"])
              [] OTHER -> h[r]]

\* changebw for its receiver, of delegatebw and of undelegatebw; an empty row is erased.
ChangeBw(a, net, cpu) ==
  LET h == [held[a] EXCEPT !["net"] = @ + net, !["cpu"] = @ + cpu]
  IN  /\ a \in accounts
      /\ h["net"] >= 0 /\ h["cpu"] >= 0
      /\ h["net"] <= MaxHeld /\ h["cpu"] <= MaxHeld   \* bound
      /\ held' = [held EXCEPT ![a] = h]
      /\ userres' = IF h = Nothing THEN userres \ {a} ELSE userres \cup {a}
      /\ limit' = [limit EXCEPT ![a] = StakedLimit(a, h)]
      /\ UNCHANGED <<accounts, managed>>

Stake(a) ==
  \E net, cpu \in Amounts \cup {0} :
    net + cpu > 0 /\ (ChangeBw(a, net, cpu) \/ ChangeBw(a, -net, -cpu))

-----------------------------------------------------------------------------
(* The administrator.                                                      *)

\* Only without a row and without any flag.
SetALimits(a, limits) ==
  /\ a \in accounts \ userres
  /\ managed[a] = {}
  /\ limit' = [limit EXCEPT ![a] = limits]
  /\ UNCHANGED <<accounts, userres, held, managed>>

\* setacctram, setacctnet and setacctcpu with a value.
SetAcct(a, r, value) ==
  /\ a \in accounts
  /\ r = "ram" => value >= 0
  /\ managed' = [managed EXCEPT ![a] = @ \cup {r}]
  /\ limit' = [limit EXCEPT ![a][r] = value]
  /\ UNCHANGED <<accounts, userres, held>>

\* The same without a value: the limit is again what is held.
UnsetAcct(a, r) ==
  /\ a \in accounts
  /\ r \in managed[a]
  /\ managed' = [managed EXCEPT ![a] = @ \ {r}]
  /\ limit' = [limit EXCEPT ![a][r] = IF r = "ram" THEN held[a]["ram"] + Gift ELSE held[a][r]]
  /\ UNCHANGED <<accounts, userres, held>>

ResourcesNext ==
  \E a \in Accounts :
    \/ NewAccount(a)
    \/ \E bytes \in Amounts : BuyRam(a, bytes) \/ SellRam(a, bytes)
    \/ Stake(a)
    \/ \E limits \in [Resources -> HandLimits \cup {0, Unlimited}] : SetALimits(a, limits)
    \/ \E r \in Resources, value \in HandLimits \cup {0, Unlimited} : SetAcct(a, r, value)
    \/ \E r \in Resources : UnsetAcct(a, r)

ResourcesSpec == ResourcesInit /\ [][ResourcesNext]_resources_vars

-----------------------------------------------------------------------------
(* What is held is in a row, what is set by hand is an account's, and      *)
(* limits are amounts or Unlimited.                                        *)
ResourcesTypeOK ==
  /\ accounts \subseteq Accounts /\ userres \subseteq accounts
  /\ held \in [Accounts -> [Resources -> Nat]]
  /\ managed \in [Accounts -> SUBSET Resources]
  /\ limit \in [Accounts -> [Resources -> Nat \cup {Unlimited}]]
  /\ \A a \in Accounts \ userres : held[a] = Nothing
  /\ \A a \in Accounts \ accounts : managed[a] = {}

(* What an account has paid for it may use: as far as a limit is not set   *)
(* by hand it is exactly the bytes bought and the gift, exactly the tokens *)
(* staked, in whatever order it trades, stakes, and the administrator sets *)
(* limits and lets them go.                                                *)
LimitsAreOwed ==
  \A a \in Accounts :
    /\ ("ram" \notin managed[a] /\ held[a]["ram"] > 0) => limit[a]["ram"] = held[a]["ram"] + Gift
    /\ held[a]["net"] + held[a]["cpu"] > 0 =>
         \A r \in {"net", "cpu"} \ managed[a] : limit[a][r] = held[a][r]

(* A limit set by hand holds until the administrator sets another: it does *)
(* not change with what the account, or whoever buys and stakes for it,    *)
(* holds.                                                                  *)
HandSetLimitsHold ==
  [][\A a \in Accounts : \A r \in managed[a] \cap managed'[a] :
       limit'[a][r] # limit[a][r] => UNCHANGED <<userres, held>>]_resources_vars

=============================================================================
