-------------------------------- MODULE Forms --------------------------------
(***************************************************************************)
(* What the forms let through, and what becomes of it: frontend schemas,   *)
(* the DTOs behind them (backend/src/rwa, backend/src/collateral,          *)
(* backend/src/wallets) and the factory, as functions of what is typed.    *)
(* Typed numbers are in tenths of a base unit, a basis point or a day, so  *)
(* that one may have a digit too many.                                     *)
(***************************************************************************)
EXTENDS Amounts, Sequences

Tenths == 10
Whole(typed) == typed % Tenths = 0

---------------------------------------------------------------------------
(* Issuing collateral: [raise, rate, days, symbol].                        *)

issueCollateralSchema(v) ==
    /\ Len(v.symbol) \in 2..8
    /\ v.raise > 0 /\ Whole(v.raise)
    /\ v.rate \in 0..BpsScale * Tenths
    /\ v.days > 0 /\ v.days <= 365 * Tenths

\* createTokenPayload: the raise in base units, the rest as typed.
createTokenPayload(v) == [raise |-> v.raise \div Tenths, rate |-> v.rate, days |-> v.days]

CreateRwaTokenDTO(payload) ==
    /\ payload.raise >= 1
    /\ payload.rate >= Tenths
    /\ payload.days >= Tenths

\* BigInt() throws at a fraction.
Convertible(payload) == Whole(payload.rate)

factoryAccepts(payload) ==
    /\ payload.raise > 0
    /\ payload.rate > 0 /\ payload.rate <= MaxInterestBps * Tenths

\* Where a submission with the means to pay ends: the flow's first request
\* is the record's, the second the approval's, the third is simulated.
Ends(v) ==
    LET payload == createTokenPayload(v)
    IN  IF ~issueCollateralSchema(v) THEN "form"
        ELSE IF ~CreateRwaTokenDTO(payload) \/ ~Convertible(payload) THEN "approve"
        ELSE IF ~factoryAccepts(payload) THEN "create" ELSE "issued"

\* The document's metadata; the form attaches any file.
MAX_SIZE == 25 * 1024 * 1024
RequestUploadDTO(fileSize) == fileSize >= 1
uploadAccepted(fileSize) == RequestUploadDTO(fileSize) /\ fileSize <= MAX_SIZE

---------------------------------------------------------------------------
(* Sending from the wallet.                                                *)

\* Balances have seven decimals, that is whole base units; a percentage of
\* one is rounded half up to as many, and below zero is nothing.
setPercent(maxBalance, pct) == (2 * maxBalance * pct + 100) \div 200

transferSchema(amount) == amount > 0
TransferInitDTO(amount) == amount >= 1
BaseFee == 100

\* What the account has to keep, in stroops of XLM, is reserve's to say.
Sendable(asset, amount, balance, reserve) ==
    amount <= IF asset = "native" THEN balance - reserve - BaseFee ELSE balance

---------------------------------------------------------------------------
(* What holds of them, over every small input.                             *)

LOCAL Typed(raise, rate, days) ==
    [raise |-> raise, rate |-> rate, days |-> days, symbol |-> <<"I", "N", "V">>]
LOCAL Inputs ==
    {Typed(r, b, d) : r \in {0, 1, 9, 10, 15, 400},
                      b \in {0, 5, 9, 10, 95, 200, 9495, 9500, 9501, 9510, 100000, 100001},
                      d \in {0, 1, 9, 10, 15, 300, 3650, 3651}}

\* What is issued has a whole positive raise and a whole rate of 1 to 950; and
\* every such input that the form shows as valid, a day or longer, is issued.
ASSUME IssuedIsTheContractsDomain ==
    \A v \in Inputs :
        Ends(v) = "issued" <=>
            /\ issueCollateralSchema(v) /\ v.days >= Tenths
            /\ \E bps \in 1..MaxInterestBps : v.rate = bps * Tenths

\* The schema is wider than what follows: a rate below one, a fraction of a
\* basis point or of a first day leaves a record behind, and a rate above the
\* factory's limit an approval as well.
ASSUME SchemaIsWider ==
    /\ \A v \in Inputs : Ends(v) = "approve" =>
          v.rate < Tenths \/ ~Whole(v.rate) \/ v.days < Tenths
    /\ \A v \in Inputs : Ends(v) = "create" => v.rate > MaxInterestBps * Tenths
    /\ Ends(Typed(400, 0, 300)) = "approve" /\ Ends(Typed(400, 200, 9)) = "approve"
    /\ Ends(Typed(400, 95, 300)) = "approve" /\ Ends(Typed(400, 9510, 300)) = "create"

\* A percentage never exceeds the balance, but the "Max" of the native asset
\* leaves nothing for the fee and the reserve.
ASSUME PercentWithinBalance ==
    /\ \A balance \in 0..50, pct \in {25, 50, 75, 100} :
          LET amount == setPercent(balance, pct)
          IN  /\ amount <= balance
              /\ Sendable("USDC", amount, balance, 0)
              /\ transferSchema(amount) => TransferInitDTO(amount)
    /\ \A balance \in 1..500 :
          ~Sendable("native", setPercent(balance, 100), balance, 0)
=============================================================================
