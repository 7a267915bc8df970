----------------------------- MODULE MCShopfront ------------------------------
(* What users do, side by side as in MCServices: safety only.              *)
EXTENDS Fulfilment, Till, SmartCart, CardAutopay, Promo, Importers, Pricing,
        PanelClient, Telemetry, Integers, TLC

CONSTANTS d1, d2, q1, q2, q3, t1, t2, t3, h2, b1, basic, pro, free,
          n1, n2, app, worker

VARIABLE part

MCPlan == [o \in Buys \cup Topups |-> IF o = h2 THEN pro ELSE basic]
MCCartPrice == (1 :> 1) @@ (2 :> 2)
MCTopupSum == (d1 :> 1) @@ (d2 :> 1)
MCPriceOf ==
    (basic :> ((1 :> 3) @@ (2 :> 4))) @@ (pro :> ((1 :> 6) @@ (2 :> 10))) @@ (free :> (1 :> 0))
MCClientOf == (n1 :> app) @@ (n2 :> worker)
MCRedeemer == (q1 :> 1) @@ (q2 :> 1) @@ (q3 :> 2)

Shape(s, k, m) == [surface |-> s, kind |-> k, method |-> m]
MCShapes ==
    (t1 :> {Shape("bot", "plan", "balance"), Shape("bot", "plan", "stars")}) @@
    (t2 :> {Shape("cabinet", "trial", "balance"), Shape("cabinet", "plan", "balance")}) @@
    (t3 :> {Shape("cabinet", "plan", "gateway"),
            Shape("cabinet", "deposit", "gateway"), Shape("bot", "deposit", "gateway")})

Shopfront ==
    <<vars, tillVars, cartVars, cardVars, promoVars, importVars, priceVars,
      clientVars, telemetryVars>>

MCInit ==
    /\ part \in {"fulfilment", "till", "cart", "card", "promo", "importers",
                 "pricing", "client", "telemetry"}
    /\ Init /\ TillInit /\ SmartCartInit /\ CardInit /\ PromoInit
    /\ ImportersInit /\ PricingInit /\ ClientInit /\ TelemetryInit
    /\ part # "importers" => source = "bedolaga" /\ named /\ tariff
    /\ part # "promo" => inDays
    /\ part # "client" => ~tellsVersion /\ \A s \in Own : keys[s] = NoRefs

MCNext ==
    \/ /\ part = "fulfilment" /\ Next
       /\ UNCHANGED <<part, tillVars, cartVars, cardVars, promoVars,
                      importVars, priceVars, clientVars, telemetryVars>>
    \/ /\ part = "till" /\ TillNext
       /\ UNCHANGED <<part, vars, cartVars, cardVars, promoVars, importVars,
                      priceVars, clientVars, telemetryVars>>
    \/ /\ part = "cart" /\ SmartCartNext
       /\ UNCHANGED <<part, vars, tillVars, cardVars, promoVars, importVars,
                      priceVars, clientVars, telemetryVars>>
    \/ /\ part = "card" /\ CardNext
       /\ UNCHANGED <<part, vars, tillVars, cartVars, promoVars, importVars,
                      priceVars, clientVars, telemetryVars>>
    \/ /\ part = "promo" /\ PromoNext
       /\ UNCHANGED <<part, vars, tillVars, cartVars, cardVars, importVars,
                      priceVars, clientVars, telemetryVars>>
    \/ /\ part = "importers" /\ ImportersNext
       /\ UNCHANGED <<part, vars, tillVars, cartVars, cardVars, promoVars,
                      priceVars, clientVars, telemetryVars>>
    \/ /\ part = "pricing" /\ PricingNext
       /\ UNCHANGED <<part, vars, tillVars, cartVars, cardVars, promoVars,
                      importVars, clientVars, telemetryVars>>
    \/ /\ part = "client" /\ ClientNext
       /\ UNCHANGED <<part, vars, tillVars, cartVars, cardVars, promoVars,
                      importVars, priceVars, telemetryVars>>
    \/ /\ part = "telemetry" /\ TelemetryNext
       /\ UNCHANGED <<part, vars, tillVars, cartVars, cardVars, promoVars,
                      importVars, priceVars, clientVars>>

MCSpec == MCInit /\ [][MCNext]_<<part, Shopfront>>

-----------------------------------------------------------------------------
(* At most once, whatever overlaps, crashes or is asked again: a card is    *)
(* charged in its gap (CardAutopay), a slot of a promo code rewarded, but   *)
(* for the dates a webhook copies (Promo).                                  *)
AtMostOnce ==
    /\ part = "card" => OneChargePerGap
    /\ part = "promo" => RewardOncePerSlot

(* Rows and the panel's users stay together: when a dump is imported again *)
(* and again (Importers), and when the panel is upgraded (PanelClient).     *)
RowsMeetTheirUsers ==
    /\ part = "importers" => ImportsAreRepeatable
    /\ part = "client" => PanelUnderstood
=============================================================================
