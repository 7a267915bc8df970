--------------------------- MODULE ShopfrontProofs ---------------------------
(***************************************************************************)
(* Machine-checked proofs about what users do, composed as in MCShopfront: *)
(* one inductive invariant per component; a step of MCShopfront is a step  *)
(* of one of them and leaves the others alone.                             *)
(***************************************************************************)
EXTENDS MCShopfront, Sums, TLAPS

(* Adding an element to a finite set, or taking one out. *)
LEMMA OneMore ==
  ASSUME NEW S, IsFiniteSet(S), NEW x, x \notin S, NEW R, R = S \cup {x}
  PROVE  IsFiniteSet(R) /\ Cardinality(R) = Cardinality(S) + 1
  BY FS_AddElement

LEMMA OneLess ==
  ASSUME NEW S, IsFiniteSet(S), NEW x \in S, NEW R, R = S \ {x}
  PROVE  IsFiniteSet(R) /\ Cardinality(R) = Cardinality(S) - 1
  BY FS_RemoveElement

LEMMA SizeIsNat == ASSUME NEW S, IsFiniteSet(S) PROVE Cardinality(S) \in Nat
<1>1. Cardinality(S) \in Nat
  BY FS_CardinalityType, Zenon
<1>2. QED BY <1>1

-----------------------------------------------------------------------------
(* The smart cart: of every purchase promised, at most one copy is about,  *)
(* in the cart, in the hands of one worker, or bought.                     *)

CartTyped ==
    /\ purse \in Nat
    /\ cart \in Intents \cup {NoIntent}
    /\ stashing \in Intents \cup {NoIntent}
    /\ deposit \in [Deposits -> {"due", "credited", "buying", "restash", "over"}]
    /\ popped \in [Deposits -> Intents \cup {NoIntent}]
    /\ short \in [Intents -> Nat]
    /\ bought \in [Intents -> Nat]
    /\ owed \in BOOLEAN

InHand(d) == deposit[d] \in {"buying", "restash"}
Holders(i) == {d \in Deposits : InHand(d) /\ popped[d] = i}
InCart(i) == IF cart = i THEN 1 ELSE 0
CopiesPromised(i) == bought[i] + Cardinality(Holders(i)) + InCart(i) <= short[i]

CartInv ==
    /\ CartTyped
    /\ \A d \in Deposits : InHand(d) => popped[d] \in Intents
    /\ \A i \in Intents : CopiesPromised(i)
    /\ PromiseStands

LEMMA HoldersFinite ==
  ASSUME NEW i
  PROVE  IsFiniteSet(Holders(i)) /\ Cardinality(Holders(i)) \in Nat
<1>1. IsFiniteSet(Holders(i))
  <2>1. Holders(i) \subseteq Deposits
    BY DEF Holders
  <2>2. IsFiniteSet(Deposits)
    BY IntentsAssumption
  <2>3. QED BY <2>1, <2>2, FS_Subset
<1>2. QED BY <1>1, SizeIsNat

LEMMA InitCart == SmartCartInit => CartInv
<1> SUFFICES ASSUME SmartCartInit PROVE CartInv
  OBVIOUS
<1> USE DEF SmartCartInit
<1>1. CartTyped
  BY DEF CartTyped
<1>2. \A d \in Deposits : ~InHand(d)
  BY DEF InHand
<1>3. ASSUME NEW i \in Intents PROVE CopiesPromised(i)
  <2>1. Holders(i) = {}
    BY <1>2 DEF Holders
  <2>2. Cardinality(Holders(i)) = 0
    BY <2>1, FS_EmptySet
  <2>3. QED BY <2>2, IntentsAssumption DEF CopiesPromised, InCart
<1>4. QED BY <1>1, <1>2, <1>3 DEF CartInv, PromiseStands

(* A worker's intent changes hands: nobody else's holding moves. *)
LEMMA PutsDownIntent ==
  ASSUME CartInv, NEW d \in Deposits, InHand(d), ~InHand(d)', popped' = popped,
         \A e \in Deposits \ {d} : deposit'[e] = deposit[e]
  PROVE  \A i \in Intents :
            Cardinality(Holders(i)') =
               IF i = popped[d] THEN Cardinality(Holders(i)) - 1
                                ELSE Cardinality(Holders(i))
<1> SUFFICES ASSUME NEW i \in Intents
             PROVE  Cardinality(Holders(i)') =
                       IF i = popped[d] THEN Cardinality(Holders(i)) - 1
                                        ELSE Cardinality(Holders(i))
  OBVIOUS
<1>1. CASE i = popped[d]
  <2>1. d \in Holders(i) /\ Holders(i)' = Holders(i) \ {d}
    BY <1>1 DEF Holders, InHand
  <2>2. QED BY <1>1, <2>1, HoldersFinite, OneLess
<1>2. CASE i # popped[d]
  <2>1. Holders(i)' = Holders(i)
    BY <1>2 DEF Holders, InHand
  <2>2. QED BY <1>2, <2>1
<1>3. QED BY <1>1, <1>2

LEMMA CartStep == CartInv /\ [SmartCartNext]_cartVars => CartInv'
<1> SUFFICES ASSUME CartInv, [SmartCartNext]_cartVars PROVE CartInv'
  OBVIOUS
<1> USE IntentsAssumption
<1>0. /\ CartTyped /\ \A d \in Deposits : InHand(d) => popped[d] \in Intents
      /\ \A i \in Intents : CopiesPromised(i)
      /\ PromiseStands
  BY DEF CartInv
<1>1. CASE UNCHANGED cartVars
  BY <1>0, <1>1 DEF cartVars, CartInv, CartTyped, InHand, CopiesPromised, Holders, InCart,
     PromiseStands
<1>2. ASSUME UNCHANGED <<cart, deposit, popped, short, bought, owed>>,
             purse' \in Nat, stashing' \in Intents \cup {NoIntent}
      PROVE  CartInv'
  BY <1>0, <1>2 DEF CartInv, CartTyped, InHand, CopiesPromised, Holders, InCart, PromiseStands
<1>3. ASSUME NEW i \in Intents, TapAndBuy(i) \/ TapTooShort(i) PROVE CartInv'
  BY <1>0, <1>2, <1>3 DEF TapAndBuy, TapTooShort, CartTyped
<1>4. CASE Stash
  <2>1. \A i \in Intents : Holders(i)' = Holders(i) /\ Cardinality(Holders(i)) \in Nat
    BY <1>4, HoldersFinite DEF Stash, Holders, InHand
  <2>2. CartTyped'
    BY <1>0, <1>4 DEF Stash, CartTyped
  <2>3. \A i \in Intents : CopiesPromised(i)'
    BY <1>0, <1>4, <2>1 DEF Stash, CopiesPromised, InCart, CartTyped
  <2>4. QED BY <1>0, <1>4, <2>2, <2>3 DEF Stash, CartInv, PromiseStands, InHand, CartTyped
<1>5. ASSUME NEW d \in Deposits,
             CreditDeposit(d) \/ AutoBuyShort(d) \/ AutoBuyFails(d)
      PROVE  CartInv'
  <2>1. /\ \A e \in Deposits : InHand(e)' = InHand(e)
        /\ UNCHANGED <<cart, stashing, popped, short, bought, owed>>
        /\ CartTyped'
    BY <1>0, <1>5 DEF CreditDeposit, AutoBuyShort, AutoBuyFails, AfterError, InHand, CartTyped
  <2>2. \A i \in Intents : Holders(i)' = Holders(i) /\ InCart(i)' = InCart(i)
    BY <2>1 DEF Holders, InCart
  <2>3. PromiseStands'
    BY <1>0, <2>1 DEF PromiseStands, InHand
  <2>4. QED BY <1>0, <2>1, <2>2, <2>3 DEF CartInv, CopiesPromised
<1>6. ASSUME NEW d \in Deposits, PopCart(d) PROVE CartInv'
  <2>1. CartTyped'
    BY <1>0, <1>6 DEF PopCart, LeftInCart, CartTyped
  <2>2. \A e \in Deposits : InHand(e)' => popped'[e] \in Intents
    BY <1>0, <1>6 DEF PopCart, InHand, CartTyped
  <2>3. ASSUME NEW i \in Intents PROVE CopiesPromised(i)'
    <3>1. InCart(i)' = 0
      BY <1>6 DEF PopCart, LeftInCart, InCart
    <3>2. CASE cart = i
      <4>1. d \notin Holders(i) /\ Holders(i)' = Holders(i) \cup {d}
        BY <1>0, <1>6, <3>2 DEF PopCart, Holders, InHand, CartTyped
      <4>2. Cardinality(Holders(i)') = Cardinality(Holders(i)) + 1
        BY <4>1, HoldersFinite, OneMore
      <4>3. QED BY <1>0, <1>6, <3>1, <3>2, <4>2, HoldersFinite
                DEF PopCart, CopiesPromised, InCart, CartTyped
    <3>3. CASE cart # i
      <4>1. Holders(i)' = Holders(i)
        BY <1>0, <1>6, <3>3 DEF PopCart, Holders, InHand, CartTyped
      <4>2. QED BY <1>0, <1>6, <3>1, <3>3, <4>1, HoldersFinite
                DEF PopCart, CopiesPromised, InCart, CartTyped
    <3>4. QED BY <3>2, <3>3
  <2>4. PromiseStands'
    BY <1>0, <1>6 DEF PopCart, PromiseStands, InHand, CartTyped
  <2>5. QED BY <2>1, <2>2, <2>3, <2>4 DEF CartInv
<1>7. ASSUME NEW d \in Deposits, AutoBuy(d) \/ Restash(d) \/ IntentLost(d) PROVE CartInv'
  <2>1. InHand(d) /\ ~InHand(d)' /\ popped' = popped /\ popped[d] \in Intents
    BY <1>0, <1>7 DEF AutoBuy, Restash, IntentLost, InHand, CartTyped
  <2>2. \A e \in Deposits \ {d} : deposit'[e] = deposit[e]
    BY <1>0, <1>7 DEF AutoBuy, Restash, IntentLost, CartTyped
  <2>3. \A i \in Intents :
            /\ Cardinality(Holders(i)') =
                  IF i = popped[d] THEN Cardinality(Holders(i)) - 1
                                   ELSE Cardinality(Holders(i))
            /\ Cardinality(Holders(i)) \in Nat
    BY <2>1, <2>2, PutsDownIntent, HoldersFinite
  <2>4. CartTyped'
    <3>1. CASE AutoBuy(d)
      <4>1. purse \in Nat /\ CartPrice[popped[d]] \in Nat /\ purse >= CartPrice[popped[d]]
        BY <1>0, <2>1, <3>1 DEF AutoBuy, CartTyped
      <4>2. purse' \in Nat
        BY <4>1, <3>1 DEF AutoBuy
      <4>3. bought' \in [Intents -> Nat]
        BY <1>0, <2>1, <3>1 DEF AutoBuy, CartTyped
      <4>4. deposit' \in [Deposits -> {"due", "credited", "buying", "restash", "over"}]
        BY <1>0, <2>1, <3>1 DEF AutoBuy, CartTyped
      <4>5. owed' \in BOOLEAN
        BY <3>1 DEF AutoBuy
      <4>6. UNCHANGED <<cart, stashing, popped, short>>
        BY <3>1 DEF AutoBuy
      <4>7. QED BY <1>0, <4>2, <4>3, <4>4, <4>5, <4>6 DEF CartTyped
    <3>2. CASE Restash(d) \/ IntentLost(d)
      BY <1>0, <2>1, <3>2 DEF Restash, IntentLost, CartTyped
    <3>3. QED BY <1>7, <3>1, <3>2
  <2>5. \A e \in Deposits : InHand(e)' => popped'[e] \in Intents
    BY <1>0, <2>1, <2>2 DEF InHand
  <2>6. \A i \in Intents : CopiesPromised(i)'
    <3>1. CASE AutoBuy(d)
      BY <1>0, <2>1, <2>3, <3>1 DEF AutoBuy, CopiesPromised, InCart, CartTyped
    <3>2. CASE Restash(d)
      BY <1>0, <2>1, <2>3, <3>2 DEF Restash, CopiesPromised, InCart, CartTyped
    <3>3. CASE IntentLost(d)
      BY <1>0, <2>1, <2>3, <3>3 DEF IntentLost, CopiesPromised, InCart, CartTyped
    <3>4. QED BY <1>7, <3>1, <3>2, <3>3
  <2>7. PromiseStands'
    BY <1>0, <1>7, <2>1 DEF AutoBuy, Restash, IntentLost, PromiseStands
  <2>8. QED BY <2>4, <2>5, <2>6, <2>7 DEF CartInv
<1>8. CASE CartExpires
  <2>1. \A i \in Intents : /\ Holders(i)' = Holders(i)
                           /\ Cardinality(Holders(i)) \in Nat
                           /\ InCart(i)' = 0 /\ InCart(i) >= 0
    <3>1. \A i \in Intents : Holders(i)' = Holders(i)
      BY <1>8 DEF CartExpires, Holders, InHand
    <3>2. \A i \in Intents : InCart(i)' = 0 /\ InCart(i) >= 0
      BY <1>8 DEF CartExpires, InCart
    <3>3. QED BY <3>1, <3>2, HoldersFinite
  <2>2. \A i \in Intents : CopiesPromised(i)'
    BY <1>0, <1>8, <2>1 DEF CartExpires, CopiesPromised, CartTyped, InCart
  <2>3. QED BY <1>0, <1>8, <2>2 DEF CartExpires, CartInv, CartTyped, PromiseStands, InHand
<1>9. QED
  BY <1>1, <1>3, <1>4, <1>5, <1>6, <1>7, <1>8 DEF SmartCartNext

LEMMA CartPromise == CartInv => PromiseKept
<1> SUFFICES ASSUME CartInv PROVE PromiseKept
  OBVIOUS
<1>1. ASSUME NEW i \in Intents PROVE bought[i] <= short[i]
  <2>1. CopiesPromised(i) /\ bought[i] \in Nat /\ short[i] \in Nat
    BY DEF CartInv, CartTyped
  <2>2. PICK n \in Nat : n = Cardinality(Holders(i))
    BY HoldersFinite
  <2>3. QED BY <2>1, <2>2 DEF CopiesPromised, InCart
<1>2. QED BY <1>1 DEF CartInv, PromiseKept, PromiseKeptOnce

-----------------------------------------------------------------------------
(* The till.  What a tap's stage says of its row, its link and its lock.   *)

Stages == {"idle", "begun", "priced", "quoted", "billed", "stored", "refused",
           "ending", "done"}

ChargesTyped ==
    /\ starCharge \in [Charges -> [on : Taps \cup {NoTap},
                                   at : {"none", "approved", "credited", "told",
                                         "deferred", "lost"}]]
    /\ \A x \in Charges : starCharge[x].at # "none" => starCharge[x].on \in Taps

TillTyped ==
    /\ tap \in [Taps -> [shape : TapShape, at : Stages]]
    /\ tapRow \in [Taps -> {"none", "PENDING", "COMPLETED", "CANCELED"}]
    /\ price \in [Taps -> Nat] /\ off \in [Taps -> 0 .. 100]
    /\ link \in [Taps -> {"none", "url", "invoice"}]
    /\ payLock \in BOOLEAN /\ userRow \in Taps \cup {NoTap}
    /\ wallet \in Nat /\ onceOff \in 0 .. 100
    /\ plan \in {"none", "trial", "paid"} /\ trialLeft \in BOOLEAN /\ paidRuns \in BOOLEAN
    /\ ChargesTyped /\ queued \subseteq Taps
    /\ grants \in {0, 1} /\ slow \in 0 .. MaxSlow /\ upsets \in 0 .. MaxUpsets

Unwritten == {"idle", "begun", "priced", "quoted", "billed"}
Left == {"ending", "done"}

StageTrue(t) ==
    /\ tap[t].at \in Unwritten => tapRow[t] = "none"
    /\ tap[t].at \in {"stored", "refused"} => tapRow[t] = "PENDING"
    /\ tap[t].at \notin Left => link[t] = "none"
    /\ tap[t].at \in {"quoted", "billed", "stored", "refused"} => ~Is(t, "balance")
    /\ tap[t].at = "priced" <=> userRow = t
    /\ tap[t].at = "priced" => Is(t, "balance")

RowTrue(t) ==
    /\ link[t] # "none" => tapRow[t] \in {"PENDING", "COMPLETED"}
    /\ link[t] # "none" \/ tapRow[t] = "PENDING" => ~Is(t, "balance")

(* Whoever holds the lock was quoted the discount that is still there.     *)
QuoteStands(t) == tap[t].at = "priced" /\ off[t] > 0 => onceOff > 0

TapsInv == \A t \in Taps : StageTrue(t) /\ RowTrue(t) /\ QuoteStands(t)

LEMMA TillBounds ==
  /\ ListPrice \in Nat /\ Funds \in Nat /\ TrialPrice \in Nat
  /\ MaxSlow \in Nat /\ MaxUpsets \in Nat
  /\ \A o \in Offs : o \in 1 .. 100
  /\ Shapes \in [Taps -> SUBSET TapShape]
  /\ IsFiniteSet(Taps) /\ IsFiniteSet(Charges) /\ NoTap \notin Taps
  BY TillAssumption

(* What a shape allows. *)
LEMMA ShapesExclude ==
  ASSUME TillTyped, NEW t \in Taps
  PROVE  /\ Is(t, "trial") => Is(t, "balance") /\ ~Is(t, "plan") /\ ~Is(t, "deposit")
         /\ Is(t, "deposit") => ~Is(t, "balance") /\ ~Is(t, "plan")
         /\ Is(t, "stars") => ~Is(t, "balance")
         /\ Kept(t) <=> Guarded(tap[t].shape)
<1>1. tap[t].shape \in TapShape
  BY DEF TillTyped
<1>2. DOMAIN tap[t].shape = {"surface", "kind", "method"}
  BY <1>1 DEF TapShape
<1>3. \A w : Is(t, w) <=> w \in {tap[t].shape.surface, tap[t].shape.kind, tap[t].shape.method}
  BY <1>2 DEF Is
<1>4. /\ tap[t].shape.surface \in {"bot", "cabinet"}
      /\ tap[t].shape.kind \in {"plan", "pack", "deposit", "trial"}
      /\ tap[t].shape.method \in {"balance", "gateway", "stars"}
      /\ tap[t].shape.kind = "trial" => tap[t].shape.method = "balance"
      /\ tap[t].shape.kind = "deposit" => tap[t].shape.method # "balance"
  BY <1>1 DEF TapShape
<1>5. QED BY <1>3, <1>4 DEF Kept, Guarded

LEMMA SameShape ==
  ASSUME NEW t, tap'[t].shape = tap[t].shape
  PROVE  (\A w : Is(t, w)' = Is(t, w)) /\ Kept(t)' = Kept(t)
  BY DEF Is, Kept

(* A quote is a natural number. *)
LEMMA QuoteIsNat ==
  ASSUME NEW pct \in 0 .. 100 PROVE (ListPrice * (100 - pct)) \div 100 \in Nat
<1>1. ListPrice * (100 - pct) \in Nat
  BY TillBounds
<1>2. \A n \in Nat : n \div 100 \in Nat
  OBVIOUS
<1>3. QED BY <1>1, <1>2

LEMMA QuotedTyped ==
  ASSUME TillTyped, NEW t \in Taps, Quoted(t)
  PROVE  /\ price' \in [Taps -> Nat] /\ off' \in [Taps -> 0 .. 100]
         /\ off'[t] > 0 => onceOff > 0
         /\ \A u \in Taps \ {t} : price'[u] = price[u] /\ off'[u] = off[u]
<1> DEFINE pct == IF Is(t, "deposit") \/ Is(t, "trial") THEN 0 ELSE onceOff
           cost == (ListPrice * (100 - pct)) \div 100
<1>1. pct \in 0 .. 100 /\ (pct > 0 => onceOff > 0)
  BY DEF TillTyped
<1>2. cost \in Nat
  BY <1>1, QuoteIsNat
<1>3. price' = [price EXCEPT ![t] = cost] /\ off' = [off EXCEPT ![t] = pct]
  BY DEF Quoted
<1> HIDE DEF pct, cost
<1>4. QED BY <1>1, <1>2, <1>3 DEF TillTyped

(* The disjuncts of TillNext, each with its actor. *)
LEMMA TillSteps ==
  ASSUME TillNext
  PROVE  \/ \E t \in Taps : \E s \in Shapes[t] : Tap(t, s)
         \/ \E t \in Taps :
              \/ TapEnds(t) \/ TapDies(t) \/ LockWallet(t) \/ BuyFromWallet(t)
              \/ TooShort(t) \/ GiveTrial(t) \/ RefuseTrial(t) \/ AskPrice(t)
              \/ BuyForNothing(t) \/ (Invoiced(t) /\ AskGateway(t)) \/ CommitRow(t)
              \/ ShowLink(t) \/ InvoiceRefused(t) \/ CloseRow(t) \/ PayLink(t) \/ RunQueued(t)
         \/ \E x \in Charges :
              \/ \E t \in Taps : PreCheckout(x, t)
              \/ CreditCharge(x) \/ ReportCharge(x) \/ DeferCharge(x) \/ LoseCharge(x)
         \/ PayLockExpires \/ GrantOff \/ PlanEnds
  BY DEF TillNext, TapToPay, TapToTopUp, TapForTrial, BillInBot, BillInCabinet,
     BillTopUpInBot, BillTopUpInCabinet

(* Delivering a row and settling one keep the types. *)
LEMMA DeliveredTyped ==
  ASSUME TillTyped, NEW t \in Taps, Delivered(t)
  PROVE  /\ tapRow' \in [Taps -> {"none", "PENDING", "COMPLETED", "CANCELED"}]
         /\ onceOff' \in 0 .. 100
         /\ plan' \in {"none", "trial", "paid"} /\ trialLeft' \in BOOLEAN /\ paidRuns' \in BOOLEAN
  BY DEF Delivered, TillTyped

LEMMA SettledTyped ==
  ASSUME TillTyped, NEW t \in Taps, Settled(t)
  PROVE  /\ tapRow' \in [Taps -> {"none", "PENDING", "COMPLETED", "CANCELED"}]
         /\ wallet' \in Nat /\ onceOff' \in 0 .. 100
         /\ plan' \in {"none", "trial", "paid"} /\ trialLeft' \in BOOLEAN /\ paidRuns' \in BOOLEAN
<1>1. wallet' \in Nat
  BY DEF Settled, TillTyped
<1>2. QED BY <1>1, DeliveredTyped DEF Settled

LEMMA MovesTyped ==
  ASSUME ChargesTyped, NEW x \in Charges, NEW z \in {"credited", "told", "deferred", "lost"},
         Moves(x, z), starCharge[x].at # "none"
  PROVE  ChargesTyped'
  BY DEF Moves, ChargesTyped

LEMMA SameCharges == ASSUME ChargesTyped, starCharge' = starCharge PROVE ChargesTyped'
  BY DEF ChargesTyped

LEMMA TypedStep == TillTyped /\ [TillNext]_tillVars => TillTyped'
<1> SUFFICES ASSUME TillTyped, TillNext PROVE TillTyped'
  BY SameCharges DEF TillTyped, tillVars
<1> USE TillBounds DEF quote, buyer, subscription, stars, limits
<1>1. ChargesTyped /\ (starCharge' = starCharge => ChargesTyped')
  BY SameCharges DEF TillTyped
<1>2. ASSUME NEW t \in Taps, NEW z \in Stages, Goes(t, z)
      PROVE  tap' \in [Taps -> [shape : TapShape, at : Stages]]
  BY <1>2 DEF TillTyped, Goes
<1>3. ASSUME NEW t \in Taps, NEW s \in Shapes[t], Tap(t, s) PROVE TillTyped'
  <2>1. s \in TapShape
    BY <1>3
  <2>2. tap' \in [Taps -> [shape : TapShape, at : Stages]]
    BY <1>3, <2>1 DEF Tap, TillTyped, Stages
  <2>3. QED BY <1>1, <1>3, <2>2 DEF Tap, TillTyped
<1>4. ASSUME NEW t \in Taps, TapEnds(t) PROVE TillTyped'
  <2>1. tap' \in [Taps -> [shape : TapShape, at : Stages]]
    BY <1>2, <1>4 DEF TapEnds, Stages
  <2>2. QED BY <1>1, <1>4, <2>1 DEF TapEnds, TillTyped
<1>5. ASSUME NEW t \in Taps, TapDies(t) PROVE TillTyped'
  <2>1. tap' \in [Taps -> [shape : TapShape, at : Stages]]
    BY <1>2, <1>5 DEF TapDies, Stages
  <2>2. QED BY <1>1, <1>5, <2>1 DEF TapDies, TillTyped
<1>6. ASSUME NEW t \in Taps, LockWallet(t) PROVE TillTyped'
  <2>1. tap' \in [Taps -> [shape : TapShape, at : Stages]]
    BY <1>2, <1>6 DEF LockWallet, Stages
  <2>2. price' \in [Taps -> Nat] /\ off' \in [Taps -> 0 .. 100]
    BY <1>6, QuotedTyped DEF LockWallet
  <2>3. QED BY <1>1, <1>6, <2>1, <2>2 DEF LockWallet, TakesRow, TillTyped
<1>7. ASSUME NEW t \in Taps, AskPrice(t) PROVE TillTyped'
  <2>1. tap' \in [Taps -> [shape : TapShape, at : Stages]]
    BY <1>2, <1>7 DEF AskPrice, Stages
  <2>2. price' \in [Taps -> Nat] /\ off' \in [Taps -> 0 .. 100]
    BY <1>7, QuotedTyped DEF AskPrice
  <2>3. QED BY <1>1, <1>7, <2>1, <2>2 DEF AskPrice, TillTyped
<1>8. ASSUME NEW t \in Taps, BuyFromWallet(t) PROVE TillTyped'
  <2>1. tap' \in [Taps -> [shape : TapShape, at : Stages]]
    BY <1>2, <1>8 DEF BuyFromWallet, Stages
  <2>2. wallet' \in Nat
    BY <1>8 DEF BuyFromWallet, TillTyped
  <2>3. /\ tapRow' \in [Taps -> {"none", "PENDING", "COMPLETED", "CANCELED"}]
        /\ onceOff' \in 0 .. 100
        /\ plan' \in {"none", "trial", "paid"} /\ trialLeft' \in BOOLEAN /\ paidRuns' \in BOOLEAN
    BY <1>8, DeliveredTyped DEF BuyFromWallet
  <2>4. userRow' \in Taps \cup {NoTap}
    BY <1>8 DEF BuyFromWallet, LetsGo, TillTyped
  <2>5. QED BY <1>1, <1>8, <2>1, <2>2, <2>3, <2>4 DEF BuyFromWallet, TillTyped
<1>9. ASSUME NEW t \in Taps, GiveTrial(t) PROVE TillTyped'
  <2>1. tap' \in [Taps -> [shape : TapShape, at : Stages]]
    BY <1>2, <1>9 DEF GiveTrial, Stages
  <2>2. wallet' \in Nat
    BY <1>9 DEF GiveTrial, TrialOpen, TillTyped
  <2>3. QED BY <1>1, <1>9, <2>1, <2>2 DEF GiveTrial, LetsGo, TillTyped
<1>10. ASSUME NEW t \in Taps, TooShort(t) \/ RefuseTrial(t) PROVE TillTyped'
  <2>1. tap' \in [Taps -> [shape : TapShape, at : Stages]]
    BY <1>2, <1>10 DEF TooShort, RefuseTrial, Stages
  <2>2. /\ userRow' \in Taps \cup {NoTap}
        /\ UNCHANGED <<tapRow, quote, link, payLock, buyer, stars, limits>>
    BY <1>10 DEF TooShort, RefuseTrial, LetsGo, TillTyped
  <2>3. QED BY <1>1, <2>1, <2>2 DEF TillTyped
<1>11. ASSUME NEW t \in Taps, BuyForNothing(t) PROVE TillTyped'
  <2>1. tap' \in [Taps -> [shape : TapShape, at : Stages]]
    BY <1>2, <1>11 DEF BuyForNothing, Stages
  <2>2. /\ tapRow' \in [Taps -> {"none", "PENDING", "COMPLETED", "CANCELED"}]
        /\ onceOff' \in 0 .. 100
        /\ plan' \in {"none", "trial", "paid"} /\ trialLeft' \in BOOLEAN /\ paidRuns' \in BOOLEAN
    BY <1>11, DeliveredTyped DEF BuyForNothing
  <2>3. QED BY <1>1, <1>11, <2>1, <2>2 DEF BuyForNothing, TillTyped
<1>12. ASSUME NEW t \in Taps, AskGateway(t) PROVE TillTyped'
  <2>1. tap' \in [Taps -> [shape : TapShape, at : Stages]]
    BY <1>2, <1>12 DEF AskGateway, Stages
  <2>2. QED BY <1>1, <1>12, <2>1 DEF AskGateway, TillTyped
<1>13. ASSUME NEW t \in Taps, InvoiceRefused(t) PROVE TillTyped'
  <2>1. tap' \in [Taps -> [shape : TapShape, at : Stages]]
    BY <1>2, <1>13 DEF InvoiceRefused, Stages
  <2>2. QED BY <1>1, <1>13, <2>1 DEF InvoiceRefused, TillTyped
<1>14. ASSUME NEW t \in Taps, CommitRow(t) \/ CloseRow(t) PROVE TillTyped'
  <2>1. tap' \in [Taps -> [shape : TapShape, at : Stages]]
    BY <1>2, <1>14 DEF CommitRow, CloseRow, Stages
  <2>2. /\ tapRow' \in [Taps -> {"none", "PENDING", "COMPLETED", "CANCELED"}]
        /\ UNCHANGED <<quote, link, payLock, userRow, buyer, stars, limits>>
    BY <1>14 DEF CommitRow, CloseRow, RowStands, ClosesRow, TillTyped
  <2>3. QED BY <1>1, <2>1, <2>2 DEF TillTyped
<1>15. ASSUME NEW t \in Taps, ShowLink(t) PROVE TillTyped'
  <2>1. tap' \in [Taps -> [shape : TapShape, at : Stages]]
    BY <1>2, <1>15 DEF ShowLink, Stages
  <2>2. QED BY <1>1, <1>15, <2>1 DEF ShowLink, TillTyped
<1>16. ASSUME UNCHANGED <<tap, quote, link, payLock, userRow>>, ChargesTyped', queued' \subseteq Taps,
              slow' = slow, grants' = grants, upsets' \in 0 .. MaxUpsets,
              UNCHANGED <<tapRow, buyer>> \/ \E t \in Taps : Settled(t)
       PROVE  TillTyped'
  <2>1. CASE UNCHANGED <<tapRow, buyer>>
    BY <1>16, <2>1 DEF TillTyped
  <2>2. ASSUME NEW t \in Taps, Settled(t) PROVE TillTyped'
    <3>1. /\ tapRow' \in [Taps -> {"none", "PENDING", "COMPLETED", "CANCELED"}]
          /\ wallet' \in Nat /\ onceOff' \in 0 .. 100
          /\ plan' \in {"none", "trial", "paid"} /\ trialLeft' \in BOOLEAN /\ paidRuns' \in BOOLEAN
      BY <2>2, SettledTyped
    <3>2. QED BY <1>16, <3>1 DEF TillTyped
  <2>3. QED BY <1>16, <2>1, <2>2
<1>17. ASSUME NEW t \in Taps, PayLink(t) \/ RunQueued(t) PROVE TillTyped'
  <2>1. /\ starCharge' = starCharge /\ queued' \subseteq Taps
        /\ UNCHANGED <<tap, quote, link, payLock, userRow, limits>>
        /\ UNCHANGED <<tapRow, buyer>> \/ Settled(t)
    BY <1>17 DEF PayLink, RunQueued, TillTyped
  <2>2. QED BY <1>1, <1>16, <2>1 DEF TillTyped
<1>18. ASSUME NEW x \in Charges, CreditCharge(x) PROVE TillTyped'
  <2>1. starCharge[x].on \in Taps /\ ChargesTyped'
    BY <1>1, <1>18, MovesTyped DEF CreditCharge, ChargesTyped
  <2>2. /\ queued' \subseteq Taps /\ Settled(starCharge[x].on)
        /\ UNCHANGED <<tap, quote, link, payLock, userRow, limits>>
    BY <1>18 DEF CreditCharge, TillTyped
  <2>3. QED BY <1>16, <2>1, <2>2 DEF TillTyped
<1>19. ASSUME NEW x \in Charges, ReportCharge(x) \/ LoseCharge(x) \/ DeferCharge(x)
       PROVE  TillTyped'
  <2>1. starCharge[x].on \in Taps /\ ChargesTyped'
    <3>1. starCharge[x].at = "approved"
      BY <1>19 DEF ReportCharge, LoseCharge, DeferCharge
    <3>2. Moves(x, "told") \/ Moves(x, "lost") \/ Moves(x, "deferred")
      BY <1>19 DEF ReportCharge, LoseCharge, DeferCharge
    <3>3. QED BY <1>1, <3>1, <3>2, MovesTyped DEF ChargesTyped
  <2>2. /\ queued' \in {queued, queued \cup {starCharge[x].on}}
        /\ upsets' = upsets \/ (upsets > 0 /\ upsets' = upsets - 1)
        /\ slow' = slow /\ grants' = grants
        /\ UNCHANGED <<tap, tapRow, quote, link, payLock, userRow, buyer>>
    BY <1>19 DEF ReportCharge, LoseCharge, DeferCharge
  <2>3. queued' \subseteq Taps /\ upsets' \in 0 .. MaxUpsets
    BY <2>1, <2>2 DEF TillTyped
  <2>4. QED BY <1>16, <2>1, <2>2, <2>3
<1>20. ASSUME NEW x \in Charges, NEW t \in Taps, PreCheckout(x, t) PROVE TillTyped'
  <2>1. ChargesTyped'
    BY <1>1, <1>20 DEF PreCheckout, ChargesTyped
  <2>2. QED BY <1>16, <1>20, <2>1 DEF PreCheckout, TillTyped
<1>21. CASE PayLockExpires
  <2>1. slow' = slow \/ (slow > 0 /\ slow' = slow - 1)
    BY <1>21 DEF PayLockExpires
  <2>2. slow' \in 0 .. MaxSlow
    BY <2>1 DEF TillTyped
  <2>3. QED BY <1>1, <1>21, <2>2 DEF PayLockExpires, TillTyped
<1>22. CASE GrantOff
  <2>1. onceOff' \in 0 .. 100
    BY <1>22 DEF GrantOff
  <2>2. QED BY <1>1, <1>22, <2>1 DEF GrantOff, TillTyped
<1>24. CASE PlanEnds
  BY <1>1, <1>24 DEF PlanEnds, TillTyped
<1>23. QED
  BY <1>3, <1>4, <1>5, <1>6, <1>7, <1>8, <1>9, <1>10, <1>11, <1>12, <1>13, <1>14,
     <1>15, <1>17, <1>18, <1>19, <1>20, <1>21, <1>22, <1>24, TillSteps

(* A tap that nothing touches stays as true as it was; the discount it was *)
(* quoted may go only while it does not hold the lock.                     *)
LEMMA OthersStand ==
  ASSUME TapsInv, NEW u \in Taps, tap'[u] = tap[u], tapRow'[u] = tapRow[u],
         link'[u] = link[u], off'[u] = off[u], userRow' = u <=> userRow = u,
         (onceOff > 0 => onceOff' > 0) \/ userRow # u
  PROVE  (StageTrue(u) /\ RowTrue(u) /\ QuoteStands(u))'
<1>1. StageTrue(u) /\ RowTrue(u) /\ QuoteStands(u)
  BY DEF TapsInv
<1>2. Is(u, "balance")' = Is(u, "balance")
  BY SameShape
<1>3. QED BY <1>1, <1>2 DEF StageTrue, RowTrue, QuoteStands

(* A row that is settled while nobody holds the user's lock.               *)
LEMMA SettledStands ==
  ASSUME TillTyped, TapsInv, NEW t \in Taps, Settled(t), link[t] # "none",
         UNCHANGED <<tap, off, link, userRow>>
  PROVE  TapsInv'
<1>1. userRow = NoTap /\ NoTap \notin Taps
  BY TillBounds DEF Settled, Unused
<1>2. tapRow' = [tapRow EXCEPT ![t] = "COMPLETED"]
  BY DEF Settled, Delivered
<1>3. ASSUME NEW u \in Taps \ {t} PROVE (StageTrue(u) /\ RowTrue(u) /\ QuoteStands(u))'
  BY <1>1, <1>2, <1>3, OthersStand DEF TillTyped
<1>4. (StageTrue(t) /\ RowTrue(t) /\ QuoteStands(t))'
  <2>1. Is(t, "balance")' = Is(t, "balance")
    BY SameShape
  <2>2. StageTrue(t) /\ RowTrue(t) /\ QuoteStands(t)
    BY DEF TapsInv
  <2>3. tap[t].at \in Left /\ tap[t].at # "priced"
    BY <2>2 DEF StageTrue, Left
  <2>4. tap[t].at \notin Unwritten \cup {"stored", "refused"}
    BY <2>3 DEF Left, Unwritten
  <2>5. tapRow'[t] = "COMPLETED"
    BY <1>2 DEF TillTyped
  <2>6. QED BY <1>1, <2>1, <2>2, <2>3, <2>4, <2>5 DEF StageTrue, RowTrue, QuoteStands, Left
<1>5. QED BY <1>3, <1>4 DEF TapsInv

(* A charge, and a settlement in the queue, answer an invoice.             *)
ChargesLinked ==
    /\ \A x \in Charges : starCharge[x].at # "none" => link[starCharge[x].on] = "invoice"
    /\ \A t \in queued : link[t] = "invoice"

LEMMA TapsStep == TillTyped /\ TapsInv /\ ChargesLinked /\ [TillNext]_tillVars => TapsInv'
<1> SUFFICES ASSUME TillTyped, TapsInv, ChargesLinked, [TillNext]_tillVars PROVE TapsInv'
  OBVIOUS
<1> USE DEF quote, buyer, subscription, stars, limits
<1>0. NoTap \notin Taps
  BY TillBounds
<1>1. ASSUME UNCHANGED <<tap, tapRow, link, off, userRow>>, onceOff' = onceOff \/ onceOff' > 0
      PROVE  TapsInv'
  <2>1. ASSUME NEW u \in Taps PROVE (StageTrue(u) /\ RowTrue(u) /\ QuoteStands(u))'
    BY <1>1, OthersStand
  <2>2. QED BY <2>1 DEF TapsInv
<1>2. CASE UNCHANGED tillVars
  BY <1>1, <1>2 DEF tillVars
<1> DEFINE Stand(u) == StageTrue(u) /\ RowTrue(u) /\ QuoteStands(u)
<1>3. ASSUME NEW t \in Taps, NEW s \in Shapes[t], Tap(t, s) PROVE TapsInv'
  <2>1. ASSUME NEW u \in Taps \ {t} PROVE Stand(u)'
    BY <1>3, OthersStand DEF Tap, TillTyped
  <2>2. Stand(t)'
    <3>1. Stand(t) /\ tap[t].at = "idle" /\ tap'[t].at = "begun"
      BY <1>3 DEF Tap, At, TapsInv, TillTyped
    <3>2. UNCHANGED <<tapRow, link, userRow>>
      BY <1>3 DEF Tap
    <3>3. QED BY <3>1, <3>2 DEF StageTrue, RowTrue, QuoteStands, Unwritten, Left
  <2>3. QED BY <2>1, <2>2 DEF TapsInv
(* A handler goes on: what is left to see is its own row, link and lock.   *)
<1>4. ASSUME NEW t \in Taps, NEW z \in Stages, Goes(t, z),
             UNCHANGED <<off, link>>, userRow' \in {userRow, NoTap},
             userRow' # userRow => userRow = t,
             (onceOff > 0 => onceOff' > 0) \/ userRow \in {t, NoTap},
             \A u \in Taps \ {t} : tapRow'[u] = tapRow[u],
             z # "priced", userRow' # t, z \in {"billed"} \cup Left, 
             tapRow'[t] = tapRow[t] \/ (tapRow'[t] = "COMPLETED" /\ z \in Left)
                \/ (tapRow'[t] = "CANCELED" /\ link[t] = "none" /\ z \in Left),
             tapRow[t] = "none" \/ z \in Left,
             z = "billed" => ~Is(t, "balance")
      PROVE  TapsInv'
  <2>1. ASSUME NEW u \in Taps \ {t} PROVE Stand(u)'
    BY <1>0, <1>4, <2>1, OthersStand DEF Goes, TillTyped
  <2>2. Stand(t)'
    <3>1. Stand(t) /\ tap'[t].at = z /\ tap'[t].shape = tap[t].shape
      BY <1>4 DEF Goes, TapsInv, TillTyped
    <3>2. Is(t, "balance")' = Is(t, "balance")
      BY <3>1, SameShape
    <3>3. link'[t] = link[t]
      BY <1>4
    <3>4. z = "billed" => link[t] = "none"
      BY <1>4, <3>1 DEF RowTrue, Left
    <3>5. QED BY <1>4, <3>1, <3>2, <3>3, <3>4
              DEF StageTrue, RowTrue, QuoteStands, Unwritten, Left
  <2>3. QED BY <2>1, <2>2 DEF TapsInv
<1>5. ASSUME NEW t \in Taps, TapEnds(t) \/ TapDies(t) PROVE TapsInv'
  <2>1. PICK z \in Left : Goes(t, z)
    BY <1>5 DEF TapEnds, TapDies, Left
  <2>2. Stand(t)
    BY DEF TapsInv
  <2>3. /\ userRow' \in {userRow, NoTap} /\ userRow' # t
        /\ userRow' # userRow => userRow = t
        /\ UNCHANGED <<tapRow, off, link, onceOff>>
    BY <1>0, <1>5, <2>2 DEF TapEnds, TapDies, StageTrue, At
  <2>4. z \in Stages /\ z # "priced" /\ z # "billed"
    BY <2>1 DEF Left, Stages
  <2>5. QED BY <1>4, <2>1, <2>3, <2>4
<1>6. ASSUME NEW t \in Taps, BuyFromWallet(t) \/ GiveTrial(t) \/ TooShort(t) \/ RefuseTrial(t)
      PROVE  TapsInv'
  <2>1. Stand(t) /\ tap[t].at = "priced" /\ userRow = t /\ Goes(t, "ending")
    BY <1>6 DEF TapsInv, StageTrue, At, BuyFromWallet, GiveTrial, TooShort, RefuseTrial
  <2>2. /\ userRow' = NoTap
        /\ UNCHANGED <<off, link>>
    BY <1>6, <2>1 DEF BuyFromWallet, GiveTrial, TooShort, RefuseTrial, LetsGo
  <2>3. tapRow' = tapRow \/ tapRow' = [tapRow EXCEPT ![t] = "COMPLETED"]
    BY <1>6 DEF BuyFromWallet, GiveTrial, TooShort, RefuseTrial, Delivered
  <2>4. "ending" \in Stages /\ "ending" \in Left
    BY DEF Stages, Left
  <2>5. /\ \A u \in Taps \ {t} : tapRow'[u] = tapRow[u]
        /\ tapRow'[t] = tapRow[t] \/ tapRow'[t] = "COMPLETED"
    BY <2>3 DEF TillTyped
  <2>6. QED BY <1>0, <1>4, <2>1, <2>2, <2>4, <2>5
<1>7. ASSUME NEW t \in Taps, BuyForNothing(t) PROVE TapsInv'
  <2>1. Stand(t) /\ tap[t].at = "quoted" /\ userRow # t /\ Goes(t, "ending")
    BY <1>7 DEF TapsInv, StageTrue, At, BuyForNothing
  <2>2. UNCHANGED <<off, link, userRow>> /\ userRow = NoTap
    BY <1>7, <2>1 DEF BuyForNothing, Unused
  <2>3. tapRow' = [tapRow EXCEPT ![t] = "COMPLETED"]
    BY <1>7 DEF BuyForNothing, Delivered
  <2>4. "ending" \in Stages /\ "ending" \in Left
    BY DEF Stages, Left
  <2>5. /\ \A u \in Taps \ {t} : tapRow'[u] = tapRow[u]
        /\ tapRow'[t] = "COMPLETED"
    BY <2>3 DEF TillTyped
  <2>6. QED BY <1>0, <1>4, <2>1, <2>2, <2>4, <2>5
<1>8. ASSUME NEW t \in Taps, Invoiced(t), AskGateway(t) PROVE TapsInv'
  <2>1. Stand(t) /\ tap[t].at = "quoted" /\ userRow # t
    BY <1>8 DEF TapsInv, StageTrue, At, Invoiced
  <2>2. PICK z \in {"billed", "ending"} : Goes(t, z)
    BY <1>8 DEF AskGateway
  <2>3. UNCHANGED <<tapRow, off, link, userRow, onceOff>>
    BY <1>8 DEF AskGateway
  <2>4. tapRow[t] = "none" /\ ~Is(t, "balance") /\ z \in {"billed"} \cup Left /\ z \in Stages
    BY <2>1 DEF StageTrue, Unwritten, Left, Stages
  <2>5. QED BY <1>4, <2>1, <2>2, <2>3, <2>4
<1>9. ASSUME NEW t \in Taps, CloseRow(t) PROVE TapsInv'
  <2>1. Stand(t) /\ tap[t].at = "refused" /\ userRow # t /\ Goes(t, "ending")
    BY <1>9 DEF TapsInv, StageTrue, At, CloseRow
  <2>2. UNCHANGED <<off, link, userRow, onceOff>>
    BY <1>9 DEF CloseRow
  <2>3. /\ \A u \in Taps \ {t} : tapRow'[u] = tapRow[u]
        /\ tapRow'[t] = "CANCELED" /\ link[t] = "none"
    BY <1>9, <2>1 DEF CloseRow, ClosesRow, TillTyped, StageTrue, Left
  <2>4. "ending" \in Stages /\ "ending" \in Left
    BY DEF Stages, Left
  <2>5. QED BY <1>4, <2>1, <2>2, <2>3, <2>4
(* A handler goes on to where its row, its lock or its link is new.        *)
<1>10. ASSUME NEW t \in Taps, NEW z \in Stages, Goes(t, z), onceOff' = onceOff,
              \A u \in Taps \ {t} : /\ tapRow'[u] = tapRow[u] /\ link'[u] = link[u]
                                    /\ off'[u] = off[u] /\ (userRow' = u <=> userRow = u),
              (StageTrue(t) /\ RowTrue(t) /\ QuoteStands(t))'
       PROVE  TapsInv'
  <2>1. ASSUME NEW u \in Taps \ {t} PROVE Stand(u)'
    <3>1. tap'[u] = tap[u]
      BY <1>10, <2>1 DEF Goes, TillTyped
    <3>2. QED BY <1>10, <3>1, OthersStand
  <2>2. QED BY <1>10, <2>1 DEF TapsInv
<1>11. ASSUME NEW t \in Taps, LockWallet(t) PROVE TapsInv'
  <2>1. /\ Stand(t) /\ tap[t].at = "begun" /\ Goes(t, "priced") /\ Is(t, "balance")
        /\ userRow = NoTap /\ userRow' = t
    BY <1>11 DEF TapsInv, At, LockWallet, TakesRow
  <2>2. /\ off'[t] > 0 => onceOff > 0
        /\ \A u \in Taps \ {t} : off'[u] = off[u]
    BY <1>11, QuotedTyped DEF LockWallet
  <2>3. UNCHANGED <<tapRow, link, onceOff>>
    BY <1>11 DEF LockWallet
  <2>4. tap'[t].at = "priced" /\ tap'[t].shape = tap[t].shape
    BY <2>1 DEF Goes, TillTyped
  <2>5. Is(t, "balance")' = Is(t, "balance")
    BY <2>4, SameShape
  <2>6. Stand(t)'
    BY <2>1, <2>2, <2>3, <2>4, <2>5 DEF StageTrue, RowTrue, QuoteStands, Unwritten, Left
  <2>7. "priced" \in Stages
    BY DEF Stages
  <2>8. QED BY <1>0, <1>10, <2>1, <2>2, <2>3, <2>6, <2>7
<1>12. ASSUME NEW t \in Taps, AskPrice(t) PROVE TapsInv'
  <2>1. Stand(t) /\ tap[t].at = "begun" /\ Goes(t, "quoted") /\ ~Is(t, "balance")
    BY <1>12 DEF TapsInv, At, AskPrice
  <2>2. \A u \in Taps \ {t} : off'[u] = off[u]
    BY <1>12, QuotedTyped DEF AskPrice
  <2>3. UNCHANGED <<tapRow, link, onceOff, userRow>>
    BY <1>12 DEF AskPrice
  <2>4. tap'[t].at = "quoted" /\ tap'[t].shape = tap[t].shape
    BY <2>1 DEF Goes, TillTyped
  <2>5. Is(t, "balance")' = Is(t, "balance")
    BY <2>4, SameShape
  <2>6. Stand(t)'
    BY <2>1, <2>3, <2>4, <2>5 DEF StageTrue, RowTrue, QuoteStands, Unwritten, Left
  <2>7. "quoted" \in Stages
    BY DEF Stages
  <2>8. QED BY <1>10, <2>1, <2>2, <2>3, <2>6, <2>7
<1>13. ASSUME NEW t \in Taps, CommitRow(t) PROVE TapsInv'
  <2>1. Stand(t) /\ tap[t].at \in {"billed", "quoted"} /\ Goes(t, "stored")
    BY <1>13 DEF TapsInv, At, CommitRow
  <2>2. UNCHANGED <<off, link, onceOff, userRow>>
    BY <1>13 DEF CommitRow
  <2>3. \A u \in Taps : tapRow'[u] = IF u = t THEN "PENDING" ELSE tapRow[u]
    BY <1>13 DEF CommitRow, RowStands, TillTyped
  <2>4. tap'[t].at = "stored" /\ tap'[t].shape = tap[t].shape
    BY <2>1 DEF Goes, TillTyped
  <2>5. Is(t, "balance")' = Is(t, "balance")
    BY <2>4, SameShape
  <2>6. Stand(t)'
    BY <2>1, <2>2, <2>3, <2>4, <2>5 DEF StageTrue, RowTrue, QuoteStands, Unwritten, Left
  <2>7. "stored" \in Stages
    BY DEF Stages
  <2>8. QED BY <1>10, <2>1, <2>2, <2>3, <2>6, <2>7
<1>14. ASSUME NEW t \in Taps, InvoiceRefused(t) PROVE TapsInv'
  <2>1. Stand(t) /\ tap[t].at = "stored" /\ Goes(t, "refused")
    BY <1>14 DEF TapsInv, At, InvoiceRefused
  <2>2. UNCHANGED <<off, link, onceOff, userRow, tapRow>>
    BY <1>14 DEF InvoiceRefused
  <2>4. tap'[t].at = "refused" /\ tap'[t].shape = tap[t].shape
    BY <2>1 DEF Goes, TillTyped
  <2>5. Is(t, "balance")' = Is(t, "balance")
    BY <2>4, SameShape
  <2>6. Stand(t)'
    BY <2>1, <2>2, <2>4, <2>5 DEF StageTrue, RowTrue, QuoteStands, Unwritten, Left
  <2>7. "refused" \in Stages
    BY DEF Stages
  <2>8. QED BY <1>10, <2>1, <2>2, <2>6, <2>7
<1>15. ASSUME NEW t \in Taps, ShowLink(t) PROVE TapsInv'
  <2>1. Stand(t) /\ tap[t].at = "stored" /\ Goes(t, "ending")
    BY <1>15 DEF TapsInv, At, ShowLink
  <2>2. UNCHANGED <<off, tapRow, onceOff, userRow>>
    BY <1>15 DEF ShowLink
  <2>3. \A u \in Taps \ {t} : link'[u] = link[u]
    BY <1>15 DEF ShowLink, TillTyped
  <2>4. tap'[t].at = "ending" /\ tap'[t].shape = tap[t].shape
    BY <2>1 DEF Goes, TillTyped
  <2>5. Is(t, "balance")' = Is(t, "balance")
    BY <2>4, SameShape
  <2>6. Stand(t)'
    BY <2>1, <2>2, <2>4, <2>5 DEF StageTrue, RowTrue, QuoteStands, Unwritten, Left
  <2>7. "ending" \in Stages
    BY DEF Stages
  <2>8. QED BY <1>10, <2>1, <2>2, <2>3, <2>6, <2>7
<1>17. CASE PayLockExpires \/ GrantOff \/ PlanEnds
  <2>1. onceOff' = onceOff \/ onceOff' > 0
    BY <1>17, TillBounds DEF PayLockExpires, GrantOff, PlanEnds
  <2>2. QED BY <1>1, <1>17, <2>1 DEF PayLockExpires, GrantOff, PlanEnds
<1>18. ASSUME NEW t \in Taps, PayLink(t) \/ RunQueued(t) PROVE TapsInv'
  <2>1. link[t] # "none" /\ UNCHANGED <<tap, off, link, userRow>>
    BY <1>18 DEF PayLink, RunQueued, ChargesLinked
  <2>2. CASE Settled(t)
    BY <2>1, <2>2, SettledStands
  <2>3. CASE UNCHANGED <<tapRow, buyer>>
    BY <1>1, <2>1, <2>3
  <2>4. QED BY <1>18, <2>2, <2>3 DEF PayLink, RunQueued
<1>19. ASSUME NEW x \in Charges, CreditCharge(x) PROVE TapsInv'
  <2>1. starCharge[x].on \in Taps /\ link[starCharge[x].on] # "none"
    BY <1>19 DEF CreditCharge, ChargesLinked, TillTyped, ChargesTyped
  <2>2. Settled(starCharge[x].on) /\ UNCHANGED <<tap, off, link, userRow>>
    BY <1>19 DEF CreditCharge
  <2>3. QED BY <2>1, <2>2, SettledStands
<1>20. ASSUME NEW x \in Charges,
              ReportCharge(x) \/ DeferCharge(x) \/ LoseCharge(x) \/ \E t \in Taps : PreCheckout(x, t)
       PROVE  TapsInv'
  BY <1>1, <1>20 DEF ReportCharge, DeferCharge, LoseCharge, PreCheckout
<1>21. QED
  BY <1>2, <1>3, <1>5, <1>6, <1>7, <1>8, <1>9, <1>11, <1>12, <1>13, <1>14, <1>15, <1>17,
     <1>18, <1>19, <1>20, TillSteps

-----------------------------------------------------------------------------
(* Stars: who was charged.  An invoice is delivered for one charge, and a  *)
(* settlement in the queue was deferred by one.                            *)

ForCharge(t) == \E x \in Charges : /\ starCharge[x].on = t
                                   /\ starCharge[x].at \in {"credited", "deferred"}

StarsInv ==
    /\ ChargesLinked
    /\ \A x \in Charges : starCharge[x].at = "credited" => tapRow[starCharge[x].on] = "COMPLETED"
    /\ \A x, y \in Charges :
          (starCharge[x].at = "credited" /\ starCharge[y].at = "credited"
             /\ starCharge[x].on = starCharge[y].on) => x = y
    /\ \A x \in Charges :
          starCharge[x].at = "deferred" =>
             starCharge[x].on \in queued \/ tapRow[starCharge[x].on] = "COMPLETED"
    /\ \A t \in queued : ForCharge(t)
    /\ \A t \in Taps : link[t] = "invoice" /\ tapRow[t] = "COMPLETED" => ForCharge(t)

(* Nothing happens to the charges or to the rows of invoices.              *)
LEMMA StarsStand ==
  ASSUME TillTyped, StarsInv, UNCHANGED stars,
         \A t \in Taps : link[t] = "invoice" => link'[t] = "invoice" /\ tapRow'[t] = tapRow[t],
         \A t \in Taps : link[t] # "invoice" =>
            link'[t] # "invoice" \/ tapRow'[t] # "COMPLETED"
  PROVE  StarsInv'
<1> USE DEF stars
<1>1. ChargesLinked'
  BY DEF StarsInv, ChargesLinked, TillTyped, ChargesTyped
<1>2. \A t : ForCharge(t)' <=> ForCharge(t)
  BY DEF ForCharge
<1>3. \A x \in Charges : starCharge[x].at # "none" =>
         starCharge[x].on \in Taps /\ link[starCharge[x].on] = "invoice"
  BY DEF StarsInv, ChargesLinked, TillTyped, ChargesTyped
<1>4. \A t \in Taps : link'[t] = "invoice" /\ tapRow'[t] = "COMPLETED" => ForCharge(t)
  BY DEF StarsInv
<1>5. \A x \in Charges : /\ starCharge[x].at = "credited" => tapRow'[starCharge[x].on] = "COMPLETED"
                         /\ starCharge[x].at = "deferred" =>
                              \/ starCharge[x].on \in queued
                              \/ tapRow'[starCharge[x].on] = "COMPLETED"
  BY <1>3 DEF StarsInv
<1>6. QED BY <1>1, <1>2, <1>4, <1>5 DEF StarsInv

LEMMA StarsStep == TillTyped /\ TapsInv /\ StarsInv /\ [TillNext]_tillVars => StarsInv'
<1> SUFFICES ASSUME TillTyped, TapsInv, StarsInv, [TillNext]_tillVars PROVE StarsInv'
  OBVIOUS
<1> USE DEF quote, buyer, subscription, stars, limits
<1>0. \A t \in Taps : StageTrue(t) /\ RowTrue(t)
  BY DEF TapsInv
<1>1. ASSUME UNCHANGED stars, link' = link, 
             \A t \in Taps : \/ tapRow'[t] = tapRow[t] \/ link[t] # "invoice"
      PROVE  StarsInv'
  BY <1>1, StarsStand
<1>2. CASE UNCHANGED tillVars
  BY <1>1, <1>2 DEF tillVars
<1>3. ASSUME NEW t \in Taps,
             \/ \E s \in Shapes[t] : Tap(t, s)
             \/ TapEnds(t) \/ TapDies(t) \/ LockWallet(t) \/ TooShort(t) \/ RefuseTrial(t)
             \/ AskPrice(t) \/ AskGateway(t) \/ InvoiceRefused(t)
      PROVE  StarsInv'
  BY <1>1, <1>3 DEF Tap, TapEnds, TapDies, LockWallet, TooShort, RefuseTrial, AskPrice,
     AskGateway, InvoiceRefused
(* Whose handler is still under way shows no link yet. *)
<1>4. ASSUME NEW t \in Taps,
             \/ BuyFromWallet(t) \/ GiveTrial(t) \/ BuyForNothing(t)
             \/ CommitRow(t) \/ CloseRow(t)
      PROVE  StarsInv'
  <2>1. UNCHANGED stars /\ link' = link
    BY <1>4 DEF BuyFromWallet, GiveTrial, BuyForNothing, CommitRow, CloseRow
  <2>2. \A u \in Taps \ {t} : tapRow'[u] = tapRow[u]
    BY <1>4 DEF BuyFromWallet, GiveTrial, BuyForNothing, CommitRow, CloseRow, Delivered,
       RowStands, ClosesRow, TillTyped
  <2>3. link[t] = "none"
    BY <1>0, <1>4 DEF BuyFromWallet, GiveTrial, BuyForNothing, CommitRow, CloseRow, At,
       StageTrue, Left
  <2>4. QED BY <1>1, <2>1, <2>2, <2>3
<1>5. ASSUME NEW t \in Taps, ShowLink(t) PROVE StarsInv'
  <2>1. tapRow[t] = "PENDING" /\ link[t] = "none"
    BY <1>0, <1>5 DEF ShowLink, At, StageTrue, Left
  <2>2. UNCHANGED stars /\ tapRow' = tapRow /\ \A u \in Taps \ {t} : link'[u] = link[u]
    BY <1>5 DEF ShowLink, TillTyped
  <2>3. QED BY <2>1, <2>2, StarsStand
<1>6. ASSUME NEW t \in Taps, PayLink(t) PROVE StarsInv'
  <2>1. UNCHANGED stars /\ link' = link /\ link[t] = "url"
    BY <1>6 DEF PayLink
  <2>2. \A u \in Taps \ {t} : tapRow'[u] = tapRow[u]
    BY <1>6 DEF PayLink, Settled, Delivered, TillTyped
  <2>3. QED BY <1>1, <2>1, <2>2
<1>7. CASE PayLockExpires \/ GrantOff \/ PlanEnds
  BY <1>1, <1>7 DEF PayLockExpires, GrantOff, PlanEnds
(* The charges themselves.                                                 *)
<1> DEFINE On(x) == starCharge[x].on
           Is_(x, z) == starCharge[x].at = z
<1>8. \A x \in Charges : starCharge[x].at # "none" => On(x) \in Taps /\ link[On(x)] = "invoice"
  BY DEF StarsInv, ChargesLinked, TillTyped, ChargesTyped
<1>9. ASSUME NEW x \in Charges, NEW t \in Taps, PreCheckout(x, t) PROVE StarsInv'
  <2>1. /\ starCharge[x].at = "none" /\ link[t] = "invoice" /\ tapRow[t] = "PENDING"
        /\ starCharge' = [starCharge EXCEPT ![x] = [on |-> t, at |-> "approved"]]
        /\ UNCHANGED <<tapRow, link, queued>>
    BY <1>9 DEF PreCheckout
  <2>2. /\ starCharge'[x].on = t /\ starCharge'[x].at = "approved"
        /\ \A y \in Charges \ {x} : starCharge'[y] = starCharge[y]
    BY <2>1 DEF TillTyped, ChargesTyped
  <2>3. \A u : ForCharge(u) => ForCharge(u)'
    BY <2>1, <2>2 DEF ForCharge
  <2>4. ChargesLinked'
    BY <2>1, <2>2 DEF StarsInv, ChargesLinked
  <2>5. QED BY <2>1, <2>2, <2>3, <2>4 DEF StarsInv
(* A charge leaves "approved"; its row is settled in the same step or not. *)
<1>10. ASSUME NEW x \in Charges, NEW z \in {"credited", "told", "deferred", "lost"},
              starCharge[x].at = "approved", Moves(x, z), link' = link,
              queued \subseteq queued', queued' \subseteq queued \cup {On(x)},
              \A u \in Taps : tapRow'[u] = tapRow[u] \/ (u = On(x) /\ tapRow'[u] = "COMPLETED"),
              On(x) \in queued' \ queued => z = "deferred",
              tapRow' # tapRow => z = "credited",
              z = "deferred" => On(x) \in queued',
              z = "credited" => tapRow[On(x)] # "COMPLETED" /\ tapRow'[On(x)] = "COMPLETED"
       PROVE  StarsInv'
  <2>1. /\ starCharge'[x].on = On(x) /\ starCharge'[x].at = z
        /\ \A y \in Charges \ {x} : starCharge'[y] = starCharge[y]
    BY <1>10 DEF Moves, TillTyped, ChargesTyped
  <2>2. On(x) \in Taps /\ link[On(x)] = "invoice"
    BY <1>8, <1>10
  <2>3. \A u : ForCharge(u) => ForCharge(u)'
    BY <1>10, <2>1 DEF ForCharge
  <2>4. z \in {"credited", "deferred"} => \A u : u = On(x) => ForCharge(u)'
    BY <2>1 DEF ForCharge
  <2>5. ChargesLinked'
    BY <1>8, <1>10, <2>1, <2>2 DEF StarsInv, ChargesLinked
  <2>6. \A y \in Charges : starCharge'[y].at = "credited" => tapRow'[starCharge'[y].on] = "COMPLETED"
    BY <1>8, <1>10, <2>1, <2>2 DEF StarsInv
  <2>7. \A y, w \in Charges :
          (starCharge'[y].at = "credited" /\ starCharge'[w].at = "credited"
             /\ starCharge'[y].on = starCharge'[w].on) => y = w
    BY <1>10, <2>1, <2>2 DEF StarsInv
  <2>8. \A y \in Charges :
          starCharge'[y].at = "deferred" =>
             starCharge'[y].on \in queued' \/ tapRow'[starCharge'[y].on] = "COMPLETED"
    BY <1>8, <1>10, <2>1, <2>2 DEF StarsInv
  <2>9. \A u \in queued' : ForCharge(u)'
    BY <1>10, <2>3, <2>4 DEF StarsInv
  <2>10. \A u \in Taps : link'[u] = "invoice" /\ tapRow'[u] = "COMPLETED" => ForCharge(u)'
    BY <1>10, <2>3, <2>4 DEF StarsInv
  <2>11. QED BY <2>5, <2>6, <2>7, <2>8, <2>9, <2>10 DEF StarsInv
<1>11. ASSUME NEW x \in Charges, CreditCharge(x) PROVE StarsInv'
  <2>1. On(x) \in Taps
    BY <1>8, <1>11 DEF CreditCharge
  <2>2. tapRow' = [tapRow EXCEPT ![On(x)] = "COMPLETED"] /\ tapRow[On(x)] = "PENDING"
    BY <1>11 DEF CreditCharge, Settled, Delivered, Moved
  <2>3. \A u \in Taps : tapRow'[u] = IF u = On(x) THEN "COMPLETED" ELSE tapRow[u]
    BY <2>1, <2>2 DEF TillTyped
  <2>4. starCharge[x].at = "approved" /\ Moves(x, "credited") /\ UNCHANGED <<link, queued>>
    BY <1>11 DEF CreditCharge
  <2>5. QED BY <1>10, <2>1, <2>2, <2>3, <2>4
<1>12. ASSUME NEW x \in Charges, ReportCharge(x) \/ DeferCharge(x) \/ LoseCharge(x) PROVE StarsInv'
  <2>1. starCharge[x].at = "approved" /\ UNCHANGED <<link, tapRow>>
    BY <1>12 DEF ReportCharge, DeferCharge, LoseCharge
  <2>2. \/ Moves(x, "told") /\ queued' = queued
        \/ Moves(x, "lost") /\ queued' = queued
        \/ Moves(x, "deferred") /\ queued' = queued \cup {On(x)}
    BY <1>12 DEF ReportCharge, DeferCharge, LoseCharge
  <2>3. QED BY <1>10, <2>1, <2>2
<1>13. ASSUME NEW t \in Taps, RunQueued(t) PROVE StarsInv'
  <2>1. t \in queued /\ queued' = queued \ {t} /\ UNCHANGED <<link, starCharge>>
    BY <1>13 DEF RunQueued
  <2>2. link[t] = "invoice" /\ ForCharge(t)
    BY <2>1 DEF StarsInv, ChargesLinked
  <2>3. tapRow'[t] = "COMPLETED" /\ \A u \in Taps \ {t} : tapRow'[u] = tapRow[u]
    <3>1. CASE tapRow[t] = "PENDING"
      BY <1>13, <3>1 DEF RunQueued, Settled, Delivered, TillTyped
    <3>2. CASE tapRow[t] # "PENDING"
      BY <1>0, <1>13, <2>2, <3>2 DEF RunQueued, RowTrue
    <3>3. QED BY <3>1, <3>2
  <2>4. \A u : ForCharge(u)' <=> ForCharge(u)
    BY <2>1 DEF ForCharge
  <2>5. ChargesLinked'
    BY <2>1 DEF StarsInv, ChargesLinked
  <2>6. \A u \in Taps : link'[u] = "invoice" /\ tapRow'[u] = "COMPLETED" => ForCharge(u)'
    BY <2>1, <2>2, <2>3, <2>4 DEF StarsInv
  <2>7. \A y \in Charges : starCharge[y].at \in {"credited", "deferred"} => On(y) \in Taps
    BY <1>8
  <2>8. \A y \in Charges :
            /\ starCharge[y].at = "credited" => tapRow'[On(y)] = "COMPLETED"
            /\ starCharge[y].at = "deferred" => On(y) \in queued' \/ tapRow'[On(y)] = "COMPLETED"
    BY <2>1, <2>3, <2>7 DEF StarsInv
  <2>9. QED BY <2>1, <2>4, <2>5, <2>6, <2>8 DEF StarsInv
<1>14. QED
  BY <1>2, <1>3, <1>4, <1>5, <1>6, <1>7, <1>9, <1>11, <1>12, <1>13, TillSteps

LEMMA StarsAreHonest == TillTyped /\ StarsInv => StarsHonest
<1> SUFFICES ASSUME TillTyped, StarsInv, NEW t \in Taps
             PROVE  LET on(stage) == {x \in Charges : starCharge[x] = [on |-> t, at |-> stage]}
                    IN  /\ Cardinality(on("credited")) <= 1
                        /\ on("credited") # {} => tapRow[t] = "COMPLETED"
                        /\ on("deferred") # {} => t \in queued \/ tapRow[t] = "COMPLETED"
                        /\ (link[t] = "invoice" /\ tapRow[t] = "COMPLETED")
                             => on("credited") \cup on("deferred") # {}
  BY DEF StarsHonest
<1> DEFINE on(stage) == {x \in Charges : starCharge[x] = [on |-> t, at |-> stage]}
<1>1. \A x \in Charges : \A z : starCharge[x] = [on |-> t, at |-> z]
                               <=> starCharge[x].on = t /\ starCharge[x].at = z
  BY DEF TillTyped, ChargesTyped
<1>2. \A x, y \in on("credited") : x = y
  BY <1>1 DEF StarsInv
<1>3. Cardinality(on("credited")) <= 1
  <2>1. CASE on("credited") = {}
    BY <2>1, FS_EmptySet
  <2>2. ASSUME NEW x \in on("credited") PROVE Cardinality(on("credited")) <= 1
    <3>1. on("credited") = {x}
      BY <1>2, <2>2
    <3>2. QED BY <3>1, FS_Singleton
  <2>3. QED BY <2>1, <2>2
<1>4. on("credited") # {} => tapRow[t] = "COMPLETED"
  BY <1>1 DEF StarsInv
<1>5. on("deferred") # {} => t \in queued \/ tapRow[t] = "COMPLETED"
  BY <1>1 DEF StarsInv
<1>6. (link[t] = "invoice" /\ tapRow[t] = "COMPLETED") => on("credited") \cup on("deferred") # {}
  BY <1>1 DEF StarsInv, ForCharge
<1>7. QED BY <1>3, <1>4, <1>5, <1>6

-----------------------------------------------------------------------------
(* Counts of taps: handlers in flight, and rows that wait for a payment    *)
(* nobody was given the link of.  Each is paid for by a bound.             *)

Orphans == {t \in Taps : /\ tapRow[t] = "PENDING" /\ link[t] = "none"
                         /\ tap[t].at \in {"ending", "done"}}

CountsInv ==
    /\ Cardinality(InFlight) <= (IF payLock THEN 1 ELSE 0) + (MaxSlow - slow) + (MaxUpsets - upsets)
    /\ Cardinality(Orphans) <= MaxUpsets - upsets

LEMMA TapSets ==
  ASSUME NEW S \in SUBSET Taps
  PROVE  /\ IsFiniteSet(S) /\ Cardinality(S) \in Nat
         /\ \A R \in SUBSET S : Cardinality(R) <= Cardinality(S)
         /\ \A t \in S : Cardinality(S \ {t}) = Cardinality(S) - 1
         /\ \A t \in Taps \ S : Cardinality(S \cup {t}) = Cardinality(S) + 1
<1>1. IsFiniteSet(S)
  BY TillBounds, FS_Subset
<1>2. \A R \in SUBSET S : Cardinality(R) <= Cardinality(S)
  BY <1>1, FS_Subset
<1>3. \A t \in S : Cardinality(S \ {t}) = Cardinality(S) - 1
  BY <1>1, FS_RemoveElement
<1>4. \A t \in Taps \ S : Cardinality(S \cup {t}) = Cardinality(S) + 1
  BY <1>1, FS_AddElement
<1>5. QED BY <1>1, <1>2, <1>3, <1>4, SizeIsNat

LEMMA CountsStep ==
  TillTyped /\ TillTyped' /\ TapsInv /\ CountsInv /\ [TillNext]_tillVars => CountsInv'
<1> SUFFICES ASSUME TillTyped, TillTyped', TapsInv, CountsInv, [TillNext]_tillVars
             PROVE  CountsInv'
  OBVIOUS
<1> USE DEF quote, buyer, subscription, stars, limits
<1>0. \A t \in Taps : StageTrue(t) /\ RowTrue(t)
  BY DEF TapsInv
<1>a. /\ slow \in 0 .. MaxSlow /\ upsets \in 0 .. MaxUpsets
      /\ slow' \in 0 .. MaxSlow /\ upsets' \in 0 .. MaxUpsets
      /\ MaxSlow \in Nat /\ MaxUpsets \in Nat
      /\ payLock \in BOOLEAN /\ payLock' \in BOOLEAN
  BY TillBounds DEF TillTyped
<1>b. InFlight \in SUBSET Taps /\ Orphans \in SUBSET Taps
  BY DEF InFlight, Orphans
<1>c. PICK flying \in Nat, stray \in Nat : flying = Cardinality(InFlight) /\ stray = Cardinality(Orphans)
  BY <1>b, TapSets
<1>d. /\ flying <= (IF payLock THEN 1 ELSE 0) + (MaxSlow - slow) + (MaxUpsets - upsets)
      /\ stray <= MaxUpsets - upsets
  BY <1>c DEF CountsInv
(* What is left to show of each step. *)
<1>1. ASSUME InFlight' \subseteq InFlight, Orphans' \subseteq Orphans,
             upsets' <= upsets, slow' <= slow,
             payLock' = payLock \/ slow' = slow - 1
      PROVE  CountsInv'
  <2>1. PICK m \in Nat, n \in Nat :
            m = Cardinality(InFlight') /\ n = Cardinality(Orphans') /\ m <= flying /\ n <= stray
    BY <1>b, <1>c, <1>1, TapSets
  <2>2. m <= (IF payLock' THEN 1 ELSE 0) + (MaxSlow - slow') + (MaxUpsets - upsets')
    BY <1>a, <1>d, <1>1, <2>1
  <2>3. n <= MaxUpsets - upsets'
    BY <1>a, <1>d, <1>1, <2>1
  <2>4. QED BY <2>1, <2>2, <2>3 DEF CountsInv
<1>2. CASE UNCHANGED tillVars
  <2>1. \A t \in Taps : Kept(t)' = Kept(t)
    BY <1>2, SameShape DEF tillVars
  <2>2. InFlight' = InFlight /\ Orphans' = Orphans
    BY <1>2, <2>1 DEF tillVars, InFlight, Orphans
  <2>3. QED BY <1>1, <1>2, <2>2, <1>a DEF tillVars
(* A handler that goes on: it was in flight, and leaves no stray row.      *)
<1>3. ASSUME NEW t \in Taps, NEW z \in Stages, Goes(t, z), tap[t].at \notin {"idle", "done"},
             \A u \in Taps \ {t} : tapRow'[u] = tapRow[u] /\ link'[u] = link[u],
             z \in {"ending", "done"} =>
                tapRow'[t] # "PENDING" \/ link'[t] # "none" \/ t \in Orphans,
             upsets' <= upsets, slow' = slow, payLock' = payLock
      PROVE  CountsInv'
  <2>1. /\ \A u \in Taps : tap'[u].shape = tap[u].shape
        /\ \A u \in Taps \ {t} : tap'[u] = tap[u]
        /\ tap'[t].at = z
    BY <1>3 DEF Goes, TillTyped
  <2>2. \A u \in Taps : Kept(u)' = Kept(u)
    BY <2>1, SameShape
  <2>3. InFlight' \subseteq InFlight
    BY <1>3, <2>1, <2>2 DEF InFlight
  <2>4. Orphans' \subseteq Orphans
    BY <1>3, <2>1 DEF Orphans
  <2>5. QED BY <1>1, <1>3, <1>a, <2>3, <2>4
(* A row that changes under a link, or none that does.                     *)
<1>4. ASSUME tap' = tap, link' = link, upsets' <= upsets, slow' = slow, payLock' = payLock,
             \A u \in Taps : tapRow'[u] = tapRow[u] \/ tapRow'[u] # "PENDING"
      PROVE  CountsInv'
  <2>1. \A u \in Taps : Kept(u)' = Kept(u)
    BY <1>4, SameShape
  <2>2. InFlight' \subseteq InFlight
    BY <1>4, <2>1 DEF InFlight
  <2>3. Orphans' \subseteq Orphans
    BY <1>4 DEF Orphans
  <2>4. QED BY <1>1, <1>4, <1>a, <2>2, <2>3
<1>5. ASSUME NEW t \in Taps, NEW s \in Shapes[t], Tap(t, s) PROVE CountsInv'
  <2>1. /\ tap[t].at = "idle" /\ tap'[t].at = "begun" /\ tap'[t].shape = s
        /\ \A u \in Taps \ {t} : tap'[u] = tap[u]
        /\ payLock' = (payLock \/ Guarded(s)) /\ (Guarded(s) => ~payLock)
        /\ UNCHANGED <<tapRow, link, slow, upsets>>
    BY <1>5 DEF Tap, At, TillTyped
  <2>2. \A u \in Taps \ {t} : Kept(u)' = Kept(u)
    BY <2>1, SameShape
  <2>3. Kept(t)' <=> Guarded(s)
    <3>1. (TillTyped => (Kept(t) <=> Guarded(tap[t].shape)))'
      BY ShapesExclude, PTL
    <3>2. QED BY <2>1, <3>1 DEF Guarded
  <2>4. Orphans' \subseteq Orphans
    BY <2>1 DEF Orphans
  <2>5. CASE ~Guarded(s)
    <3>1. InFlight' \subseteq InFlight /\ payLock' = payLock
      BY <1>a, <2>1, <2>2, <2>3, <2>5 DEF InFlight
    <3>2. QED BY <1>1, <1>a, <2>1, <2>4, <3>1
  <2>6. CASE Guarded(s)
    <3>1. InFlight' = InFlight \cup {t} /\ t \in Taps \ InFlight
      BY <2>1, <2>2, <2>3, <2>6 DEF InFlight
    <3>2. Cardinality(InFlight') = flying + 1
      BY <1>b, <1>c, <3>1, TapSets
    <3>3. PICK n \in Nat : n = Cardinality(Orphans') /\ n <= stray
      BY <1>b, <1>c, <2>4, TapSets
    <3>4. ~payLock /\ payLock'
      BY <2>1, <2>6
    <3>5. QED BY <1>a, <1>d, <2>1, <3>2, <3>3, <3>4 DEF CountsInv
  <2>7. QED BY <2>5, <2>6
<1>6. ASSUME NEW t \in Taps, TapEnds(t) PROVE CountsInv'
  <2>1. /\ tap[t].at = "ending" /\ tap'[t].at = "done"
        /\ \A u \in Taps : tap'[u].shape = tap[u].shape
        /\ \A u \in Taps \ {t} : tap'[u] = tap[u]
        /\ payLock' = (payLock /\ ~Kept(t))
        /\ UNCHANGED <<tapRow, link, slow, upsets>>
    BY <1>6 DEF TapEnds, At, Goes, TillTyped
  <2>2. \A u \in Taps : Kept(u)' = Kept(u)
    BY <2>1, SameShape
  <2>3. Orphans' \subseteq Orphans
    BY <2>1 DEF Orphans
  <2>4. CASE ~Kept(t)
    <3>1. InFlight' \subseteq InFlight /\ payLock' = payLock
      BY <1>a, <2>1, <2>2, <2>4 DEF InFlight
    <3>2. QED BY <1>1, <1>a, <2>1, <2>3, <3>1
  <2>5. CASE Kept(t)
    <3>1. InFlight' = InFlight \ {t} /\ t \in InFlight
      BY <2>1, <2>2, <2>5 DEF InFlight
    <3>2. Cardinality(InFlight') = flying - 1
      BY <1>b, <1>c, <3>1, TapSets
    <3>3. PICK n \in Nat : n = Cardinality(Orphans') /\ n <= stray
      BY <1>b, <1>c, <2>3, TapSets
    <3>4. ~payLock'
      BY <2>1, <2>5
    <3>5. QED BY <1>a, <1>d, <2>1, <3>2, <3>3, <3>4 DEF CountsInv
  <2>6. QED BY <2>4, <2>5
<1>7. ASSUME NEW t \in Taps, TapDies(t) PROVE CountsInv'
  <2>1. /\ tap[t].at \notin {"idle", "done"}
        /\ \A u \in Taps : tap'[u].shape = tap[u].shape
        /\ \A u \in Taps \ {t} : tap'[u] = tap[u]
        /\ UNCHANGED <<tapRow, link, slow, payLock>> /\ upsets > 0 /\ upsets' = upsets - 1
    <3>1. PICK z \in {"done", "ending"} : Goes(t, z)
      BY <1>7 DEF TapDies
    <3>2. /\ \A u \in Taps : tap'[u].shape = tap[u].shape
          /\ \A u \in Taps \ {t} : tap'[u] = tap[u]
      BY <3>1 DEF Goes, TillTyped
    <3>3. QED BY <1>7, <3>2 DEF TapDies
  <2>2. \A u \in Taps : Kept(u)' = Kept(u)
    BY <2>1, SameShape
  <2>3. Orphans' \subseteq Orphans \cup {t}
    BY <2>1 DEF Orphans
  <2>4. InFlight' \subseteq InFlight
    BY <2>1, <2>2 DEF InFlight
  <2>5. PICK m \in Nat : m = Cardinality(InFlight') /\ m <= flying
    BY <1>b, <1>c, <2>4, TapSets
  <2>6. Cardinality(Orphans \cup {t}) \in {stray, stray + 1}
    <3>1. CASE t \in Orphans
      <4>1. Orphans \cup {t} = Orphans
        BY <3>1
      <4>2. QED BY <1>c, <4>1
    <3>2. CASE t \notin Orphans
      <4>1. Cardinality(Orphans \cup {t}) = stray + 1
        BY <1>b, <1>c, <3>2, TapSets
      <4>2. QED BY <1>c, <4>1
    <3>3. QED BY <3>1, <3>2
  <2>7. PICK n \in Nat : n = Cardinality(Orphans') /\ n <= stray + 1
    <3>1. Orphans \cup {t} \in SUBSET Taps
      BY <1>b
    <3>2. /\ Cardinality(Orphans') \in Nat
          /\ Cardinality(Orphans') <= Cardinality(Orphans \cup {t})
      BY <1>b, <2>3, <3>1, TapSets
    <3>3. Cardinality(Orphans') <= stray + 1
      BY <2>6, <3>2
    <3>4. QED BY <3>2, <3>3
  <2>8. QED BY <1>a, <1>d, <2>1, <2>5, <2>6, <2>7 DEF CountsInv
<1>8. CASE PayLockExpires
  <2>1. UNCHANGED <<tap, tapRow, link, upsets>> /\ payLock /\ ~payLock'
    BY <1>8 DEF PayLockExpires
  <2>2. \A u \in Taps : Kept(u)' = Kept(u)
    BY <2>1, SameShape
  <2>3. InFlight' = InFlight /\ Orphans' = Orphans
    BY <2>1, <2>2 DEF InFlight, Orphans
  <2>4. CASE InFlight = {}
    <3>1. flying = 0 /\ slow' = slow
      BY <1>8, <1>c, <2>4, FS_EmptySet DEF PayLockExpires
    <3>2. QED BY <1>a, <1>c, <1>d, <2>1, <2>3, <3>1 DEF CountsInv
  <2>5. CASE InFlight # {}
    <3>1. slow > 0 /\ slow' = slow - 1
      BY <1>8, <2>5 DEF PayLockExpires
    <3>2. QED BY <1>1, <1>a, <2>1, <2>3, <3>1
  <2>6. QED BY <2>4, <2>5
<1>9. ASSUME NEW t \in Taps,
             \/ LockWallet(t) \/ TooShort(t) \/ RefuseTrial(t) \/ AskPrice(t)
             \/ (Invoiced(t) /\ AskGateway(t)) \/ InvoiceRefused(t) \/ ShowLink(t)
      PROVE  CountsInv'
  <2>1. PICK z \in {"priced", "quoted", "billed", "refused", "ending"} : Goes(t, z)
    BY <1>9 DEF LockWallet, TooShort, RefuseTrial, AskPrice, AskGateway, InvoiceRefused, ShowLink
  <2>2. z \in Stages
    BY <2>1 DEF Stages
  <2>3. tap[t].at \notin {"idle", "done"}
    BY <1>9 DEF LockWallet, TooShort, RefuseTrial, AskPrice, AskGateway, InvoiceRefused, ShowLink,
       Invoiced, At
  <2>4. UNCHANGED <<tapRow, slow, payLock>> /\ upsets' <= upsets
    BY <1>9, <1>a DEF LockWallet, TooShort, RefuseTrial, AskPrice, AskGateway, InvoiceRefused,
       ShowLink
  <2>5. /\ \A u \in Taps \ {t} : link'[u] = link[u]
        /\ link' = link \/ link'[t] # "none"
    BY <1>9 DEF LockWallet, TooShort, RefuseTrial, AskPrice, AskGateway, InvoiceRefused, ShowLink,
       TillTyped
  <2>6. tapRow[t] = "none" \/ link'[t] # "none" \/ z = "refused"
    <3>1. CASE LockWallet(t) \/ TooShort(t) \/ RefuseTrial(t) \/ AskPrice(t) \/ Invoiced(t)
      BY <1>0, <3>1 DEF LockWallet, TooShort, RefuseTrial, AskPrice, Invoiced, At, StageTrue,
         Unwritten
    <3>2. CASE InvoiceRefused(t)
      <4>1. tap'[t].at = z /\ tap'[t].at = "refused"
        BY <2>1, <3>2 DEF InvoiceRefused, Goes, TillTyped
      <4>2. QED BY <4>1
    <3>3. CASE ShowLink(t)
      BY <3>3 DEF ShowLink, TillTyped
    <3>4. QED BY <1>9, <3>1, <3>2, <3>3
  <2>7. QED BY <1>3, <2>1, <2>2, <2>3, <2>4, <2>5, <2>6
<1>10. ASSUME NEW t \in Taps,
              BuyFromWallet(t) \/ GiveTrial(t) \/ BuyForNothing(t) \/ CloseRow(t) \/ CommitRow(t)
       PROVE  CountsInv'
  <2>1. PICK z \in {"stored", "ending"} :
            Goes(t, z) /\ (z = "ending" => tapRow'[t] \in {"COMPLETED", "CANCELED"})
    BY <1>10 DEF BuyFromWallet, GiveTrial, BuyForNothing, CloseRow, CommitRow, Delivered,
       ClosesRow, TillTyped
  <2>2. z \in Stages
    BY <2>1 DEF Stages
  <2>3. tap[t].at \notin {"idle", "done"}
    BY <1>10 DEF BuyFromWallet, GiveTrial, BuyForNothing, CloseRow, CommitRow, At
  <2>4. UNCHANGED <<link, slow, payLock, upsets>>
    BY <1>10 DEF BuyFromWallet, GiveTrial, BuyForNothing, CloseRow, CommitRow
  <2>5. \A u \in Taps \ {t} : tapRow'[u] = tapRow[u]
    BY <1>10 DEF BuyFromWallet, GiveTrial, BuyForNothing, CloseRow, CommitRow, Delivered,
       ClosesRow, RowStands, TillTyped
  <2>6. QED BY <1>3, <1>a, <2>1, <2>2, <2>3, <2>4, <2>5
<1>11. ASSUME NEW t \in Taps, PayLink(t) \/ RunQueued(t) PROVE CountsInv'
  <2>1. UNCHANGED <<tap, link, slow, payLock, upsets>>
    BY <1>11 DEF PayLink, RunQueued
  <2>2. \A u \in Taps : tapRow'[u] = tapRow[u] \/ tapRow'[u] # "PENDING"
    BY <1>11 DEF PayLink, RunQueued, Settled, Delivered, TillTyped
  <2>3. QED BY <1>4, <1>a, <2>1, <2>2
<1>12. ASSUME NEW x \in Charges, CreditCharge(x) PROVE CountsInv'
  <2>1. UNCHANGED <<tap, link, slow, payLock, upsets>>
    BY <1>12 DEF CreditCharge
  <2>2. \A u \in Taps : tapRow'[u] = tapRow[u] \/ tapRow'[u] # "PENDING"
    BY <1>12 DEF CreditCharge, Settled, Delivered, TillTyped
  <2>3. QED BY <1>4, <1>a, <2>1, <2>2
<1>13. ASSUME NEW x \in Charges,
              ReportCharge(x) \/ DeferCharge(x) \/ LoseCharge(x) \/ \E t \in Taps : PreCheckout(x, t)
       PROVE  CountsInv'
  <2>1. UNCHANGED <<tap, tapRow, link, slow, payLock>> /\ upsets' <= upsets
    BY <1>13, <1>a DEF ReportCharge, DeferCharge, LoseCharge, PreCheckout
  <2>2. QED BY <1>4, <2>1
<1>14. CASE GrantOff \/ PlanEnds
  BY <1>4, <1>14, <1>a DEF GrantOff, PlanEnds
<1>15. QED
  BY <1>2, <1>5, <1>6, <1>7, <1>8, <1>9, <1>10, <1>11, <1>12, <1>13, <1>14, TillSteps

-----------------------------------------------------------------------------
(* The money: what the wallet bought and tried, and what was put into it.  *)

Completed(t) == tapRow[t] = "COMPLETED"
Sold == {t \in Taps : Bought(t)}
Spent == {t \in Taps : Bought(t) /\ off[t] > 0}

MoneyInv ==
    /\ Cardinality(Spent) + (IF onceOff > 0 THEN 1 ELSE 0) <= grants
    /\ Cardinality(Tried) + (IF trialLeft THEN 1 ELSE 0) <= 1
    /\ plan # "paid" => ~paidRuns
    /\ wallet = Funds + Sums(ToppedUp) - Sums(Sold) - TrialPrice * Cardinality(Tried)

LEMMA BookTypes ==
  ASSUME TillTyped
  PROVE  /\ Sold \in SUBSET Taps /\ ToppedUp \in SUBSET Taps
         /\ Spent \in SUBSET Taps /\ Tried \in SUBSET Taps
         /\ Sums(Sold) \in Nat /\ Sums(ToppedUp) \in Nat
         /\ Cardinality(Spent) \in Nat /\ Cardinality(Tried) \in Nat
<1>1. /\ Sold \in SUBSET Taps /\ ToppedUp \in SUBSET Taps
      /\ Spent \in SUBSET Taps /\ Tried \in SUBSET Taps
  BY DEF Sold, ToppedUp, Spent, Tried
<1>2. \A S \in SUBSET Taps : Sums(S) \in Nat
  <2>1. ASSUME NEW S \in SUBSET Taps PROVE Sums(S) \in Nat
    <3>1. IsFiniteSet(S) /\ \A t \in S : price[t] \in Nat
      BY TapSets DEF TillTyped
    <3>2. QED BY <3>1, SumType DEF Sums
  <2>2. QED BY <2>1
<1>3. QED BY <1>1, <1>2, TapSets

(* Nothing is settled, and what was settled keeps its quote.               *)
LEMMA BooksStand ==
  ASSUME TillTyped, MoneyInv,
         \A t \in Taps : /\ tapRow[t] = "COMPLETED" <=> tapRow'[t] = "COMPLETED"
                         /\ tapRow[t] = "COMPLETED" =>
                              /\ tap'[t].shape = tap[t].shape
                              /\ price'[t] = price[t] /\ off'[t] = off[t],
         UNCHANGED <<wallet, trialLeft>>,
         UNCHANGED subscription \/ (plan' = "none" /\ ~paidRuns'),
         \/ UNCHANGED <<onceOff, grants>>
         \/ grants = 0 /\ grants' = 1
  PROVE  MoneyInv'
<1>1. \A t \in Taps : tapRow[t] = "COMPLETED" => \A w : Is(t, w)' = Is(t, w)
  BY SameShape
<1>2. Sold' = Sold /\ ToppedUp' = ToppedUp /\ Spent' = Spent /\ Tried' = Tried
  BY <1>1 DEF Sold, ToppedUp, Spent, Tried, Bought
<1>3. plan' # "paid" => ~paidRuns'
  BY DEF MoneyInv, subscription
<1>4. Sums(Sold)' = Sums(Sold) /\ Sums(ToppedUp)' = Sums(ToppedUp)
  <2>1. IsFiniteSet(Sold) /\ IsFiniteSet(ToppedUp)
    BY BookTypes, TapSets
  <2>2. /\ \A t \in Sold : price[t] = price'[t]
        /\ \A t \in ToppedUp : price[t] = price'[t]
    BY DEF Sold, ToppedUp, Bought
  <2>3. /\ SumFunctionOnSet(price, Sold) = SumFunctionOnSet(price', Sold)
        /\ SumFunctionOnSet(price, ToppedUp) = SumFunctionOnSet(price', ToppedUp)
    BY <2>1, <2>2, SumSame
  <2>4. QED BY <1>2, <2>3 DEF Sums
<1>5. Cardinality(Spent) + (IF onceOff' > 0 THEN 1 ELSE 0) <= grants'
  <2>1. PICK n \in Nat : n = Cardinality(Spent)
    BY BookTypes
  <2>2. n + (IF onceOff > 0 THEN 1 ELSE 0) <= grants /\ grants \in {0, 1}
    BY <2>1 DEF MoneyInv, TillTyped
  <2>3. n + (IF onceOff' > 0 THEN 1 ELSE 0) <= grants'
    BY <2>2
  <2>4. QED BY <2>1, <2>3
<1>6. QED BY <1>2, <1>3, <1>4, <1>5 DEF MoneyInv

(* One row is settled, at the price it was quoted.                         *)
LEMMA RowSettles ==
  ASSUME TillTyped, NEW t \in Taps, tapRow[t] # "COMPLETED",
         tapRow' = [tapRow EXCEPT ![t] = "COMPLETED"],
         UNCHANGED <<price, off>>, \A u \in Taps : tap'[u].shape = tap[u].shape
  PROVE  /\ Sums(ToppedUp)' = Sums(ToppedUp) + (IF Is(t, "deposit") THEN price[t] ELSE 0)
         /\ Sums(Sold)' = Sums(Sold) + (IF Is(t, "balance") /\ ~Is(t, "trial") THEN price[t] ELSE 0)
         /\ Cardinality(Tried)' = Cardinality(Tried) + (IF Is(t, "trial") THEN 1 ELSE 0)
         /\ Cardinality(Spent)' = Cardinality(Spent)
               + (IF Is(t, "balance") /\ ~Is(t, "trial") /\ off[t] > 0 THEN 1 ELSE 0)
<1>1. \A u \in Taps : \A w : Is(u, w)' = Is(u, w)
  BY SameShape
<1>2. \A u \in Taps : tapRow'[u] = "COMPLETED" <=> u = t \/ tapRow[u] = "COMPLETED"
  BY DEF TillTyped
<1>4. /\ ToppedUp' = IF Is(t, "deposit") THEN ToppedUp \cup {t} ELSE ToppedUp
      /\ Tried' = IF Is(t, "trial") THEN Tried \cup {t} ELSE Tried
      /\ t \notin ToppedUp /\ t \notin Tried
  BY <1>1, <1>2 DEF ToppedUp, Tried
<1>5. /\ Sold' = IF Is(t, "balance") /\ ~Is(t, "trial") THEN Sold \cup {t} ELSE Sold
      /\ Spent' = IF Is(t, "balance") /\ ~Is(t, "trial") /\ off[t] > 0
                  THEN Spent \cup {t} ELSE Spent
      /\ t \notin Sold /\ t \notin Spent
  BY <1>1, <1>2 DEF Sold, Spent, Bought
<1>6. \A S \in SUBSET Taps : t \notin S =>
         SumFunctionOnSet(price, S \cup {t}) = SumFunctionOnSet(price, S) + price[t]
  <2>1. ASSUME NEW S \in SUBSET Taps, t \notin S
        PROVE  SumFunctionOnSet(price, S \cup {t}) = SumFunctionOnSet(price, S) + price[t]
    <3>1. S \cup {t} \in SUBSET Taps /\ (S \cup {t}) \ {t} = S
      BY <2>1
    <3>2. IsFiniteSet(S \cup {t}) /\ IsFiniteSet(S)
      BY <3>1, TapSets
    <3>3. /\ \A x \in S \cup {t} : price[x] \in Int
          /\ \A x \in S : price[x] \in Int
      BY <3>1 DEF TillTyped
    <3>4. SumFunctionOnSet(price, S \cup {t}) = price[t] + SumFunctionOnSet(price, S)
      <4> DEFINE R == S \cup {t}
      <4>1. t \in R /\ IsFiniteSet(R) /\ (\A x \in R : price[x] \in Int) /\ R \ {t} = S
        BY <3>1, <3>2, <3>3
      <4> HIDE DEF R
      <4>2. SumFunctionOnSet(price, R) = price[t] + SumFunctionOnSet(price, R \ {t})
        BY <4>1, SumRemove
      <4>3. SumFunctionOnSet(price, R) = price[t] + SumFunctionOnSet(price, S)
        BY <4>1, <4>2
      <4>4. QED BY <4>3 DEF R
    <3>5. SumFunctionOnSet(price, S) \in Int /\ price[t] \in Int
      BY <3>2, <3>3, SumType
    <3>6. \A i, j \in Int : i + j = j + i
      OBVIOUS
    <3>7. QED BY <3>4, <3>5, <3>6
  <2>2. QED BY <2>1
<1>7. Sums(ToppedUp)' = Sums(ToppedUp) + (IF Is(t, "deposit") THEN price[t] ELSE 0)
  <2>1. CASE Is(t, "deposit")
    <3>1. SumFunctionOnSet(price', ToppedUp') = SumFunctionOnSet(price, ToppedUp) + price[t]
      BY <1>4, <1>6, <2>1, BookTypes
    <3>2. QED BY <2>1, <3>1 DEF Sums
  <2>2. CASE ~Is(t, "deposit")
    <3>1. Sums(ToppedUp)' = Sums(ToppedUp)
      BY <1>4, <2>2 DEF Sums
    <3>2. QED BY <2>2, <3>1, BookTypes
  <2>3. QED BY <2>1, <2>2
<1>8. Sums(Sold)' = Sums(Sold) + (IF Is(t, "balance") /\ ~Is(t, "trial") THEN price[t] ELSE 0)
  <2>1. CASE Is(t, "balance") /\ ~Is(t, "trial")
    <3>1. SumFunctionOnSet(price', Sold') = SumFunctionOnSet(price, Sold) + price[t]
      BY <1>5, <1>6, <2>1, BookTypes
    <3>2. QED BY <2>1, <3>1 DEF Sums
  <2>2. CASE ~(Is(t, "balance") /\ ~Is(t, "trial"))
    <3>1. Sums(Sold)' = Sums(Sold)
      BY <1>5, <2>2 DEF Sums
    <3>2. QED BY <2>2, <3>1, BookTypes
  <2>3. QED BY <2>1, <2>2
<1>9. Cardinality(Tried)' = Cardinality(Tried) + (IF Is(t, "trial") THEN 1 ELSE 0)
  BY <1>4, BookTypes, TapSets
<1>10. Cardinality(Spent)' = Cardinality(Spent)
               + (IF Is(t, "balance") /\ ~Is(t, "trial") /\ off[t] > 0 THEN 1 ELSE 0)
  BY <1>5, BookTypes, TapSets
<1>11. QED BY <1>7, <1>8, <1>9, <1>10

(* What an invoice pays for is delivered: the wallet spends nothing.       *)
LEMMA MoneyDelivered ==
  ASSUME TillTyped, MoneyInv, NEW t \in Taps, tapRow[t] # "COMPLETED", Delivered(t),
         ~Is(t, "balance"), UNCHANGED <<price, off, grants>>,
         \A u \in Taps : tap'[u].shape = tap[u].shape,
         wallet' = wallet + (IF Is(t, "deposit") THEN price[t] ELSE 0)
  PROVE  MoneyInv'
<1>1. /\ tapRow' = [tapRow EXCEPT ![t] = "COMPLETED"]
      /\ onceOff' \in {0, onceOff} /\ trialLeft' = trialLeft
      /\ plan' = (IF Is(t, "plan") THEN "paid" ELSE plan) /\ paidRuns' = (paidRuns \/ Is(t, "plan"))
  BY DEF Delivered
<1>2. ~Is(t, "trial")
  BY ShapesExclude
<1> DEFINE put == IF Is(t, "deposit") THEN price[t] ELSE 0
<1>3. put \in Nat
  BY DEF TillTyped
<1>4. /\ Sums(ToppedUp)' = Sums(ToppedUp) + put
      /\ Sums(Sold)' = Sums(Sold) + 0
      /\ Cardinality(Tried)' = Cardinality(Tried) + 0
      /\ Cardinality(Spent)' = Cardinality(Spent) + 0
  BY <1>1, <1>2, RowSettles
<1>5. PICK up \in Nat, sold \in Nat, tried \in Nat, spent \in Nat :
          /\ up = Sums(ToppedUp) /\ sold = Sums(Sold)
          /\ tried = Cardinality(Tried) /\ spent = Cardinality(Spent)
  BY BookTypes
<1> HIDE DEF put
<1>6. wallet' = Funds + Sums(ToppedUp)' - Sums(Sold)' - TrialPrice * Cardinality(Tried)'
  <2>1. wallet = Funds + up - sold - TrialPrice * tried
    BY <1>5 DEF MoneyInv
  <2>2. wallet' = wallet + put
    BY DEF put
  <2>3. PICK spentOnTrials \in Nat : spentOnTrials = TrialPrice * tried
    BY <1>5, TillBounds
  <2>4. tried + 0 = tried
    OBVIOUS
  <2>5. wallet' = Funds + (up + put) - (sold + 0) - spentOnTrials
    BY <1>3, <2>1, <2>2, <2>3, TillBounds
  <2>6. QED BY <1>4, <1>5, <2>3, <2>4, <2>5
<1>7. Cardinality(Spent)' + (IF onceOff' > 0 THEN 1 ELSE 0) <= grants'
  <2>1. spent + (IF onceOff > 0 THEN 1 ELSE 0) <= grants /\ grants \in {0, 1} /\ onceOff \in Nat
    BY <1>5 DEF MoneyInv, TillTyped
  <2>2. spent + (IF onceOff' > 0 THEN 1 ELSE 0) <= grants
    BY <1>1, <2>1
  <2>3. Cardinality(Spent)' = spent
    BY <1>4, <1>5
  <2>4. QED BY <2>2, <2>3
<1>8. Cardinality(Tried)' + (IF trialLeft' THEN 1 ELSE 0) <= 1
  <2>1. Cardinality(Tried)' = Cardinality(Tried)
    BY <1>4, <1>5
  <2>2. QED BY <1>1, <2>1 DEF MoneyInv
<1>9. plan' # "paid" => ~paidRuns'
  BY <1>1 DEF MoneyInv
<1>10. QED BY <1>6, <1>7, <1>8, <1>9 DEF MoneyInv

(* A purchase from the wallet spends its price, and the discount in it.    *)
LEMMA MoneySpent ==
  ASSUME TillTyped, TapsInv, MoneyInv, NEW t \in Taps, BuyFromWallet(t)
  PROVE  MoneyInv'
<1> USE DEF quote, stars, limits
<1>1. /\ tap[t].at = "priced" /\ tapRow[t] = "none" /\ Is(t, "balance") /\ ~Is(t, "trial")
      /\ (off[t] > 0 => onceOff > 0)
  BY DEF BuyFromWallet, At, TapsInv, StageTrue, QuoteStands, Unwritten
<1>2. ~Is(t, "deposit")
  BY <1>1, ShapesExclude
<1>3. /\ tapRow' = [tapRow EXCEPT ![t] = "COMPLETED"]
      /\ onceOff' = 0 /\ trialLeft' = trialLeft
      /\ plan' = (IF Is(t, "plan") THEN "paid" ELSE plan) /\ paidRuns' = (paidRuns \/ Is(t, "plan"))
      /\ wallet' = wallet - price[t]
      /\ UNCHANGED <<price, off, grants>>
  BY <1>2 DEF BuyFromWallet, Delivered
<1>4. \A u \in Taps : tap'[u].shape = tap[u].shape
  BY DEF BuyFromWallet, Goes, TillTyped
<1> DEFINE used == IF off[t] > 0 THEN 1 ELSE 0
<1>5. /\ Sums(ToppedUp)' = Sums(ToppedUp) + 0
      /\ Sums(Sold)' = Sums(Sold) + price[t]
      /\ Cardinality(Tried)' = Cardinality(Tried) + 0
      /\ Cardinality(Spent)' = Cardinality(Spent) + used
  BY <1>1, <1>2, <1>3, <1>4, RowSettles
<1>6. PICK up \in Nat, sold \in Nat, tried \in Nat, spent \in Nat :
          /\ up = Sums(ToppedUp) /\ sold = Sums(Sold)
          /\ tried = Cardinality(Tried) /\ spent = Cardinality(Spent)
  BY BookTypes
<1>7. wallet' = Funds + Sums(ToppedUp)' - Sums(Sold)' - TrialPrice * Cardinality(Tried)'
  <2>1. wallet = Funds + up - sold - TrialPrice * tried /\ price[t] \in Nat
    BY <1>6 DEF MoneyInv, TillTyped
  <2>3. PICK spentOnTrials \in Nat : spentOnTrials = TrialPrice * tried
    BY <1>6, TillBounds
  <2>4. tried + 0 = tried
    OBVIOUS
  <2>5. wallet' = Funds + (up + 0) - (sold + price[t]) - spentOnTrials
    BY <1>3, <2>1, <2>3, TillBounds
  <2>6. QED BY <1>5, <1>6, <2>3, <2>4, <2>5
<1>8. Cardinality(Spent)' + (IF onceOff' > 0 THEN 1 ELSE 0) <= grants'
  <2>1. spent + (IF onceOff > 0 THEN 1 ELSE 0) <= grants /\ grants \in {0, 1} /\ onceOff \in Nat
    BY <1>6 DEF MoneyInv, TillTyped
  <2>2. spent + used + 0 <= grants /\ used \in Nat
    BY <1>1, <2>1
  <2> HIDE DEF used
  <2>3. Cardinality(Spent)' = spent + used
    BY <1>5, <1>6
  <2>4. QED BY <1>3, <2>1, <2>2, <2>3
<1>9. Cardinality(Tried)' + (IF trialLeft' THEN 1 ELSE 0) <= 1
  <2>1. Cardinality(Tried)' = Cardinality(Tried)
    BY <1>5, <1>6
  <2>2. QED BY <1>3, <2>1 DEF MoneyInv
<1>10. plan' # "paid" => ~paidRuns'
  BY <1>3 DEF MoneyInv
<1>11. QED BY <1>7, <1>8, <1>9, <1>10 DEF MoneyInv

(* The trial is the only one, and what it costs is taken.                  *)
LEMMA MoneyTried ==
  ASSUME TillTyped, TapsInv, MoneyInv, NEW t \in Taps, GiveTrial(t)
  PROVE  MoneyInv'
<1> USE DEF quote, stars, limits
<1>1. tap[t].at = "priced" /\ tapRow[t] = "none" /\ Is(t, "trial")
  BY DEF GiveTrial, At, TapsInv, StageTrue, Unwritten
<1>2. Is(t, "balance") /\ ~Is(t, "deposit") /\ ~Is(t, "plan")
  BY <1>1, ShapesExclude
<1>3. /\ tapRow' = [tapRow EXCEPT ![t] = "COMPLETED"]
      /\ trialLeft /\ ~trialLeft' /\ plan = "none" /\ plan' = "trial" /\ paidRuns' = paidRuns
      /\ wallet' = wallet - TrialPrice
      /\ UNCHANGED <<price, off, grants, onceOff>>
  BY DEF GiveTrial, TrialOpen
<1>4. \A u \in Taps : tap'[u].shape = tap[u].shape
  BY DEF GiveTrial, Goes, TillTyped
<1>5. /\ Sums(ToppedUp)' = Sums(ToppedUp) + 0
      /\ Sums(Sold)' = Sums(Sold) + 0
      /\ Cardinality(Tried)' = Cardinality(Tried) + 1
      /\ Cardinality(Spent)' = Cardinality(Spent) + 0
  BY <1>1, <1>2, <1>3, <1>4, RowSettles
<1>6. PICK up \in Nat, sold \in Nat, tried \in Nat, spent \in Nat :
          /\ up = Sums(ToppedUp) /\ sold = Sums(Sold)
          /\ tried = Cardinality(Tried) /\ spent = Cardinality(Spent)
  BY BookTypes
<1>7. tried = 0
  BY <1>3, <1>6 DEF MoneyInv
<1>8. wallet' = Funds + Sums(ToppedUp)' - Sums(Sold)' - TrialPrice * Cardinality(Tried)'
  <2>1. wallet = Funds + up - sold - TrialPrice * 0
    BY <1>6, <1>7 DEF MoneyInv
  <2>2. wallet' = Funds + (up + 0) - (sold + 0) - TrialPrice * 1
    BY <1>3, <2>1, TillBounds
  <2>3. Cardinality(Tried)' = 1
    BY <1>5, <1>6, <1>7
  <2>4. QED BY <1>5, <1>6, <2>2, <2>3
<1>9. Cardinality(Spent)' + (IF onceOff' > 0 THEN 1 ELSE 0) <= grants'
  <2>1. Cardinality(Spent)' = Cardinality(Spent)
    BY <1>5, <1>6
  <2>2. QED BY <1>3, <2>1 DEF MoneyInv
<1>10. Cardinality(Tried)' + (IF trialLeft' THEN 1 ELSE 0) <= 1
  BY <1>3, <1>5, <1>6, <1>7
<1>11. plan' # "paid" => ~paidRuns'
  BY <1>3 DEF MoneyInv
<1>12. QED BY <1>8, <1>9, <1>10, <1>11 DEF MoneyInv

LEMMA MoneyStep ==
  TillTyped /\ TapsInv /\ ChargesLinked /\ MoneyInv /\ [TillNext]_tillVars => MoneyInv'
<1> SUFFICES ASSUME TillTyped, TapsInv, ChargesLinked, MoneyInv, [TillNext]_tillVars
             PROVE  MoneyInv'
  OBVIOUS
<1> USE DEF quote, buyer, subscription, stars, limits
<1>0. \A t \in Taps : StageTrue(t) /\ RowTrue(t)
  BY DEF TapsInv
<1>1. ASSUME UNCHANGED <<tap, tapRow, price, off, wallet, trialLeft, subscription, onceOff, grants>>
      PROVE  MoneyInv'
  BY <1>1, BooksStand
<1>2. CASE UNCHANGED tillVars
  BY <1>1, <1>2 DEF tillVars
(* A handler goes on and settles nothing. *)
<1>3. ASSUME NEW t \in Taps, NEW z \in Stages, Goes(t, z), UNCHANGED <<buyer, grants>>,
             \A u \in Taps : tapRow'[u] = tapRow[u] \/ {tapRow[u], tapRow'[u]} \cap {"COMPLETED"} = {},
             \A u \in Taps : tapRow[u] = "COMPLETED" => price'[u] = price[u] /\ off'[u] = off[u]
      PROVE  MoneyInv'
  <2>1. \A u \in Taps : tap'[u].shape = tap[u].shape
    BY <1>3 DEF Goes, TillTyped
  <2>2. QED BY <1>3, <2>1, BooksStand
<1>4. ASSUME NEW t \in Taps, NEW s \in Shapes[t], Tap(t, s) PROVE MoneyInv'
  <2>1. tapRow[t] = "none" /\ \A u \in Taps \ {t} : tap'[u] = tap[u]
    BY <1>0, <1>4 DEF Tap, At, StageTrue, Unwritten, TillTyped
  <2>2. UNCHANGED <<tapRow, price, off, wallet, trialLeft, subscription, onceOff, grants>>
    BY <1>4 DEF Tap
  <2>3. QED BY <2>1, <2>2, BooksStand
<1>5. ASSUME NEW t \in Taps, TapEnds(t) \/ TapDies(t) \/ TooShort(t) \/ RefuseTrial(t)
                             \/ AskGateway(t) \/ InvoiceRefused(t) \/ ShowLink(t)
      PROVE  MoneyInv'
  <2>1. PICK z \in {"done", "ending", "billed", "refused"} : Goes(t, z)
    BY <1>5 DEF TapEnds, TapDies, TooShort, RefuseTrial, AskGateway, InvoiceRefused, ShowLink
  <2>2. z \in Stages
    BY DEF Stages
  <2>3. UNCHANGED <<tapRow, quote, buyer, grants>>
    BY <1>5 DEF TapEnds, TapDies, TooShort, RefuseTrial, AskGateway, InvoiceRefused, ShowLink
  <2>4. QED BY <1>3, <2>1, <2>2, <2>3
<1>6. ASSUME NEW t \in Taps, LockWallet(t) \/ AskPrice(t) PROVE MoneyInv'
  <2>1. PICK z \in {"priced", "quoted"} : Goes(t, z)
    BY <1>6 DEF LockWallet, AskPrice
  <2>2. z \in Stages
    BY DEF Stages
  <2>3. UNCHANGED <<tapRow, buyer, grants>> /\ Quoted(t)
    BY <1>6 DEF LockWallet, AskPrice
  <2>4. tapRow[t] = "none"
    BY <1>0, <1>6 DEF LockWallet, AskPrice, At, StageTrue, Unwritten
  <2>5. \A u \in Taps \ {t} : price'[u] = price[u] /\ off'[u] = off[u]
    BY <2>3, QuotedTyped
  <2>6. QED BY <1>3, <2>1, <2>2, <2>3, <2>4, <2>5
<1>7. ASSUME NEW t \in Taps, CommitRow(t) \/ CloseRow(t) PROVE MoneyInv'
  <2>1. PICK z \in {"stored", "ending"} : Goes(t, z)
    BY <1>7 DEF CommitRow, CloseRow
  <2>2. z \in Stages
    BY DEF Stages
  <2>3. UNCHANGED <<quote, buyer, grants>>
    BY <1>7 DEF CommitRow, CloseRow
  <2>4. tapRow[t] # "COMPLETED"
    BY <1>0, <1>7 DEF CommitRow, CloseRow, At, StageTrue, Unwritten
  <2>5. tapRow'[t] # "COMPLETED" /\ \A u \in Taps \ {t} : tapRow'[u] = tapRow[u]
    BY <1>7 DEF CommitRow, CloseRow, RowStands, ClosesRow, TillTyped
  <2>6. QED BY <1>3, <2>1, <2>2, <2>3, <2>4, <2>5
<1>8. ASSUME NEW t \in Taps, BuyForNothing(t) PROVE MoneyInv'
  <2>1. tapRow[t] # "COMPLETED" /\ ~Is(t, "balance") /\ price[t] = 0
    BY <1>0, <1>8 DEF BuyForNothing, Free, At, StageTrue, Unwritten
  <2>2. Delivered(t) /\ UNCHANGED <<price, off, grants, wallet>> /\ wallet \in Nat
    BY <1>8 DEF BuyForNothing, TillTyped
  <2>3. \A u \in Taps : tap'[u].shape = tap[u].shape
    BY <1>8 DEF BuyForNothing, Goes, TillTyped
  <2>4. wallet' = wallet + (IF Is(t, "deposit") THEN price[t] ELSE 0)
    BY <2>1, <2>2
  <2>5. QED BY <2>1, <2>2, <2>3, <2>4, MoneyDelivered
<1>9. ASSUME NEW t \in Taps, Settled(t), link[t] # "none", tapRow[t] = "PENDING",
             UNCHANGED <<tap, quote, grants>>
      PROVE  MoneyInv'
  <2>1. ~Is(t, "balance") /\ Delivered(t) /\ wallet \in Nat
    BY <1>0, <1>9 DEF RowTrue, Settled, TillTyped
  <2>2. wallet' = wallet + (IF Is(t, "deposit") THEN price[t] ELSE 0)
    BY <1>9, <2>1 DEF Settled
  <2>3. QED BY <1>9, <2>1, <2>2, MoneyDelivered
<1>10. ASSUME NEW t \in Taps, PayLink(t) \/ RunQueued(t) PROVE MoneyInv'
  <2>1. link[t] # "none" /\ UNCHANGED <<tap, quote, grants>>
    BY <1>10 DEF PayLink, RunQueued, ChargesLinked
  <2>2. CASE Settled(t) /\ tapRow[t] = "PENDING"
    BY <1>9, <2>1, <2>2
  <2>3. CASE UNCHANGED <<tapRow, buyer>>
    BY <1>1, <2>1, <2>3
  <2>4. QED BY <1>10, <2>2, <2>3 DEF PayLink, RunQueued
<1>11. ASSUME NEW x \in Charges, CreditCharge(x) PROVE MoneyInv'
  <2>1. starCharge[x].on \in Taps /\ link[starCharge[x].on] # "none"
    BY <1>11 DEF CreditCharge, ChargesLinked, TillTyped, ChargesTyped
  <2>2. /\ Settled(starCharge[x].on) /\ tapRow[starCharge[x].on] = "PENDING"
        /\ UNCHANGED <<tap, quote, grants>>
    BY <1>11 DEF CreditCharge, Moved
  <2>3. QED BY <1>9, <2>1, <2>2
<1>12. ASSUME NEW x \in Charges,
              ReportCharge(x) \/ DeferCharge(x) \/ LoseCharge(x) \/ \E t \in Taps : PreCheckout(x, t)
       PROVE  MoneyInv'
  BY <1>1, <1>12 DEF ReportCharge, DeferCharge, LoseCharge, PreCheckout
<1>13. CASE PayLockExpires
  BY <1>1, <1>13 DEF PayLockExpires
<1>14. CASE GrantOff \/ PlanEnds
  BY <1>14, BooksStand DEF GrantOff, PlanEnds
<1>15. QED
  BY <1>2, <1>4, <1>5, <1>6, <1>7, <1>8, <1>10, <1>11, <1>12, <1>13, <1>14, MoneySpent,
     MoneyTried, TillSteps

-----------------------------------------------------------------------------
TillInv == TillTyped /\ TapsInv /\ StarsInv /\ CountsInv /\ MoneyInv

LEMMA InitTill == TillInit => TillInv
<1> SUFFICES ASSUME TillInit PROVE TillInv
  OBVIOUS
<1> USE TillBounds DEF TillInit
<1>1. TillTyped
  <2>1. NoShape \in TapShape
    BY DEF NoShape, TapShape
  <2>2. tap \in [Taps -> [shape : TapShape, at : Stages]]
    BY <2>1 DEF Stages
  <2>3. ChargesTyped
    BY DEF ChargesTyped
  <2>4. /\ tapRow \in [Taps -> {"none", "PENDING", "COMPLETED", "CANCELED"}]
        /\ price \in [Taps -> Nat] /\ off \in [Taps -> 0 .. 100]
        /\ link \in [Taps -> {"none", "url", "invoice"}]
    OBVIOUS
  <2>5. /\ slow \in 0 .. MaxSlow /\ upsets \in 0 .. MaxUpsets /\ grants \in {0, 1}
        /\ wallet \in Nat /\ onceOff \in 0 .. 100
    OBVIOUS
  <2>6. /\ payLock \in BOOLEAN /\ userRow \in Taps \cup {NoTap} /\ queued \subseteq Taps
        /\ plan \in {"none", "trial", "paid"} /\ trialLeft \in BOOLEAN /\ paidRuns \in BOOLEAN
    OBVIOUS
  <2>7. QED BY <2>2, <2>3, <2>4, <2>5, <2>6 DEF TillTyped
<1>2. TapsInv
  BY DEF TapsInv, StageTrue, RowTrue, QuoteStands, Unwritten, Left
<1>3. StarsInv
  BY DEF StarsInv, ChargesLinked
<1>4. CountsInv
  <2>1. InFlight = {} /\ Orphans = {}
    BY DEF InFlight, Orphans
  <2>2. QED BY <2>1, FS_EmptySet DEF CountsInv
<1>5. MoneyInv
  <2>1. ToppedUp = {} /\ Sold = {} /\ Tried = {} /\ Spent = {}
    BY DEF ToppedUp, Sold, Tried, Spent, Bought
  <2>2. /\ Sums(ToppedUp) = 0 /\ Sums(Sold) = 0
        /\ Cardinality(Tried) = 0 /\ Cardinality(Spent) = 0
    BY <2>1, SumOfNone, FS_EmptySet DEF Sums
  <2>3. QED BY <2>1, <2>2 DEF MoneyInv
<1>6. QED BY <1>1, <1>2, <1>3, <1>4, <1>5 DEF TillInv

LEMMA TillStep == TillInv /\ [TillNext]_tillVars => TillInv'
<1> SUFFICES ASSUME TillInv, [TillNext]_tillVars PROVE TillInv'
  OBVIOUS
<1>1. ChargesLinked
  BY DEF TillInv, StarsInv
<1>2. TillTyped' /\ TapsInv' /\ StarsInv'
  BY <1>1, TypedStep, TapsStep, StarsStep DEF TillInv
<1>3. CountsInv' /\ MoneyInv'
  BY <1>1, <1>2, CountsStep, MoneyStep DEF TillInv
<1>4. QED BY <1>2, <1>3 DEF TillInv

LEMMA TillOneShots == TillInv => OneShotsSpentOnce
<1> SUFFICES ASSUME TillInv PROVE OneShotsSpentOnce
  OBVIOUS
<1>1. PICK tried \in Nat, spent \in Nat :
          tried = Cardinality(Tried) /\ spent = Cardinality(Spent)
  BY BookTypes DEF TillInv
<1>2. /\ spent + (IF onceOff > 0 THEN 1 ELSE 0) <= grants /\ grants \in Nat
      /\ tried + (IF trialLeft THEN 1 ELSE 0) <= 1
  BY <1>1 DEF TillInv, MoneyInv, TillTyped
<1>3. spent <= grants /\ tried <= 1
  BY <1>2
<1>4. plan = "trial" => ~paidRuns
  BY DEF TillInv, MoneyInv
<1>5. QED BY <1>1, <1>3, <1>4 DEF OneShotsSpentOnce, Spent

LEMMA TillHonest == TillInv => TillIsHonest
<1> SUFFICES ASSUME TillInv PROVE TillIsHonest
  OBVIOUS
<1>1. CheckoutsApart
  <2>1. PICK flying \in Nat : flying = Cardinality(InFlight)
    BY TapSets DEF InFlight
  <2>2. /\ flying <= (IF payLock THEN 1 ELSE 0) + (MaxSlow - slow) + (MaxUpsets - upsets)
        /\ slow \in Int /\ upsets \in Int /\ MaxSlow \in Int /\ MaxUpsets \in Int
    BY <2>1, TillBounds DEF TillInv, CountsInv, TillTyped
  <2>3. flying <= 1 + (MaxSlow - slow) + (MaxUpsets - upsets)
    BY <2>2
  <2>4. QED BY <2>1, <2>3 DEF CheckoutsApart
<1>2. LinksAreBacked
  BY DEF TillInv, TapsInv, RowTrue, CountsInv, Orphans, LinksAreBacked
<1>3. StarsHonest
  BY StarsAreHonest DEF TillInv
<1>4. WalletAddsUp
  BY DEF TillInv, MoneyInv, TillTyped, WalletAddsUp, Sold
<1>5. QED BY <1>1, <1>2, <1>3, <1>4 DEF TillIsHonest

-----------------------------------------------------------------------------
(* The saved card: the stamp that claims an attempt is also its lock.  A   *)
(* run that may still charge finds the gap stamped and nothing charged in  *)
(* it, and is alone.                                                       *)

MayCharge(r) == charging[r] \in {"claimed", "started"}

CardInv ==
    /\ attempted \in BOOLEAN /\ chargesToday \in Nat
    /\ charging \in [CardRuns -> {"idle", "candidate", "claimed", "started", "answered", "settling"}]
    /\ chargesToday <= 1 /\ (~attempted => chargesToday = 0)
    /\ \A r \in CardRuns : MayCharge(r) => attempted /\ chargesToday = 0
    /\ \A r, q \in CardRuns : MayCharge(r) /\ MayCharge(q) => r = q

LEMMA InitCard == CardInit => CardInv
<1> SUFFICES ASSUME CardInit PROVE CardInv
  OBVIOUS
<1>1. /\ attempted = FALSE /\ chargesToday = 0
      /\ charging = [r \in CardRuns |-> "idle"]
  BY DEF CardInit
<1>2. \A r \in CardRuns : ~MayCharge(r)
  BY <1>1 DEF MayCharge
<1>3. attempted \in BOOLEAN
  BY <1>1
<1>4. chargesToday \in Nat /\ chargesToday <= 1
  BY <1>1
<1>5. QED BY <1>1, <1>2, <1>3, <1>4 DEF CardInv

LEMMA CardInvStep == CardInv /\ [CardNext]_cardVars => CardInv'
<1> SUFFICES ASSUME CardInv, [CardNext]_cardVars PROVE CardInv'
  OBVIOUS
<1> USE DEF CardInv, MayCharge
<1>1. CASE UNCHANGED cardVars
  BY <1>1 DEF cardVars
<1>2. ASSUME NEW r \in CardRuns, Snapshot(r) PROVE CardInv'
  BY <1>2 DEF Snapshot
<1>3. ASSUME NEW r \in CardRuns, ClaimAttempt(r) PROVE CardInv'
  BY <1>3 DEF ClaimAttempt, AttemptDue
<1>4. ASSUME NEW r \in CardRuns, StartPayment(r) PROVE CardInv'
  BY <1>4 DEF StartPayment
<1>5. ASSUME NEW r \in CardRuns, ChargeCard(r) \/ ChargeUnanswered(r) PROVE CardInv'
  <2>1. /\ MayCharge(r) /\ attempted' = attempted /\ chargesToday' \in {0, 1}
        /\ \/ charging' = [charging EXCEPT ![r] = "answered"]
           \/ charging' = [charging EXCEPT ![r] = "idle"]
    BY <1>5 DEF ChargeCard, ChargeUnanswered
  <2>2. \A q \in CardRuns : ~MayCharge(q)'
    BY <2>1
  <2>3. QED BY <2>1, <2>2
<1>6. ASSUME NEW r \in CardRuns, StoreChargeId(r) \/ SettleNow(r) \/ CardRunDies(r) PROVE CardInv'
  BY <1>6 DEF StoreChargeId, SettleNow, Settle, CardRunDies
<1>7. ASSUME NEW r \in CardRuns, SettleLater(r) \/ PendingResolves(r) PROVE CardInv'
  BY <1>7 DEF SettleLater, Settle, PendingResolves
<1>8. CASE GapPasses
  <2>1. attempted' = FALSE /\ chargesToday' = 0 /\ charging' = charging
    BY <1>8 DEF GapPasses
  <2>2. \A r \in CardRuns : ~MayCharge(r)'
    BY <1>8, <2>1 DEF GapPasses
  <2>3. attempted' \in BOOLEAN
    BY <2>1
  <2>4. chargesToday' \in Nat /\ chargesToday' <= 1
    BY <2>1
  <2>5. ~attempted' => chargesToday' = 0
    BY <2>1
  <2>6. QED BY <2>1, <2>2, <2>3, <2>4, <2>5
<1>9. QED BY <1>1, <1>2, <1>3, <1>4, <1>5, <1>6, <1>7, <1>8 DEF CardNext, CardStep

LEMMA CardOnce == CardInv => OneChargePerGap
  BY DEF CardInv, OneChargePerGap

-----------------------------------------------------------------------------
(* A promo code: who is between its check and its activation holds the     *)
(* row, and what the check found stays true meanwhile.  Of the days given, *)
(* each counts once at most: those of requests that rolled back, and of    *)
(* the one that is activated or under way.                                 *)

Checked(r) == redeem[r] \in {"valid", "given"}

PromoTyped ==
    /\ promoLock \in Redeems \cup {NoRedeem}
    /\ redeem \in [Redeems -> {"new", "locked", "valid", "given", "done", "refused"}]
    /\ promoGiven \in [People -> Nat] /\ panelGiven \in [People -> Nat]
    /\ promoUndone \in [People -> Nat] /\ promoNews \in [People -> SUBSET Nat]
    /\ codeLimit \in Nat /\ highest \in Nat
    /\ activated \subseteq People /\ IsFiniteSet(activated)
    /\ inDays \in BOOLEAN

HoldsTheCode == \A r \in Redeems : redeem[r] = "locked" \/ Checked(r) <=> promoLock = r

CodeInv ==
    /\ HoldsTheCode
    /\ codeLimit <= highest
    /\ Cardinality(activated) <= highest
    /\ \A r \in Redeems : Checked(r) => Redeemer[r] \notin activated /\ SlotsLeft

Standing(u) == u \in activated \/ \E r \in Redeems : Redeemer[r] = u /\ redeem[r] = "given"
DaysOf(u) == IF Standing(u) THEN promoUndone[u] + 1 ELSE promoUndone[u]

DaysInv(u) ==
    /\ inDays =>
          /\ promoGiven[u] <= DaysOf(u) /\ panelGiven[u] <= DaysOf(u)
          /\ \A d \in promoNews[u] : d <= DaysOf(u)
          /\ Standing(u) => panelGiven[u] >= 1
    /\ ~inDays => panelGiven[u] = 0 /\ u \notin promoCopied
    /\ u \notin promoCopied =>
          promoGiven[u] = (IF u \in activated THEN 1 ELSE 0) /\ panelGiven[u] <= 1

PromoInv == PromoTyped /\ CodeInv /\ \A u \in People : DaysInv(u)

LEMMA PromoOnce == PromoInv => RewardOncePerSlot
<1> SUFFICES ASSUME PromoInv, NEW u \in People
             PROVE  LET most == 1 + (IF u \in promoCopied THEN promoUndone[u] ELSE 0)
                    IN  /\ promoGiven[u] <= most /\ panelGiven[u] <= most
                        /\ u \notin promoCopied => promoGiven[u] = IF u \in activated THEN 1 ELSE 0
                        /\ u \in activated /\ inDays => panelGiven[u] >= 1
  BY DEF RewardOncePerSlot, PromoInv, CodeInv
<1>1. DaysInv(u) /\ promoGiven[u] \in Nat /\ panelGiven[u] \in Nat /\ promoUndone[u] \in Nat
  BY DEF PromoInv, PromoTyped
<1>2. u \in activated => Standing(u)
  BY DEF Standing
<1>3. CASE u \in promoCopied
  BY <1>1, <1>2, <1>3 DEF DaysInv, DaysOf
<1>4. CASE u \notin promoCopied
  BY <1>1, <1>2, <1>4 DEF DaysInv
<1>5. QED BY <1>3, <1>4

LEMMA InitPromo == PromoInit => PromoInv
<1> SUFFICES ASSUME PromoInit PROVE PromoInv
  OBVIOUS
<1>1. Cardinality(activated) = 0 /\ IsFiniteSet(activated) /\ activated = {}
  BY FS_EmptySet DEF PromoInit
<1>2. /\ \A r \in Redeems : redeem[r] = "new"
      /\ \A u \in People : promoGiven[u] = 0 /\ panelGiven[u] = 0 /\ promoNews[u] = {0}
                           /\ promoUndone[u] = 0
      /\ promoCopied = {} /\ codeLimit = 1 /\ highest = 1 /\ promoLock = NoRedeem
      /\ inDays \in BOOLEAN
  BY DEF PromoInit
<1>3. PromoTyped
  <2>1. promoGiven \in [People -> Nat] /\ panelGiven \in [People -> Nat]
        /\ promoUndone \in [People -> Nat]
    BY DEF PromoInit
  <2>2. promoNews \in [People -> SUBSET Nat]
    <3>1. {0} \in SUBSET Nat
      OBVIOUS
    <3>2. QED BY <3>1 DEF PromoInit
  <2>3. redeem \in [Redeems -> {"new", "locked", "valid", "given", "done", "refused"}]
    BY DEF PromoInit
  <2>4. QED BY <1>1, <1>2, <2>1, <2>2, <2>3 DEF PromoTyped
<1>4. CodeInv
  BY <1>1, <1>2, RedeemsAssumption DEF CodeInv, HoldsTheCode, Checked
<1>5. ASSUME NEW u \in People PROVE DaysInv(u)
  <2>1. ~Standing(u)
    BY <1>1, <1>2 DEF Standing
  <2>2. QED BY <1>1, <1>2, <2>1 DEF DaysInv, DaysOf
<1>6. QED BY <1>3, <1>4, <1>5 DEF PromoInv

LEMMA PromoStep == PromoInv /\ [PromoNext]_promoVars => PromoInv'
<1> SUFFICES ASSUME PromoInv, [PromoNext]_promoVars PROVE PromoInv'
  OBVIOUS
<1> USE RedeemsAssumption DEF promoCode, promoDates
<1>0. PromoTyped /\ CodeInv /\ \A u \in People : DaysInv(u)
  BY DEF PromoInv
<1>a. PICK size \in Nat : size = Cardinality(activated)
  BY <1>0, SizeIsNat DEF PromoTyped
(* A step that neither gives days nor takes them back. *)
<1>b. ASSUME UNCHANGED <<activated, promoGiven, panelGiven, inDays, promoNews, promoCopied,
                         promoUndone>>,
             \A q \in Redeems : redeem[q] = "given" <=> redeem'[q] = "given"
      PROVE  \A u \in People : DaysInv(u)'
  <2>1. \A u \in People : Standing(u) <=> Standing(u)'
    BY <1>b DEF Standing
  <2>2. \A u \in People : DaysOf(u)' = DaysOf(u)
    BY <1>b, <2>1 DEF DaysOf
  <2>3. QED BY <1>0, <1>b, <2>1, <2>2 DEF DaysInv
<1>1. CASE UNCHANGED promoVars
  <2>1. PromoTyped' /\ CodeInv'
    BY <1>0, <1>1 DEF promoVars, PromoTyped, CodeInv, HoldsTheCode, Checked, SlotsLeft
  <2>2. \A u \in People : DaysInv(u)'
    BY <1>1, <1>b DEF promoVars
  <2>3. QED BY <2>1, <2>2 DEF PromoInv
<1>2. ASSUME NEW r \in Redeems, LockCode(r) PROVE PromoInv'
  <2>1. PromoTyped' /\ CodeInv'
    BY <1>0, <1>2 DEF LockCode, CodeFree, PromoTyped, CodeInv, HoldsTheCode, Checked, SlotsLeft
  <2>2. \A u \in People : DaysInv(u)'
    BY <1>0, <1>2, <1>b DEF LockCode, PromoTyped
  <2>3. QED BY <2>1, <2>2 DEF PromoInv
<1>3. ASSUME NEW r \in Redeems, CheckCode(r) PROVE PromoInv'
  <2>1. promoLock = r /\ redeem[r] = "locked"
    BY <1>0, <1>3 DEF CheckCode, CodeInv, HoldsTheCode
  <2>2. UNCHANGED <<codeLimit, activated, promoGiven, panelGiven, highest, inDays, promoNews,
                    promoCopied, promoUndone>>
    BY <1>3 DEF CheckCode
  <2>3. PromoTyped' /\ CodeInv'
    <3>1. CASE promoOn /\ Redeemer[r] \notin activated /\ SlotsLeft
      BY <1>0, <1>3, <2>1, <2>2, <3>1
         DEF CheckCode, PromoTyped, CodeInv, HoldsTheCode, Checked, SlotsLeft
    <3>2. CASE ~(promoOn /\ Redeemer[r] \notin activated /\ SlotsLeft)
      BY <1>0, <1>3, <2>1, <2>2, <3>2
         DEF CheckCode, Leave, PromoTyped, CodeInv, HoldsTheCode, Checked, SlotsLeft
    <3>3. QED BY <3>1, <3>2
  <2>4. \A q \in Redeems : redeem[q] = "given" <=> redeem'[q] = "given"
    BY <1>0, <1>3, <2>1 DEF CheckCode, PromoTyped
  <2>5. \A u \in People : DaysInv(u)'
    BY <2>2, <2>4, <1>b
  <2>6. QED BY <2>3, <2>5 DEF PromoInv
<1>4. ASSUME NEW r \in Redeems, GiveReward(r) PROVE PromoInv'
  <2> DEFINE me == Redeemer[r]
  <2>1. /\ me \in People /\ redeem[r] = "valid" /\ promoLock = r /\ me \notin activated
        /\ redeem' = [redeem EXCEPT ![r] = "given"]
        /\ UNCHANGED <<codeLimit, highest, promoLock, activated, promoGiven, inDays, promoCopied,
                       promoUndone>>
    BY <1>0, <1>4 DEF GiveReward, CodeInv, HoldsTheCode, Checked
  <2>2. IF inDays
        THEN /\ panelGiven' = [panelGiven EXCEPT ![me] = promoGiven[me] + 1]
             /\ promoNews' = [promoNews EXCEPT ![me] = @ \cup {promoGiven[me] + 1}]
        ELSE UNCHANGED <<panelGiven, promoNews>>
    BY <1>4 DEF GiveReward
  <2>3. PromoTyped'
    BY <1>0, <2>1, <2>2 DEF PromoTyped
  <2>4. CodeInv'
    BY <1>0, <2>1 DEF PromoTyped, CodeInv, HoldsTheCode, Checked, SlotsLeft
  <2>5. ~Standing(me) /\ Standing(me)'
    BY <1>0, <2>1 DEF Standing, CodeInv, HoldsTheCode, Checked, PromoTyped
  <2>6. \A u \in People \ {me} : Standing(u) <=> Standing(u)'
    BY <1>0, <2>1 DEF Standing, PromoTyped
  <2>7. DaysInv(me)'
    <3>1. DaysOf(me) = promoUndone[me] /\ DaysOf(me)' = promoUndone[me] + 1
      BY <2>1, <2>5 DEF DaysOf
    <3>2. DaysInv(me) /\ promoUndone[me] \in Nat /\ promoGiven[me] \in Nat /\ panelGiven[me] \in Nat
          /\ promoNews[me] \subseteq Nat /\ inDays \in BOOLEAN
      BY <1>0, <2>1 DEF PromoTyped
    <3>3. CASE inDays
      <4>1. panelGiven'[me] = promoGiven[me] + 1 /\ promoNews'[me] = promoNews[me] \cup {promoGiven[me] + 1}
        BY <1>0, <2>1, <2>2, <3>3 DEF PromoTyped
      <4>2. QED BY <2>1, <3>1, <3>2, <3>3, <4>1 DEF DaysInv
    <3>4. CASE ~inDays
      BY <2>1, <2>2, <3>2, <3>4 DEF DaysInv
    <3>5. QED BY <3>3, <3>4
  <2>8. ASSUME NEW u \in People \ {me} PROVE DaysInv(u)'
    <3>1. panelGiven'[u] = panelGiven[u] /\ promoNews'[u] = promoNews[u]
      BY <1>0, <2>1, <2>2 DEF PromoTyped
    <3>2. (Standing(u) <=> Standing(u)') /\ DaysOf(u)' = DaysOf(u)
      BY <2>1, <2>6 DEF DaysOf
    <3>3. QED BY <1>0, <2>1, <3>1, <3>2 DEF DaysInv
  <2>9. QED BY <2>3, <2>4, <2>7, <2>8 DEF PromoInv
<1>5. ASSUME NEW r \in Redeems, Activate(r) PROVE PromoInv'
  <2> DEFINE me == Redeemer[r]
  <2>1. /\ me \in People \ activated /\ redeem[r] = "given"
        /\ activated' = activated \cup {me}
        /\ promoGiven' = [promoGiven EXCEPT ![me] = IF inDays THEN panelGiven[me] ELSE @ + 1]
        /\ redeem' = [redeem EXCEPT ![r] = "done"]
        /\ promoLock = r /\ promoLock' = NoRedeem
        /\ UNCHANGED <<codeLimit, panelGiven, highest, inDays, promoNews, promoCopied, promoUndone>>
    BY <1>0, <1>5 DEF Activate, Leave, CodeInv, HoldsTheCode, Checked
  <2>2. /\ IsFiniteSet(activated') /\ Cardinality(activated') = size + 1
        /\ activated' \subseteq People
    BY <1>0, <1>a, <2>1, OneMore DEF PromoTyped
  <2>3. size + 1 <= highest'
    BY <1>0, <1>a, <2>1 DEF PromoTyped, CodeInv, Checked, SlotsLeft
  <2>4. \A q \in Redeems : ~(redeem'[q] = "locked" \/ redeem'[q] \in {"valid", "given"})
    BY <1>0, <2>1 DEF CodeInv, HoldsTheCode, Checked, PromoTyped
  <2>5. CodeInv'
    BY <1>0, <2>1, <2>2, <2>3, <2>4 DEF CodeInv, HoldsTheCode, Checked
  <2>6. PromoTyped'
    BY <1>0, <2>1, <2>2 DEF PromoTyped
  <2>7. Standing(me) /\ Standing(me)'
    BY <2>1 DEF Standing
  <2>8. \A u \in People \ {me} : Standing(u) <=> Standing(u)'
    BY <1>0, <2>1 DEF Standing, PromoTyped
  <2>9. DaysInv(me)'
    <3>1. DaysOf(me)' = DaysOf(me)
      BY <2>1, <2>7 DEF DaysOf
    <3>2. DaysInv(me) /\ promoGiven[me] \in Nat /\ panelGiven[me] \in Nat /\ inDays \in BOOLEAN
          /\ promoGiven'[me] = IF inDays THEN panelGiven[me] ELSE promoGiven[me] + 1
      BY <1>0, <2>1 DEF PromoTyped
    <3>3. QED BY <2>1, <2>7, <3>1, <3>2 DEF DaysInv
  <2>10. ASSUME NEW u \in People \ {me} PROVE DaysInv(u)'
    <3>1. promoGiven'[u] = promoGiven[u] /\ (u \in activated <=> u \in activated')
      BY <1>0, <2>1 DEF PromoTyped
    <3>2. (Standing(u) <=> Standing(u)') /\ DaysOf(u)' = DaysOf(u)
      BY <2>1, <2>8 DEF DaysOf
    <3>3. QED BY <1>0, <2>1, <3>1, <3>2 DEF DaysInv
  <2>11. QED BY <2>5, <2>6, <2>9, <2>10 DEF PromoInv
<1>6. ASSUME NEW r \in Redeems, RedeemFails(r) PROVE PromoInv'
  <2> DEFINE me == Redeemer[r]
  <2>1. /\ me \in People /\ redeem[r] \in {"locked", "valid", "given"} /\ promoLock = r
        /\ promoLock' = NoRedeem
        /\ redeem' = [redeem EXCEPT ![r] = "new"]
        /\ promoUndone' = IF inDays /\ redeem[r] = "given"
                          THEN [promoUndone EXCEPT ![me] = @ + 1] ELSE promoUndone
        /\ UNCHANGED <<codeLimit, highest, activated, promoGiven, panelGiven, inDays, promoNews,
                       promoCopied>>
    BY <1>0, <1>6 DEF RedeemFails, Leave, CodeInv, HoldsTheCode, Checked
  <2>2. PromoTyped'
    BY <1>0, <2>1 DEF PromoTyped
  <2>3. CodeInv'
    BY <1>0, <2>1 DEF PromoTyped, CodeInv, HoldsTheCode, Checked, SlotsLeft
  <2>4. CASE redeem[r] # "given"
    <3>1. \A q \in Redeems : redeem[q] = "given" <=> redeem'[q] = "given"
      BY <1>0, <2>1, <2>4 DEF PromoTyped
    <3>2. QED BY <2>1, <2>2, <2>3, <2>4, <3>1, <1>b DEF PromoInv
  <2>5. CASE redeem[r] = "given"
    <3>1. Standing(me) /\ me \notin activated
      BY <1>0, <2>1, <2>5 DEF Standing, CodeInv, Checked
    <3>2. ~Standing(me)'
      BY <1>0, <2>1, <3>1 DEF Standing, CodeInv, HoldsTheCode, Checked, PromoTyped
    <3>3. \A u \in People \ {me} : Standing(u) <=> Standing(u)'
      BY <1>0, <2>1 DEF Standing, PromoTyped
    <3>4. DaysInv(me)'
      <4>1. inDays => DaysOf(me)' = DaysOf(me)
        BY <1>0, <2>1, <2>5, <3>1, <3>2 DEF DaysOf, PromoTyped
      <4>2. DaysInv(me)
        BY <1>0, <2>1
      <4>3. QED BY <2>1, <3>2, <4>1, <4>2 DEF DaysInv
    <3>5. ASSUME NEW u \in People \ {me} PROVE DaysInv(u)'
      <4>1. promoUndone'[u] = promoUndone[u]
        BY <1>0, <2>1 DEF PromoTyped
      <4>2. (Standing(u) <=> Standing(u)') /\ DaysOf(u)' = DaysOf(u)
        BY <3>3, <4>1 DEF DaysOf
      <4>3. QED BY <1>0, <2>1, <4>2 DEF DaysInv
    <3>6. QED BY <2>2, <2>3, <3>4, <3>5 DEF PromoInv
  <2>6. QED BY <2>4, <2>5
<1>7. CASE EditCode
  <2>1. \A r \in Redeems : ~Checked(r)
    BY <1>0, <1>7 DEF EditCode, CodeInv, HoldsTheCode
  <2>2. PICK n \in Limits : codeLimit' = n /\ highest' = IF n > highest THEN n ELSE highest
    BY <1>7 DEF EditCode
  <2>3. n \in Nat
    BY <2>2
  <2>4. UNCHANGED <<promoLock, activated, redeem, promoGiven, panelGiven, inDays, promoNews,
                    promoCopied, promoUndone>>
    BY <1>7 DEF EditCode
  <2>5. Cardinality(activated') = size /\ size <= highest' /\ codeLimit' <= highest'
    BY <1>0, <1>a, <2>2, <2>3, <2>4 DEF CodeInv, PromoTyped
  <2>6. PromoTyped' /\ CodeInv'
    BY <1>0, <2>1, <2>2, <2>3, <2>4, <2>5 DEF PromoTyped, CodeInv, HoldsTheCode, Checked
  <2>7. \A u \in People : DaysInv(u)'
    BY <2>4, <1>b
  <2>8. QED BY <2>6, <2>7 DEF PromoInv
<1>8. ASSUME NEW me \in People, PromoPanelTells(me) PROVE PromoInv'
  <2>1. PICK days \in promoNews[me] : promoGiven' = [promoGiven EXCEPT ![me] = days]
    BY <1>8 DEF PromoPanelTells
  <2>2. /\ inDays = TRUE /\ promoCopied' = promoCopied \cup {me} /\ days \in Nat
        /\ UNCHANGED <<codeLimit, highest, promoLock, activated, redeem, panelGiven, inDays,
                       promoNews, promoUndone>>
    BY <1>0, <1>8, <2>1 DEF PromoPanelTells, PromoTyped
  <2>3. PromoTyped'
    BY <1>0, <2>1, <2>2 DEF PromoTyped
  <2>4. CodeInv'
    BY <1>0, <2>2 DEF CodeInv, HoldsTheCode, Checked, SlotsLeft
  <2>5. \A u \in People : (Standing(u) <=> Standing(u)') /\ DaysOf(u)' = DaysOf(u)
    BY <2>2 DEF Standing, DaysOf
  <2>6. DaysInv(me)'
    <3>1. promoGiven'[me] = days /\ days <= DaysOf(me) /\ DaysInv(me)
      BY <1>0, <2>1, <2>2 DEF DaysInv, PromoTyped
    <3>2. QED BY <2>2, <2>5, <3>1 DEF DaysInv
  <2>7. ASSUME NEW u \in People \ {me} PROVE DaysInv(u)'
    <3>1. promoGiven'[u] = promoGiven[u]
      BY <1>0, <2>1 DEF PromoTyped
    <3>2. QED BY <1>0, <2>2, <2>5, <3>1 DEF DaysInv
  <2>8. QED BY <2>3, <2>4, <2>6, <2>7 DEF PromoInv
<1>9. QED BY <1>1, <1>2, <1>3, <1>4, <1>5, <1>6, <1>7, <1>8 DEF PromoNext

-----------------------------------------------------------------------------
(* The panel's client: every key a row, a call, a cache or a webhook holds *)
(* of a subscription leads to that subscription's user, or nowhere.        *)

Keys == Accounts \cup {NoKey}
Refs == [uuid : Keys, id : Keys]
PanelCalls ==
    [at : {"idle", "route", "send", "done", "error"}, op : Ops, for : Keys, refs : Refs,
     by : {"uuid", "id"}, to : Keys, tries : Nat, did : BOOLEAN]

LeadTo(s, refs) == refs.uuid \in {s, NoKey} /\ refs.id \in {s, NoKey}

CallTrue(k) ==
    /\ k.at # "idle" => k.for \in Accounts
    /\ LeadTo(k.for, k.refs)
    /\ k.at \in {"send", "done"} => k.to = k.for
    /\ k.at = "done" => k.did

ClientInv ==
    /\ call \in [Calls -> PanelCalls]
    /\ keys \in [Accounts -> Refs]
    /\ cache \in [Clients -> [Accounts -> Keys]]
    /\ \A c \in Calls : CallTrue(call[c])
    /\ \A s \in Accounts : LeadTo(s, keys[s])
    /\ \A p \in Clients, s \in Accounts : cache[p][s] \in {s, NoKey}
    /\ \A e \in mail : e.user \in Accounts
    /\ astray = {}

(* The panel's search by name and by shortUuid finds the one it is for.    *)
LEMMA FindsItself ==
  ASSUME NEW s \in Accounts
  PROVE  Resolved(s) \subseteq {s} /\ (s \in Own /\ Present(s) => Resolved(s) = {s})
<1>1. \A a \in Accounts : UserName(a) = <<"sub_", s>> <=> a \in Own /\ a = s
  BY DEF UserName
<1>2. \A a \in Accounts : ShortUuid(a) = <<"short", s>> => a = s
  BY DEF ShortUuid
<1>3. QED BY <1>1, <1>2 DEF Resolved

LEMMA FindsTheRow ==
  ASSUME ClientInv, NEW e \in mail
  PROVE  RowOf(e) \subseteq {e.user}
<1>1. e.user \in Accounts /\ e.user # NoKey
  BY PanelClientAssumption DEF ClientInv
<1>2. \A s \in Accounts : keys[s].uuid = e.user \/ keys[s].id = e.user => s = e.user
  BY <1>1 DEF ClientInv, LeadTo
<1>3. \A s \in Accounts : UserName(e.user) = <<"sub_", s>> \/ ShortUuid(e.user) = <<"short", s>>
                            => s = e.user
  BY <1>1 DEF UserName, ShortUuid
<1>4. QED BY <1>2, <1>3 DEF RowOf

LEMMA InitClient == ClientInit => ClientInv
<1> SUFFICES ASSUME ClientInit PROVE ClientInv
  OBVIOUS
<1>1. /\ call = [c \in Calls |-> Quiet] /\ mail = {} /\ astray = {}
      /\ cache = [p \in Clients |-> [a \in Accounts |-> NoKey]]
  BY DEF ClientInit
<1>2. PICK sold \in SUBSET Own :
          keys = [a \in Accounts |->
                    IF a \in sold \cup Adopted THEN [uuid |-> a, id |-> NoKey] ELSE NoRefs]
  BY DEF ClientInit
<1>3. keys \in [Accounts -> Refs] /\ \A s \in Accounts : LeadTo(s, keys[s])
  BY <1>2 DEF NoRefs, Refs, Keys, LeadTo
<1>4. Quiet \in PanelCalls /\ CallTrue(Quiet)
  BY DEF Quiet, NoRefs, PanelCalls, Refs, Keys, CallTrue, LeadTo, Ops
<1>5. QED BY <1>1, <1>3, <1>4 DEF ClientInv, Keys

(* A step of one call. *)
LEMMA CallMoves ==
  ASSUME ClientInv, NEW c \in Calls, NEW k \in PanelCalls, CallTrue(k), CallIs(c, k)
  PROVE  call' \in [Calls -> PanelCalls] /\ \A d \in Calls : CallTrue(call'[d])
  BY DEF ClientInv, CallIs

LEMMA CallFails ==
  ASSUME ClientInv, NEW c \in Calls, call[c].at # "idle", Fails(c)
  PROVE  call' \in [Calls -> PanelCalls] /\ \A d \in Calls : CallTrue(call'[d])
<1> DEFINE k == [call[c] EXCEPT !.at = "error"]
<1>1. k \in PanelCalls /\ CallTrue(k) /\ CallIs(c, k)
  BY DEF ClientInv, PanelCalls, CallTrue, Fails
<1>2. QED BY <1>1, CallMoves

LEMMA TakesTrue ==
  ASSUME ClientInv, NEW c \in Calls, call[c].at = "send", Takes(c)
  PROVE  astray' = {} /\ \A e \in mail' : e.user \in Accounts
<1>1. call[c].to \in Accounts /\ call[c].to = call[c].for
  BY DEF ClientInv, CallTrue
<1>2. <<call[c].for, call[c].to>> \in Straight
  BY <1>1 DEF Straight
<1>3. astray' = {}
  BY <1>2 DEF ClientInv, Takes
<1>4. QED BY <1>1, <1>3 DEF ClientInv, Takes

LEMMA ClientStep == ClientInv /\ [ClientNext]_clientVars => ClientInv'
<1> SUFFICES ASSUME ClientInv, [ClientNext]_clientVars PROVE ClientInv'
  OBVIOUS
<1>0. /\ call \in [Calls -> PanelCalls] /\ keys \in [Accounts -> Refs]
      /\ cache \in [Clients -> [Accounts -> Keys]] /\ astray = {}
      /\ \A c \in Calls : CallTrue(call[c])
  BY DEF ClientInv
<1>1. CASE UNCHANGED clientVars
  BY <1>1 DEF clientVars, ClientInv
<1>2. ASSUME NEW c \in Calls, NEW s \in Accounts, NEW op \in Ops, Begin(c, s, op) PROVE ClientInv'
  <2> DEFINE k == [Quiet EXCEPT !.at = IF op = "create" THEN "send" ELSE "route", !.op = op,
                                !.for = s, !.to = s, !.refs = keys[s]]
  <2>1. k \in PanelCalls
    BY <1>0 DEF Quiet, PanelCalls, Refs, Keys
  <2>2. CallTrue(k)
    BY DEF ClientInv, CallTrue, Quiet
  <2>3. CallIs(c, k) /\ UNCHANGED <<keys, cache, mail, astray>>
    BY <1>2 DEF Begin
  <2>4. QED BY <2>1, <2>2, <2>3, CallMoves DEF ClientInv
<1>3. ASSUME NEW c \in Calls, AskVersion(c) \/ RouteUnanswered(c) PROVE ClientInv'
  <2>1. UNCHANGED <<keys, cache, mail, astray>> /\ call[c].at # "idle"
    BY <1>3 DEF AskVersion, RouteUnanswered
  <2>2. UNCHANGED call \/ Fails(c)
    BY <1>3 DEF AskVersion, RouteUnanswered
  <2>3. QED BY <2>1, <2>2, CallFails DEF ClientInv
<1>4. ASSUME NEW c \in Calls, Route(c) PROVE ClientInv'
  <2> DEFINE k == call[c]
             p == ClientOf[c]
             sent(by, to) == [k EXCEPT !.at = "send", !.by = by, !.to = to]
  <2>1. /\ k \in PanelCalls /\ CallTrue(k) /\ k.at = "route" /\ k.for \in Accounts
        /\ p \in Clients /\ k.for # NoKey
    BY <1>0, <1>4, PanelClientAssumption DEF Route, CallTrue
  <2>2. \A by \in {"uuid", "id"} : sent(by, k.for) \in PanelCalls /\ CallTrue(sent(by, k.for))
    BY <2>1 DEF PanelCalls, CallTrue, LeadTo
  <2>3. UNCHANGED <<keys, mail, astray>>
    BY <1>4 DEF Route
  <2>4. \/ Fails(c) /\ UNCHANGED cache
        \/ \E by \in {"uuid", "id"} : CallIs(c, sent(by, k.for)) /\ UNCHANGED cache
        \/ /\ CallIs(c, sent("id", k.for))
           /\ cache' = [cache EXCEPT ![p][k.for] = k.for]
    <3>1. k.refs.uuid \in {k.for, NoKey} /\ k.refs.id \in {k.for, NoKey}
          /\ Number(p, k.for) \in {k.for, NoKey}
      BY <2>1 DEF CallTrue, LeadTo, Number, ClientInv
    <3>2. Resolved(k.for) \subseteq {k.for}
      BY <2>1, FindsItself
    <3>3. CASE mode[p] = 2
      BY <1>4, <3>1, <3>3 DEF Route
    <3>4. CASE mode[p] # 2 /\ k.refs.id # NoKey
      BY <1>4, <3>1, <3>4 DEF Route
    <3>5. CASE mode[p] # 2 /\ k.refs.id = NoKey /\ Number(p, k.for) # NoKey
      BY <1>4, <3>1, <3>5 DEF Route
    <3>6. CASE mode[p] # 2 /\ k.refs.id = NoKey /\ Number(p, k.for) = NoKey
      BY <1>4, <3>2, <3>6 DEF Route
    <3>7. QED BY <3>3, <3>4, <3>5, <3>6
  <2>5. CASE Fails(c) /\ UNCHANGED cache
    BY <2>1, <2>3, <2>5, CallFails DEF ClientInv
  <2>6. ASSUME NEW by \in {"uuid", "id"}, CallIs(c, sent(by, k.for)), UNCHANGED cache
        PROVE  ClientInv'
    BY <2>2, <2>3, <2>6, CallMoves DEF ClientInv
  <2>7. CASE /\ CallIs(c, sent("id", k.for))
             /\ cache' = [cache EXCEPT ![p][k.for] = k.for]
    <3>1. cache' \in [Clients -> [Accounts -> Keys]]
      BY <1>0, <2>1, <2>7 DEF Keys
    <3>2. \A q \in Clients, s \in Accounts : cache'[q][s] \in {s, NoKey}
      BY <1>0, <2>1, <2>7 DEF ClientInv
    <3>3. call' \in [Calls -> PanelCalls] /\ \A d \in Calls : CallTrue(call'[d])
      BY <2>2, <2>7, CallMoves
    <3>4. QED BY <2>3, <3>1, <3>2, <3>3 DEF ClientInv
  <2>8. QED BY <2>4, <2>5, <2>6, <2>7
<1>5. ASSUME NEW c \in Calls, SendAnswered(c) PROVE ClientInv'
  <2> DEFINE k == call[c]
  <2>1. k \in PanelCalls /\ CallTrue(k) /\ k.at = "send" /\ UNCHANGED <<keys, cache>>
    BY <1>0, <1>5 DEF SendAnswered
  <2>2. CASE Knows(k) /\ ~Already(k)
    <3> DEFINE j == [k EXCEPT !.at = "done", !.did = TRUE]
    <3>1. Takes(c) /\ CallIs(c, j)
      BY <1>5, <2>2 DEF SendAnswered
    <3>2. j \in PanelCalls /\ CallTrue(j)
      BY <2>1 DEF PanelCalls, CallTrue
    <3>3. call' \in [Calls -> PanelCalls] /\ \A d \in Calls : CallTrue(call'[d])
      BY <3>1, <3>2, CallMoves
    <3>4. QED BY <2>1, <3>1, <3>3, TakesTrue DEF ClientInv
  <2>3. CASE ~(Knows(k) /\ ~Already(k)) /\ AlreadyInState(k)
    <3> DEFINE j == [k EXCEPT !.at = "done", !.did = @ \/ (Knows(k) /\ Already(k))]
    <3>1. CallIs(c, j) /\ UNCHANGED <<account, astray, mail>>
      BY <1>5, <2>3 DEF SendAnswered
    <3>2. k.did \/ (Knows(k) /\ Already(k)) <=> TRUE
      BY <2>3 DEF AlreadyInState
    <3>3. j \in PanelCalls /\ CallTrue(j)
      BY <2>1, <3>2 DEF PanelCalls, CallTrue
    <3>4. call' \in [Calls -> PanelCalls] /\ \A d \in Calls : CallTrue(call'[d])
      BY <3>1, <3>3, CallMoves
    <3>5. QED BY <2>1, <3>1, <3>4 DEF ClientInv
  <2>4. CASE ~(Knows(k) /\ ~Already(k)) /\ ~AlreadyInState(k)
    <3>1. Fails(c) /\ UNCHANGED <<account, astray, mail>>
      BY <1>5, <2>4 DEF SendAnswered
    <3>2. QED BY <2>1, <3>1, CallFails DEF ClientInv
  <2>5. QED BY <2>2, <2>3, <2>4
<1>6. ASSUME NEW c \in Calls, SendUnanswered(c) PROVE ClientInv'
  <2> DEFINE k == call[c]
             goesOn == [k EXCEPT !.tries = @ + 1,
                                 !.at = IF k.tries + 1 < Attempts THEN "send" ELSE "error"]
             j == [goesOn EXCEPT !.did = TRUE]
  <2>1. k \in PanelCalls /\ CallTrue(k) /\ k.at = "send" /\ UNCHANGED <<keys, cache>>
    BY <1>0, <1>6 DEF SendUnanswered
  <2>2. goesOn \in PanelCalls /\ CallTrue(goesOn)
    <3>1. PICK at \in {"send", "error"} : goesOn = [k EXCEPT !.tries = @ + 1, !.at = at]
      OBVIOUS
    <3>2. k.tries + 1 \in Nat
      BY <2>1 DEF PanelCalls
    <3>3. goesOn \in PanelCalls
      BY <2>1, <3>1, <3>2 DEF PanelCalls
    <3>4. CallTrue(goesOn)
      BY <2>1, <3>1 DEF PanelCalls, CallTrue
    <3>5. QED BY <3>3, <3>4
  <2>3. j \in PanelCalls /\ CallTrue(j)
    BY <2>2 DEF PanelCalls, CallTrue
  <2>4. \/ CallIs(c, goesOn) /\ UNCHANGED <<account, astray, mail>>
        \/ Takes(c) /\ CallIs(c, j)
    BY <1>6 DEF SendUnanswered
  <2>5. call' \in [Calls -> PanelCalls] /\ \A d \in Calls : CallTrue(call'[d])
    BY <2>2, <2>3, <2>4, CallMoves
  <2>6. astray' = {} /\ \A e \in mail' : e.user \in Accounts
    BY <1>0, <2>1, <2>4, TakesTrue DEF ClientInv
  <2>7. QED BY <2>1, <2>5, <2>6 DEF ClientInv
<1>7. ASSUME NEW c \in Calls, Ends(c) PROVE ClientInv'
  <2> DEFINE k == call[c]
  <2>1. k \in PanelCalls /\ CallTrue(k) /\ k.at \in {"done", "error"} /\ k.for \in Accounts
    BY <1>0, <1>7 DEF Ends, CallTrue
  <2>2. UNCHANGED <<cache, mail, astray>> /\ CallIs(c, Quiet)
    BY <1>7 DEF Ends
  <2>3. Quiet \in PanelCalls /\ CallTrue(Quiet)
    BY DEF Quiet, NoRefs, PanelCalls, Refs, Keys, CallTrue, LeadTo, Ops
  <2>4. call' \in [Calls -> PanelCalls] /\ \A d \in Calls : CallTrue(call'[d])
    BY <2>2, <2>3, CallMoves
  <2>5. k.at = "done" => k.to = k.for
    BY <2>1 DEF CallTrue
  <2>6. \/ keys' = keys
        \/ keys' = [keys EXCEPT ![k.for] = [uuid |-> k.for, id |-> NoKey]]
        \/ keys' = [keys EXCEPT ![k.for] = [uuid |-> NoKey, id |-> k.for]]
    BY <1>7, <2>5 DEF Ends
  <2>7. keys' \in [Accounts -> Refs] /\ \A s \in Accounts : LeadTo(s, keys'[s])
    <3>1. \A refs : refs \in Refs /\ LeadTo(k.for, refs) /\ keys' = [keys EXCEPT ![k.for] = refs]
            => keys' \in [Accounts -> Refs] /\ \A s \in Accounts : LeadTo(s, keys'[s])
      BY <1>0, <2>1 DEF ClientInv
    <3>2. \A refs \in {[uuid |-> k.for, id |-> NoKey], [uuid |-> NoKey, id |-> k.for]} :
            refs \in Refs /\ LeadTo(k.for, refs)
      BY <2>1 DEF LeadTo, Refs, Keys
    <3>3. QED BY <1>0, <2>6, <3>1, <3>2 DEF ClientInv
  <2>8. QED BY <2>2, <2>4, <2>7 DEF ClientInv
<1>8. ASSUME NEW p \in Clients, GetVersion(p) PROVE ClientInv'
  BY <1>8 DEF GetVersion, ClientInv
<1>9. ASSUME NEW p \in Clients, ClientRestart(p) PROVE ClientInv'
  <2>1. /\ cache' = [cache EXCEPT ![p] = [a \in Accounts |-> NoKey]]
        /\ call' = [c \in Calls |-> IF ClientOf[c] = p THEN Quiet ELSE call[c]]
        /\ UNCHANGED <<keys, mail, astray>>
    BY <1>9 DEF ClientRestart
  <2>2. Quiet \in PanelCalls /\ CallTrue(Quiet)
    BY DEF Quiet, NoRefs, PanelCalls, Refs, Keys, CallTrue, LeadTo, Ops
  <2>3. call' \in [Calls -> PanelCalls] /\ \A d \in Calls : CallTrue(call'[d])
    BY <1>0, <2>1, <2>2
  <2>4. cache' \in [Clients -> [Accounts -> Keys]]
    BY <1>0, <2>1 DEF Keys
  <2>5. \A q \in Clients, s \in Accounts : cache'[q][s] \in {s, NoKey}
    BY <1>0, <2>1 DEF ClientInv
  <2>6. QED BY <2>1, <2>3, <2>4, <2>5 DEF ClientInv
<1>10. ASSUME NEW e \in mail, Webhook(e) PROVE ClientInv'
  <2>1. RowOf(e) \subseteq {e.user} /\ e.user \in Accounts
    BY FindsTheRow DEF ClientInv
  <2>2. /\ keys' = [s \in Accounts |->
                      IF s \in RowOf(e) /\ e.from = 3 THEN [keys[s] EXCEPT !.id = e.user] ELSE keys[s]]
        /\ astray' = astray \cup ({<<s, e.user>> : s \in RowOf(e)} \ Straight)
        /\ mail' = mail \ {e} /\ UNCHANGED <<call, cache>>
    BY <1>10 DEF Webhook
  <2>3. keys' \in [Accounts -> Refs] /\ \A s \in Accounts : LeadTo(s, keys'[s])
    BY <2>1, <2>2, <1>0 DEF ClientInv, LeadTo, Refs, Keys
  <2>4. {<<s, e.user>> : s \in RowOf(e)} \subseteq Straight
    BY <2>1 DEF Straight
  <2>5. QED BY <2>2, <2>3, <2>4 DEF ClientInv
<1>11. CASE PanelUpgrade
  BY <1>11 DEF PanelUpgrade, ClientInv
<1>12. QED
  BY <1>1, <1>2, <1>3, <1>4, <1>5, <1>6, <1>7, <1>8, <1>9, <1>10, <1>11
     DEF ClientNext, CallStep

LEMMA ClientUnderstood == ClientInv => PanelUnderstood
<1> SUFFICES ASSUME ClientInv PROVE PanelUnderstood
  OBVIOUS
<1>1. RightUser /\ DoneMeansDone
  BY DEF ClientInv, CallTrue, RightUser, DoneMeansDone
<1>2. OwnStayInReach
  BY FindsItself DEF OwnStayInReach, Accounts
<1>3. QED BY <1>1, <1>2 DEF PanelUnderstood

-----------------------------------------------------------------------------
(* Moving in: what a run that nobody raced has seen is still so, and what  *)
(* it is about to write clashes with nothing.                              *)

RowIds == (Legacy \cup {0}) \X (Imports \cup {"own"})
LegacyRows ==
    [of : Legacy \cup {0}, account : Legacy \cup {0}, by : Imports \cup {"own"},
     short : BOOLEAN, linked : BOOLEAN, term : {"dump", "paid"}]
OldInvoices == [by : Imports, stamped : BOOLEAN, filed : BOOLEAN]
Newcomer == {"none", "imported", "plain", "invited"}
Inviters == {"none", "live", "legacy"}
Dump == Legacy \cup {CHOOSE l \in Tagged : TRUE}

Running == {"subs", "paid", "built"}
ImportRuns ==
    [at : {"idle", "people", "done", "refused", "crashed"} \cup Running,
     person : Newcomer, inviter : Inviters, purse : Int, current : RowIds \cup {NoRow},
     todo : SUBSET Dump, found : SUBSET RowIds, added : SUBSET LegacyRows,
     pays : BOOLEAN, linked : SUBSET RowIds, newTariff : BOOLEAN, raced : BOOLEAN]

ImportsTyped ==
    /\ source \in Sources /\ person \in Newcomer /\ inviter \in Inviters
    /\ oldPurse \in Int /\ earnedLive \in Int /\ carried \in Nat
    /\ subRows \in SUBSET LegacyRows /\ IsFiniteSet(subRows)
    /\ pointer \in RowIds \cup {NoRow} /\ tariff \in BOOLEAN
    /\ history \in SUBSET OldInvoices
    /\ run \in [Imports -> ImportRuns]
    /\ \A r \in Imports : IsFiniteSet(run[r].added)

(* Of a run k of r: what it found and is going to add. *)
AddsNew(r, k, has) ==
    /\ k.at \notin Running => k.added = {} /\ k.found = {} /\ ~k.pays /\ ~k.newTariff
    /\ \A x \in k.added :
         /\ x.by = r /\ x.of \in Legacy \ k.todo /\ ~x.linked
         /\ source = "threexui" => x.of \in has
         /\ ~Keyless(x.of) => x.account = x.of
    /\ \A x, y \in k.added : x.of = y.of => x = y
    /\ source # "jolymmiels" => \A i \in k.found : i[1] # 0
    /\ k.pays => source # "threexui"
    /\ k.person = "none" => k.purse = 0

Looked(k) == k.at \in Running /\ (source = "threexui" => k.added # {})

UpToDate(k) ==
    /\ k.at # "refused"
    /\ Looked(k) => k.person = person /\ k.inviter = inviter /\ k.current = pointer
    /\ \A x \in k.added, y \in subRows :
         x.of = y.of => Keyless(x.of) /\ ~(x.short /\ y.short)
    /\ k.pays => history = {}
    /\ k.newTariff => ~tariff
    /\ k.at = "built" => k.linked \in LinkOne(subRows \cup k.added)

RowsTrue ==
    /\ \A x, y \in subRows : Id(x) = Id(y) => x = y
    /\ \A x, y \in subRows : x.linked /\ y.linked => x = y
    /\ \A x \in subRows : x.of = 0 => x.by = "own" /\ x.account = 0 /\ x.linked
    /\ \A x \in subRows : x.of # 0 =>
         /\ x.by \in Imports /\ run[x.by].at = "done"
         /\ ~Keyless(x.of) => x.account = x.of

RunsTrue ==
    \A r \in Imports :
        /\ AddsNew(r, run[r], panelHas)
        /\ run[r].raced \/ UpToDate(run[r])
        /\ run[r].person # "none" => person # "none"

BooksOpen ==
    /\ person = "none" => oldPurse = 0 /\ earnedLive = 0 /\ carried = 0
    /\ \A p \in history :
         /\ source # "threexui" /\ p.stamped = Stamps
         /\ p.filed => ~p.stamped

ImportsInv == ImportsTyped /\ RowsTrue /\ RunsTrue /\ BooksOpen /\ ImportsAreRepeatable

LEMMA AtMostOne ==
  ASSUME NEW S, IsFiniteSet(S)
  PROVE  Cardinality(S) <= 1 <=> \A x, y \in S : x = y
<1>1. PICK n \in Nat : n = Cardinality(S)
  BY SizeIsNat
<1>2. CASE n <= 1
  <2>1. n = 0 \/ n = 1
    BY <1>2
  <2>2. S = {} \/ \E x : S = {x}
    BY <1>1, <2>1, FS_EmptySet, FS_Singleton
  <2>3. QED BY <1>1, <1>2, <2>2
<1>3. CASE \A x, y \in S : x = y
  <2>1. S = {} \/ \E x : S = {x}
    BY <1>3
  <2>2. n = 0 \/ n = 1
    BY <1>1, <2>1, FS_EmptySet, FS_Singleton
  <2>3. QED BY <1>1, <1>3, <2>2
<1>4. QED BY <1>1, <1>2, <1>3

LEMMA IdleTyped ==
  ASSUME NEW at \in {"idle", "people", "done", "refused", "crashed"}, NEW b \in BOOLEAN, NEW k,
         \/ k = [IdleImport EXCEPT !.at = at]
         \/ k = [IdleImport EXCEPT !.at = at, !.raced = b]
  PROVE  /\ k \in ImportRuns /\ IsFiniteSet(k.added)
         /\ k.at = at /\ k.person = "none" /\ k.purse = 0
         /\ k.added = {} /\ k.found = {} /\ ~k.pays /\ ~k.newTariff
<1>1. IdleImport \in ImportRuns /\ IsFiniteSet(IdleImport.added)
  BY FS_EmptySet DEF IdleImport, ImportRuns, Newcomer, Inviters, Running
<1>2. /\ IdleImport.person = "none" /\ IdleImport.purse = 0
      /\ IdleImport.added = {} /\ IdleImport.found = {}
      /\ ~IdleImport.pays /\ ~IdleImport.newTariff
  BY DEF IdleImport
<1>3. k \in ImportRuns /\ k.at = at
  BY <1>1 DEF ImportRuns
<1>4. QED BY <1>1, <1>2, <1>3 DEF ImportRuns

LEMMA IdleRaced ==
  ASSUME NEW at, NEW b, NEW k, k = [IdleImport EXCEPT !.at = at, !.raced = b]
  PROVE  k.raced = b
  BY DEF IdleImport

LEMMA InitImports == ImportersInit => ImportsInv
<1> SUFFICES ASSUME ImportersInit PROVE ImportsInv
  OBVIOUS
<1>1. IdleImport \in ImportRuns /\ IsFiniteSet(IdleImport.added)
  BY FS_EmptySet DEF IdleImport, ImportRuns, Newcomer, Inviters, Running
<1>2. /\ IdleImport.at = "idle" /\ IdleImport.person = "none" /\ IdleImport.purse = 0
      /\ IdleImport.added = {} /\ IdleImport.found = {}
      /\ ~IdleImport.pays /\ ~IdleImport.newTariff
  BY DEF IdleImport
<1>3. \A r \in Imports : run[r] = IdleImport
  BY DEF ImportersInit
<1>4. ImportsTyped
  BY <1>1, FS_EmptySet DEF ImportersInit, ImportsTyped, Newcomer, Inviters
<1>5. subRows = {} /\ history = {} /\ person = "none" /\ oldPurse = 0 /\ earnedLive = 0 /\ carried = 0
  BY DEF ImportersInit
<1>6. RunsTrue
  BY <1>2, <1>3, <1>5 DEF RunsTrue, AddsNew, UpToDate, Looked, Running
<1>7. ImportsAreRepeatable
  BY <1>2, <1>3, <1>5, ImportersAssumption DEF ImportsAreRepeatable
<1>8. QED BY <1>4, <1>5, <1>6, <1>7 DEF ImportsInv, RowsTrue, BooksOpen

(* A step of one run, which writes nothing here. *)
LEMMA RunMoves ==
  ASSUME ImportsInv, NEW r \in Imports, NEW k \in ImportRuns, IsFiniteSet(k.added),
         run' = [run EXCEPT ![r] = k], UNCHANGED tables, panelHas \subseteq panelHas',
         run[r].at # "done", k.at # "done", k.at = "refused" => k.raced,
         AddsNew(r, k, panelHas'), k.raced \/ UpToDate(k), k.person # "none" => person # "none"
  PROVE  ImportsInv'
<1>0. /\ UNCHANGED <<source, named, person, inviter, oldPurse, earnedLive, carried, subRows,
                     pointer, history, tariff, live>>
      /\ run'[r] = k /\ \A q \in Imports : q # r => run'[q] = run[q]
  BY DEF tables, ImportsInv, ImportsTyped
<1>1. ImportsTyped'
  BY <1>0 DEF ImportsInv, ImportsTyped
<1>2. \A q \in Imports : run[q].at = "done" => run'[q] = run[q]
  BY <1>0
<1>3. \A q \in Imports : run'[q].at = "done" => run'[q] = run[q]
  BY <1>0
<1>4. RowsTrue'
  BY <1>0, <1>2 DEF ImportsInv, RowsTrue, Keyless, Id
<1>5. ASSUME NEW q \in Imports
      PROVE  /\ AddsNew(q, run'[q], panelHas')
             /\ run'[q].raced \/ UpToDate(run'[q])
             /\ run'[q].person # "none" => person # "none"
  BY <1>0 DEF ImportsInv, RunsTrue, AddsNew
<1>6. RunsTrue'
  <2> SUFFICES ASSUME NEW q \in Imports
               PROVE  /\ AddsNew(q, run[q], panelHas)'
                      /\ (run[q].raced \/ UpToDate(run[q]))'
                      /\ (run[q].person # "none" => person # "none")'
    BY DEF RunsTrue
  <2>1. AddsNew(q, run[q], panelHas)'
    BY <1>0, <1>5 DEF AddsNew, Keyless
  <2>2. (run[q].raced \/ UpToDate(run[q]))'
    BY <1>0, <1>5 DEF UpToDate, Looked, Keyless, LinkOne, Planless, Ids, Id
  <2>3. QED BY <1>0, <1>5, <2>1, <2>2
<1>7. BooksOpen'
  BY <1>0 DEF ImportsInv, BooksOpen, Stamps
<1>8. Overlapped' <=> Overlapped
  BY <1>2, <1>3 DEF Overlapped
<1>9. \A q \in Imports : run'[q].at = "refused" => run'[q].raced
  BY <1>0 DEF ImportsInv, ImportsAreRepeatable
<1>10. ImportsAreRepeatable'
  BY <1>0, <1>8, <1>9 DEF ImportsInv, ImportsAreRepeatable, Keyless, Id
<1>11. QED BY <1>1, <1>4, <1>6, <1>7, <1>10 DEF ImportsInv

(* Whoever is under way when another one commits has been raced. *)
LEMMA OthersRaced ==
  ASSUME ImportsInv, NEW q \in Imports, run'[q] = Raced(run)[q],
         source' = source, panelHas' = panelHas, person # "none" => person' # "none"
  PROVE  /\ run'[q] \in ImportRuns /\ IsFiniteSet(run'[q].added)
         /\ run'[q].at = run[q].at /\ (run[q].raced => run'[q].raced)
         /\ AddsNew(q, run[q], panelHas)'
         /\ (run[q].raced \/ UpToDate(run[q]))'
         /\ run'[q].person # "none" => person' # "none"
         /\ run'[q].at = "refused" => run'[q].raced
<1>1. run[q] \in ImportRuns /\ IsFiniteSet(run[q].added)
  BY DEF ImportsInv, ImportsTyped
<1>2. run'[q] = IF UnderWay(q) THEN [run[q] EXCEPT !.raced = TRUE] ELSE run[q]
  BY DEF Raced
<1>3. /\ run'[q] \in ImportRuns /\ run'[q].added = run[q].added
      /\ run'[q].at = run[q].at /\ (run[q].raced => run'[q].raced)
      /\ run'[q].found = run[q].found /\ run'[q].pays = run[q].pays
      /\ run'[q].newTariff = run[q].newTariff /\ run'[q].person = run[q].person
      /\ run'[q].purse = run[q].purse /\ run'[q].todo = run[q].todo
      /\ UnderWay(q) => run'[q].raced
  BY <1>1, <1>2 DEF ImportRuns
<1>4. AddsNew(q, run[q], panelHas)
  BY DEF ImportsInv, RunsTrue
<1>5. AddsNew(q, run[q], panelHas)'
  BY <1>3, <1>4 DEF AddsNew, Keyless
<1>6. run'[q].at = "refused" => run'[q].raced
  BY <1>3 DEF ImportsInv, ImportsAreRepeatable
<1>7. (run[q].raced \/ UpToDate(run[q]))'
  BY <1>3, <1>4, <1>6 DEF UpToDate, Looked, UnderWay, Running, AddsNew
<1>8. QED BY <1>1, <1>3, <1>5, <1>6, <1>7 DEF ImportsInv, RunsTrue

(* A subscription with a key is found when it is there, and nothing but a  *)
(* subscription of the dump is found (jolymmiels, which takes what there   *)
(* is, excepted).                                                          *)
LEMMA FindsKeyed ==
  ASSUME source \in Sources, NEW l \in Legacy, NEW up \in BOOLEAN,
         NEW have \in SUBSET LegacyRows,
         \A x \in have : x.of = 0 => x.account = 0,
         \A x \in have : x.of # 0 /\ ~Keyless(x.of) => x.account = x.of
  PROVE  /\ Finds(l, have, up) \subseteq have
         /\ source # "jolymmiels" => \A x \in Finds(l, have, up) : x.of # 0
         /\ ~Keyless(l) => \A x \in have : x.of = l => x \in Finds(l, have, up)
<1>0. l # 0
  BY ImportersAssumption
<1>1. CASE source \in {"bedolaga", "remnashop", "shopbot", "minishop"}
  <2>1. Finds(l, have, up) = {x \in have : x.account = l}
    BY <1>1 DEF Finds, ByAccount, BedolagaFinds, RemnashopFinds, ShopbotFinds, MinishopFinds
  <2>2. QED BY <1>0, <1>1, <2>1 DEF Keyless
<1>2. CASE source = "solobot"
  <2>1. Finds(l, have, up) = IF l \in Tagged \/ up THEN {x \in have : x.account = l} ELSE {}
    BY <1>2 DEF Finds, ByAccount, SolobotFinds
  <2>2. QED BY <1>0, <1>2, <2>1 DEF Keyless
<1>3. CASE source = "jolymmiels"
  <2>1. Finds(l, have, up) = IF up THEN {x \in have : x.account = l} ELSE have
    BY <1>3 DEF Finds, ByAccount, JolymmielsFinds
  <2>2. QED BY <1>0, <1>3, <2>1 DEF Keyless
<1>4. CASE source = "threexui"
  <2>1. Finds(l, have, up) = {x \in have : x.of = l}
    BY <1>4 DEF Finds, ThreexuiFinds
  <2>2. QED BY <1>0, <1>4, <2>1 DEF Keyless
<1>5. QED BY <1>1, <1>2, <1>3, <1>4 DEF Sources

LEMMA HaveTrue ==
  ASSUME ImportsInv, NEW r \in Imports
  PROVE  /\ subRows \cup run[r].added \in SUBSET LegacyRows
         /\ IsFiniteSet(subRows \cup run[r].added)
         /\ \A x \in subRows \cup run[r].added : x.of = 0 => x.account = 0 /\ x \in subRows
         /\ \A x \in subRows \cup run[r].added : x.of # 0 /\ ~Keyless(x.of) => x.account = x.of
         /\ \A x \in subRows \cup run[r].added : Id(x) \in RowIds
         /\ run[r].at # "done" => \A x, y \in subRows \cup run[r].added : Id(x) = Id(y) => x = y
<1> DEFINE added == run[r].added
<1>1. /\ subRows \in SUBSET LegacyRows /\ IsFiniteSet(subRows)
      /\ added \in SUBSET LegacyRows /\ IsFiniteSet(added)
  BY DEF ImportsInv, ImportsTyped, ImportRuns
<1>2. IsFiniteSet(subRows \cup added)
  BY <1>1, FS_Union
<1>3. /\ \A x \in added : x.by = r /\ x.of \in Legacy /\ (~Keyless(x.of) => x.account = x.of)
      /\ \A x, y \in added : x.of = y.of => x = y
  BY DEF ImportsInv, RunsTrue, AddsNew
<1>4. RowsTrue /\ 0 \notin Legacy /\ "own" \notin Imports
  BY ImportersAssumption DEF ImportsInv
<1>5. \A x \in subRows \cup added : x.of = 0 => x.account = 0 /\ x \in subRows
  BY <1>3, <1>4 DEF RowsTrue
<1>6. \A x \in subRows \cup added : x.of # 0 /\ ~Keyless(x.of) => x.account = x.of
  BY <1>3, <1>4 DEF RowsTrue
<1>7. \A x \in subRows \cup added : Id(x) \in RowIds
  BY <1>1 DEF Id, RowIds, LegacyRows
<1>8. ASSUME run[r].at # "done" PROVE \A x \in subRows, y \in added : Id(x) # Id(y)
  <2> SUFFICES ASSUME NEW x \in subRows, NEW y \in added, x.of = y.of /\ x.by = y.by PROVE FALSE
    BY DEF Id
  <2>1. y.of # 0 /\ y.by = r
    BY <1>3, <1>4
  <2>2. run[x.by].at = "done"
    BY <1>4, <2>1 DEF RowsTrue
  <2>3. QED BY <1>8, <2>1, <2>2
<1>9. run[r].at # "done" => \A x, y \in subRows \cup added : Id(x) = Id(y) => x = y
  BY <1>3, <1>4, <1>8 DEF RowsTrue, Id
<1>10. QED BY <1>1, <1>2, <1>5, <1>6, <1>7, <1>9

LEMMA ReadingSteps ==
  ASSUME ImportsInv, NEW r \in Imports,
         BeginImport(r) \/ ReadPeople(r) \/ CarryPayment(r) \/ RebuildPlans(r) \/ ImportCrashes(r)
  PROVE  ImportsInv'
<1>0. /\ run \in [Imports -> ImportRuns] /\ run[r] \in ImportRuns
      /\ IsFiniteSet(run[r].added)
      /\ AddsNew(r, run[r], panelHas) /\ (run[r].raced \/ UpToDate(run[r]))
      /\ (run[r].person # "none" => person # "none")
      /\ UNCHANGED tables /\ UNCHANGED panelHas
  BY DEF ImportsInv, ImportsTyped, RunsTrue, BeginImport, ReadPeople, CarryPayment,
         RebuildPlans, ImportCrashes
<1>1. CASE BeginImport(r)
  <2>1. PICK at \in {"subs", "people"} : at = IF source = "threexui" THEN "subs" ELSE "people"
    OBVIOUS
  <2> DEFINE k == [run[r] EXCEPT !.at = at, !.todo = Carried]
  <2>2. Carried \in SUBSET Dump
    BY DEF Carried, Dump
  <2>3. k \in ImportRuns
    BY <1>0, <2>2 DEF ImportRuns, Running
  <2>4. /\ run' = [run EXCEPT ![r] = k] /\ run[r].at = "idle"
    BY <1>0, <1>1, <2>1 DEF BeginImport
  <2>5. /\ k.at = at /\ k.added = {} /\ k.found = {} /\ ~k.pays /\ ~k.newTariff
        /\ k.person = run[r].person /\ k.purse = run[r].purse /\ k.raced = run[r].raced
    BY <1>0, <2>4 DEF AddsNew, Running, ImportRuns
  <2>6. AddsNew(r, k, panelHas')
    BY <1>0, <2>5 DEF AddsNew
  <2>7. k.raced \/ UpToDate(k)
    BY <2>1, <2>5 DEF UpToDate, Looked, Running
  <2>8. IsFiniteSet(k.added)
    BY <2>5, FS_EmptySet
  <2> HIDE DEF k
  <2>9. QED BY <1>0, <2>3, <2>4, <2>5, <2>6, <2>7, <2>8, RunMoves
<1>2. CASE ReadPeople(r)
  <2> DEFINE k == [run[r] EXCEPT !.person = person, !.inviter = inviter, !.purse = oldPurse,
                                 !.current = pointer, !.at = "subs"]
  <2>1. k \in ImportRuns
    BY <1>0 DEF ImportRuns, ImportsInv, ImportsTyped, Running
  <2>2. run' = [run EXCEPT ![r] = k] /\ run[r].at = "people"
    BY <1>0, <1>2 DEF ReadPeople, Sees
  <2>3. /\ k.at = "subs" /\ k.added = {} /\ k.found = {} /\ ~k.pays /\ ~k.newTariff
        /\ k.person = person /\ k.inviter = inviter /\ k.current = pointer
        /\ k.purse = oldPurse /\ k.raced = run[r].raced
    BY <1>0, <2>2 DEF AddsNew, Running, ImportRuns
  <2>4. AddsNew(r, k, panelHas')
    BY <1>0, <2>3 DEF AddsNew, ImportsInv, BooksOpen
  <2>5. k.raced \/ UpToDate(k)
    BY <2>3 DEF UpToDate
  <2>6. IsFiniteSet(k.added)
    BY <2>3, FS_EmptySet
  <2> HIDE DEF k
  <2>7. QED BY <1>0, <2>1, <2>2, <2>3, <2>4, <2>5, <2>6, RunMoves
<1>3. CASE CarryPayment(r)
  <2>1. PICK pays \in BOOLEAN : pays <=> (history = {} /\ source # "threexui")
    OBVIOUS
  <2> DEFINE k == [run[r] EXCEPT !.at = "paid", !.pays = (history = {} /\ source # "threexui")]
  <2>2. k \in ImportRuns
    BY <1>0 DEF ImportRuns, Running
  <2>3. run' = [run EXCEPT ![r] = k] /\ run[r].at = "subs"
    BY <1>0, <1>3 DEF CarryPayment
  <2>4. /\ k.at = "paid" /\ (k.pays => history = {} /\ source # "threexui")
        /\ k.added = run[r].added /\ k.found = run[r].found /\ k.todo = run[r].todo
        /\ k.newTariff = run[r].newTariff /\ k.person = run[r].person /\ k.inviter = run[r].inviter
        /\ k.current = run[r].current /\ k.purse = run[r].purse /\ k.raced = run[r].raced
    BY <1>0 DEF ImportRuns
  <2>5. AddsNew(r, k, panelHas')
    BY <1>0, <2>4 DEF AddsNew, Running
  <2>6. k.raced \/ UpToDate(k)
    BY <1>0, <2>3, <2>4 DEF UpToDate, Looked, Running
  <2> HIDE DEF k
  <2>7. QED BY <1>0, <2>2, <2>3, <2>4, <2>5, <2>6, RunMoves
<1>4. CASE RebuildPlans(r)
  <2> DEFINE have == subRows \cup run[r].added
  <2>1. PICK chosen \in LinkOne(have) :
          run' = [run EXCEPT ![r].at = "built", ![r].linked = chosen,
                             ![r].newTariff = ~tariff /\ Planless(have) # {}]
    BY <1>4 DEF RebuildPlans
  <2> DEFINE k == [run[r] EXCEPT !.at = "built", !.linked = chosen,
                                 !.newTariff = ~tariff /\ Planless(have) # {}]
  <2>2. \A x \in have : Id(x) \in RowIds
    BY HaveTrue
  <2>3. chosen \in SUBSET RowIds
    BY <2>2 DEF LinkOne, Ids, Planless
  <2>4. k \in ImportRuns
    BY <1>0, <2>3 DEF ImportRuns, Running
  <2>5. run' = [run EXCEPT ![r] = k] /\ run[r].at = "paid"
    BY <1>0, <1>4, <2>1 DEF RebuildPlans
  <2>6. /\ k.at = "built" /\ k.linked = chosen /\ (k.newTariff => ~tariff)
        /\ k.added = run[r].added /\ k.found = run[r].found /\ k.todo = run[r].todo
        /\ k.pays = run[r].pays /\ k.person = run[r].person /\ k.inviter = run[r].inviter
        /\ k.current = run[r].current /\ k.purse = run[r].purse /\ k.raced = run[r].raced
    BY <1>0 DEF ImportRuns
  <2>7. AddsNew(r, k, panelHas')
    BY <1>0, <2>6 DEF AddsNew, Running
  <2>8. k.raced \/ UpToDate(k)
    BY <1>0, <2>5, <2>6 DEF UpToDate, Looked, Running
  <2> HIDE DEF k
  <2>9. QED BY <1>0, <2>4, <2>5, <2>6, <2>7, <2>8, RunMoves
<1>5. CASE ImportCrashes(r)
  <2> DEFINE k == [IdleImport EXCEPT !.at = "crashed"]
  <2>1. run' = [run EXCEPT ![r] = k] /\ run[r].at # "done"
    BY <1>0, <1>5 DEF ImportCrashes, UnderWay
  <2>2. /\ k \in ImportRuns /\ IsFiniteSet(k.added)
        /\ k.at = "crashed" /\ k.person = "none" /\ k.purse = 0
        /\ k.added = {} /\ k.found = {} /\ ~k.pays /\ ~k.newTariff
    BY IdleTyped
  <2> HIDE DEF k
  <2>3. AddsNew(r, k, panelHas') /\ UpToDate(k)
    BY <2>2 DEF AddsNew, UpToDate, Looked, Running
  <2>4. QED BY <1>0, <2>1, <2>2, <2>3, RunMoves
<1>6. QED BY <1>1, <1>2, <1>3, <1>4, <1>5

LEMMA FindsHere ==
  ASSUME ImportsInv, NEW r \in Imports, NEW l \in Legacy, NEW up \in BOOLEAN
  PROVE  /\ Finds(l, subRows \cup run[r].added, up) \subseteq subRows \cup run[r].added
         /\ source # "jolymmiels" =>
              \A x \in Finds(l, subRows \cup run[r].added, up) : x.of # 0
         /\ ~Keyless(l) =>
              \A x \in subRows : x.of = l => x \in Finds(l, subRows \cup run[r].added, up)
<1> DEFINE have == subRows \cup run[r].added
<1>1. /\ have \in SUBSET LegacyRows
      /\ \A x \in have : x.of = 0 => x.account = 0
      /\ \A x \in have : x.of # 0 /\ ~Keyless(x.of) => x.account = x.of
  BY HaveTrue
<1>2. source \in Sources /\ subRows \subseteq have
  BY DEF ImportsInv, ImportsTyped
<1> HIDE DEF have
<1>3. /\ Finds(l, have, up) \subseteq have
      /\ source # "jolymmiels" => \A x \in Finds(l, have, up) : x.of # 0
      /\ ~Keyless(l) => \A x \in have : x.of = l => x \in Finds(l, have, up)
  BY <1>1, <1>2, FindsKeyed
<1>4. QED BY <1>2, <1>3 DEF have

LEMMA FoundSteps ==
  ASSUME ImportsInv, NEW r \in Imports, NEW l \in Legacy, NEW up \in BOOLEAN,
         NEW x \in Finds(l, subRows \cup run[r].added, up), run[r].at = "subs",
         run' = [run EXCEPT ![r].todo = @ \ {l}, ![r].found = @ \cup {Id(x)}],
         UNCHANGED tables, UNCHANGED panelHas
  PROVE  ImportsInv'
<1> DEFINE k == [run[r] EXCEPT !.todo = @ \ {l}, !.found = @ \cup {Id(x)}]
<1>0. /\ run \in [Imports -> ImportRuns] /\ run[r] \in ImportRuns
      /\ IsFiniteSet(run[r].added) /\ source \in Sources
      /\ AddsNew(r, run[r], panelHas) /\ (run[r].raced \/ UpToDate(run[r]))
      /\ (run[r].person # "none" => person # "none")
  BY DEF ImportsInv, ImportsTyped, RunsTrue
<1>1. x \in subRows \cup run[r].added /\ (source # "jolymmiels" => x.of # 0)
  BY <1>0, FindsHere
<1>2. Id(x) \in RowIds /\ (source # "jolymmiels" => Id(x)[1] # 0)
  BY <1>1, HaveTrue DEF Id
<1>3. k \in ImportRuns
  BY <1>0, <1>2 DEF ImportRuns
<1>4. run' = [run EXCEPT ![r] = k]
  BY <1>0
<1>5. /\ k.at = "subs" /\ k.todo \subseteq run[r].todo /\ k.found = run[r].found \cup {Id(x)}
      /\ k.added = run[r].added /\ k.pays = run[r].pays /\ k.newTariff = run[r].newTariff
      /\ k.person = run[r].person /\ k.inviter = run[r].inviter
      /\ k.current = run[r].current /\ k.purse = run[r].purse /\ k.raced = run[r].raced
  BY <1>0 DEF ImportRuns
<1>6. AddsNew(r, k, panelHas')
  BY <1>0, <1>2, <1>5 DEF AddsNew, Running
<1>7. k.raced \/ UpToDate(k)
  BY <1>0, <1>5 DEF UpToDate, Looked
<1> HIDE DEF k
<1>8. QED BY <1>0, <1>3, <1>4, <1>5, <1>6, <1>7, RunMoves

(* A new row n of r for l, and the run k that is going to add it. *)
NewRow(n, l, r) ==
    /\ n \in LegacyRows /\ n.of = l /\ n.by = r /\ ~n.linked
    /\ ~Keyless(l) => n.account = l /\ \A y \in subRows : y.of # l
    /\ n.short => ~(\E y \in subRows : y.of = l /\ y.short)

Appends(r, k, n, l) ==
    /\ k \in ImportRuns /\ k.at = "subs" /\ k.todo = run[r].todo \ {l}
    /\ k.added = run[r].added \cup {n}
    /\ k.found = run[r].found /\ k.pays = run[r].pays /\ k.newTariff = run[r].newTariff
    /\ k.raced = run[r].raced
    /\ \/ /\ k.person = run[r].person /\ k.inviter = run[r].inviter
          /\ k.current = run[r].current /\ k.purse = run[r].purse
          /\ source = "threexui" => run[r].added # {}
       \/ /\ k.person = person /\ k.inviter = inviter
          /\ k.current = pointer /\ k.purse = oldPurse

LEMMA AddedSteps ==
  ASSUME ImportsInv, NEW r \in Imports, NEW l \in Legacy, l \in run[r].todo, run[r].at = "subs",
         NEW n, NewRow(n, l, r), NEW k, Appends(r, k, n, l), run' = [run EXCEPT ![r] = k],
         UNCHANGED tables, panelHas \subseteq panelHas', source = "threexui" => l \in panelHas'
  PROVE  ImportsInv'
<1> USE DEF NewRow, Appends
<1>0. /\ run \in [Imports -> ImportRuns] /\ run[r] \in ImportRuns
      /\ IsFiniteSet(run[r].added) /\ source \in Sources
      /\ AddsNew(r, run[r], panelHas) /\ (run[r].raced \/ UpToDate(run[r]))
      /\ (run[r].person # "none" => person # "none")
      /\ (person = "none" => oldPurse = 0)
  BY DEF ImportsInv, ImportsTyped, RunsTrue, BooksOpen
<1>1. IsFiniteSet(k.added)
  BY <1>0, FS_AddElement
<1>2. AddsNew(r, k, panelHas')
  <2>1. \A x \in k.added :
          /\ x.by = r /\ x.of \in Legacy \ k.todo /\ ~x.linked
          /\ source = "threexui" => x.of \in panelHas'
          /\ ~Keyless(x.of) => x.account = x.of
    BY <1>0 DEF AddsNew
  <2>2. \A x, y \in k.added : x.of = y.of => x = y
    BY <1>0 DEF AddsNew
  <2>3. /\ source # "jolymmiels" => \A i \in k.found : i[1] # 0
        /\ k.pays => source # "threexui"
        /\ k.person = "none" => k.purse = 0
    BY <1>0 DEF AddsNew
  <2>4. QED BY <2>1, <2>2, <2>3 DEF AddsNew, Running
<1>3. ASSUME ~run[r].raced PROVE UpToDate(k)
  <2>1. UpToDate(run[r])
    BY <1>0, <1>3
  <2>2. Looked(k) => k.person = person /\ k.inviter = inviter /\ k.current = pointer
    BY <2>1 DEF UpToDate, Looked, Running
  <2>3. \A y \in subRows : n.of = y.of => Keyless(n.of) /\ ~(n.short /\ y.short)
    OBVIOUS
  <2>4. \A x \in k.added, y \in subRows : x.of = y.of => Keyless(x.of) /\ ~(x.short /\ y.short)
    BY <2>1, <2>3 DEF UpToDate
  <2>5. QED BY <2>1, <2>2, <2>4 DEF UpToDate
<1>4. k.person # "none" => person # "none"
  BY <1>0
<1>5. QED BY <1>1, <1>2, <1>3, <1>4, RunMoves

LEMMA CarryStep ==
  ASSUME ImportsInv, NEW r \in Imports, NEW l \in Legacy, CarrySub(r, l)
  PROVE  ImportsInv'
<1>0. /\ run \in [Imports -> ImportRuns] /\ run[r] \in ImportRuns
      /\ UNCHANGED tables /\ panelHas' = panelHas /\ panelHas \subseteq panelHas'
      /\ run[r].at = "subs" /\ l \in run[r].todo /\ source # "threexui"
  BY DEF ImportsInv, ImportsTyped, CarrySub
<1>1. PICK up \in BOOLEAN :
        LET have == Finds(l, subRows \cup run[r].added, up)
        IN  \/ \E x \in have :
                 run' = [run EXCEPT ![r].todo = @ \ {l}, ![r].found = @ \cup {Id(x)}]
            \/ /\ have = {}
               /\ run' = [run EXCEPT ![r].todo = @ \ {l},
                     ![r].added = @ \cup {
                           Row(l, IF KnowsAccount(l, up) THEN l ELSE 0, r,
                               ShortIsFree(l), FALSE, "dump")}]
  BY DEF CarrySub
<1>2. CASE \E x \in Finds(l, subRows \cup run[r].added, up) :
             run' = [run EXCEPT ![r].todo = @ \ {l}, ![r].found = @ \cup {Id(x)}]
  BY <1>0, <1>2, FoundSteps
<1> DEFINE n == Row(l, IF KnowsAccount(l, up) THEN l ELSE 0, r, ShortIsFree(l), FALSE, "dump")
           k == [run[r] EXCEPT !.todo = @ \ {l}, !.added = @ \cup {n}]
<1>3. CASE /\ Finds(l, subRows \cup run[r].added, up) = {}
           /\ run' = [run EXCEPT ![r].todo = @ \ {l}, ![r].added = @ \cup {n}]
  <2>1. ~Keyless(l) => KnowsAccount(l, up)
    BY DEF Keyless, KnowsAccount
  <2>2. /\ n \in LegacyRows /\ n.of = l /\ n.by = r /\ ~n.linked
        /\ (~Keyless(l) => n.account = l)
        /\ (n.short => ~(\E y \in subRows : y.of = l /\ y.short))
    BY <2>1 DEF Row, LegacyRows, ShortIsFree
  <2> HIDE DEF n
  <2>3. k \in ImportRuns /\ run' = [run EXCEPT ![r] = k]
    BY <1>0, <1>3, <2>2 DEF ImportRuns
  <2>4. ~Keyless(l) => \A y \in subRows : y.of # l
    BY <1>3, FindsHere
  <2>5. /\ k.at = "subs" /\ k.todo = run[r].todo \ {l} /\ k.added = run[r].added \cup {n}
        /\ k.found = run[r].found /\ k.pays = run[r].pays /\ k.newTariff = run[r].newTariff
        /\ k.person = run[r].person /\ k.inviter = run[r].inviter
        /\ k.current = run[r].current /\ k.purse = run[r].purse /\ k.raced = run[r].raced
    BY <1>0 DEF ImportRuns
  <2> HIDE DEF k
  <2>6. NewRow(n, l, r) /\ Appends(r, k, n, l)
    BY <1>0, <2>2, <2>3, <2>4, <2>5 DEF NewRow, Appends
  <2>7. QED BY <1>0, <2>3, <2>6, AddedSteps
<1>4. QED BY <1>1, <1>2, <1>3

LEMMA ProvisionStep ==
  ASSUME ImportsInv, NEW r \in Imports, NEW l \in Legacy, ProvisionClient(r, l)
  PROVE  ImportsInv'
<1>0. /\ run \in [Imports -> ImportRuns] /\ run[r] \in ImportRuns
      /\ UNCHANGED tables /\ panelHas \subseteq panelHas'
      /\ run[r].at = "subs" /\ l \in run[r].todo /\ source = "threexui"
  BY DEF ImportsInv, ImportsTyped, ProvisionClient
<1> DEFINE have == Finds(l, subRows \cup run[r].added, TRUE)
           n == Row(l, l, r, TRUE, FALSE, "dump")
           looked == IF run[r].added = {} THEN Sees(run, r) ELSE run
<1>1. \/ /\ \E x \in have :
              run' = [run EXCEPT ![r].todo = @ \ {l}, ![r].found = @ \cup {Id(x)}]
         /\ UNCHANGED panelHas
      \/ /\ have = {} /\ panelHas' = panelHas \cup {l}
         /\ run' = [looked EXCEPT ![r].todo = @ \ {l}, ![r].added = @ \cup {n}]
      \/ run' = [run EXCEPT ![r].todo = @ \ {l}]
  BY DEF ProvisionClient
<1>2. CASE /\ \E x \in have :
                run' = [run EXCEPT ![r].todo = @ \ {l}, ![r].found = @ \cup {Id(x)}]
           /\ UNCHANGED panelHas
  BY <1>0, <1>2, FoundSteps
<1>3. CASE /\ have = {} /\ panelHas' = panelHas \cup {l}
           /\ run' = [looked EXCEPT ![r].todo = @ \ {l}, ![r].added = @ \cup {n}]
  <2>1. /\ n \in LegacyRows /\ n.of = l /\ n.by = r /\ ~n.linked /\ n.account = l
    BY DEF Row, LegacyRows
  <2>2. \A y \in subRows : y.of # l
    BY <1>0, <1>3 DEF Finds, ThreexuiFinds
  <2> HIDE DEF n
  <2>3. CASE run[r].added = {}
    <3> DEFINE k == [run[r] EXCEPT !.person = person, !.inviter = inviter, !.purse = oldPurse,
                                   !.current = pointer, !.todo = @ \ {l}, !.added = @ \cup {n}]
    <3>1. k \in ImportRuns
      BY <1>0, <2>1 DEF ImportRuns, ImportsInv, ImportsTyped
    <3>2. run' = [run EXCEPT ![r] = k]
      <4> DEFINE j == [run[r] EXCEPT !.person = person, !.inviter = inviter,
                                     !.purse = oldPurse, !.current = pointer]
      <4>1. looked = [run EXCEPT ![r] = j]
        BY <1>0, <2>3 DEF Sees
      <4>2. run' = [run EXCEPT ![r] = [j EXCEPT !.todo = @ \ {l}, !.added = @ \cup {n}]]
        BY <1>0, <1>3, <4>1
      <4>3. [j EXCEPT !.todo = @ \ {l}, !.added = @ \cup {n}] = k
        BY <1>0 DEF ImportRuns
      <4>4. QED BY <4>2, <4>3
    <3>3. /\ k.at = "subs" /\ k.todo = run[r].todo \ {l} /\ k.added = run[r].added \cup {n}
          /\ k.found = run[r].found /\ k.pays = run[r].pays /\ k.newTariff = run[r].newTariff
          /\ k.person = person /\ k.inviter = inviter
          /\ k.current = pointer /\ k.purse = oldPurse /\ k.raced = run[r].raced
      BY <1>0 DEF ImportRuns
    <3> HIDE DEF k
    <3>4. NewRow(n, l, r) /\ Appends(r, k, n, l)
      BY <2>1, <2>2, <3>1, <3>3 DEF NewRow, Appends
    <3>5. QED BY <1>0, <1>3, <3>2, <3>4, AddedSteps
  <2>4. CASE run[r].added # {}
    <3> DEFINE k == [run[r] EXCEPT !.todo = @ \ {l}, !.added = @ \cup {n}]
    <3>1. k \in ImportRuns /\ run' = [run EXCEPT ![r] = k]
      BY <1>0, <1>3, <2>1, <2>4 DEF ImportRuns
    <3>2. /\ k.at = "subs" /\ k.todo = run[r].todo \ {l} /\ k.added = run[r].added \cup {n}
          /\ k.found = run[r].found /\ k.pays = run[r].pays /\ k.newTariff = run[r].newTariff
          /\ k.person = run[r].person /\ k.inviter = run[r].inviter
          /\ k.current = run[r].current /\ k.purse = run[r].purse /\ k.raced = run[r].raced
      BY <1>0 DEF ImportRuns
    <3> HIDE DEF k
    <3>3. NewRow(n, l, r) /\ Appends(r, k, n, l)
      BY <2>1, <2>2, <2>4, <3>1, <3>2 DEF NewRow, Appends
    <3>4. QED BY <1>0, <1>3, <3>1, <3>3, AddedSteps
  <2>5. QED BY <2>3, <2>4
<1>4. CASE run' = [run EXCEPT ![r].todo = @ \ {l}]
  <2> DEFINE k == [run[r] EXCEPT !.todo = @ \ {l}]
  <2>1. k \in ImportRuns /\ run' = [run EXCEPT ![r] = k]
    BY <1>0, <1>4 DEF ImportRuns
  <2>2. /\ k.at = "subs" /\ k.todo \subseteq run[r].todo /\ k.found = run[r].found
        /\ k.added = run[r].added /\ k.pays = run[r].pays /\ k.newTariff = run[r].newTariff
        /\ k.person = run[r].person /\ k.inviter = run[r].inviter
        /\ k.current = run[r].current /\ k.purse = run[r].purse /\ k.raced = run[r].raced
    BY <1>0 DEF ImportRuns
  <2>3. /\ AddsNew(r, run[r], panelHas) /\ (run[r].raced \/ UpToDate(run[r]))
        /\ (run[r].person # "none" => person # "none") /\ IsFiniteSet(k.added)
    BY <2>2 DEF ImportsInv, RunsTrue, ImportsTyped
  <2>4. AddsNew(r, k, panelHas')
    BY <1>0, <2>2, <2>3 DEF AddsNew, Running
  <2>5. k.raced \/ UpToDate(k)
    BY <2>2, <2>3 DEF UpToDate, Looked
  <2> HIDE DEF k
  <2>6. QED BY <1>0, <2>1, <2>2, <2>3, <2>4, <2>5, RunMoves
<1>5. QED BY <1>1, <1>2, <1>3, <1>4

(* The rows a run is about to leave. *)
RowLeft(r, x) == [x EXCEPT !.linked = @ \/ Id(x) \in run[r].linked,
                        !.term = IF Id(x) \in run[r].found THEN "dump" ELSE @]

LEMMA RowsKept ==
  ASSUME NEW r, NEW x \in LegacyRows
  PROVE  /\ RowLeft(r, x) \in LegacyRows /\ Id(RowLeft(r, x)) = Id(x)
         /\ RowLeft(r, x).of = x.of /\ RowLeft(r, x).by = x.by /\ RowLeft(r, x).account = x.account
         /\ RowLeft(r, x).short = x.short
         /\ RowLeft(r, x).linked <=> (x.linked \/ Id(x) \in run[r].linked)
         /\ RowLeft(r, x).term = IF Id(x) \in run[r].found THEN "dump" ELSE x.term
  BY DEF RowLeft, LegacyRows, Id

LEMMA RowsAfterTrue ==
  ASSUME ImportsInv, NEW r \in Imports
  PROVE  /\ RowsAfter(r) = {RowLeft(r, x) : x \in subRows \cup run[r].added}
         /\ RowsAfter(r) \in SUBSET LegacyRows /\ IsFiniteSet(RowsAfter(r))
         /\ IsFiniteSet({z \in RowsAfter(r) : z.linked})
<1> DEFINE have == subRows \cup run[r].added
           f == [x \in have |-> RowLeft(r, x)]
<1>1. have \in SUBSET LegacyRows /\ IsFiniteSet(have)
  BY HaveTrue
<1>2. RowsAfter(r) = {RowLeft(r, x) : x \in have}
  BY DEF RowsAfter, RowLeft
<1>3. RowsAfter(r) \in SUBSET LegacyRows
  BY <1>1, <1>2, RowsKept
<1>4. f \in Surjection(have, RowsAfter(r))
  BY <1>2 DEF Surjection
<1>5. IsFiniteSet(RowsAfter(r))
  BY <1>1, <1>4, FS_Surjection
<1>6. IsFiniteSet({z \in RowsAfter(r) : z.linked})
  BY <1>5, FS_Subset
<1>7. QED BY <1>2, <1>3, <1>5, <1>6

(* A run nobody raced clashes with nothing. *)
LEMMA NobodyClashes ==
  ASSUME ImportsInv, NEW r \in Imports, run[r].at = "built", ~run[r].raced
  PROVE  Unclashed(r)
<1> DEFINE k == run[r]
           have == subRows \cup k.added
<1>1. UpToDate(k) /\ AddsNew(r, k, panelHas) /\ source \in Sources
  BY DEF ImportsInv, RunsTrue, ImportsTyped
<1>2. Looked(k) => k.person = person /\ k.inviter = inviter
  BY <1>1 DEF UpToDate
<1>3. NewPerson(r) => person = "none"
  BY <1>2 DEF NewPerson, Looked, Running
<1>4. NewInviter(r) => inviter = "none"
  BY <1>2 DEF NewInviter, Looked, Running
<1>5. \A x \in k.added, y \in subRows : x.of = y.of => ~(x.short /\ y.short)
  BY <1>1 DEF UpToDate
<1>6. (k.pays => history = {}) /\ (k.newTariff => ~tariff)
  BY <1>1 DEF UpToDate
<1>7. \A x, y \in RowsAfter(r) : x.linked /\ y.linked => x = y
  <2> SUFFICES ASSUME NEW x \in RowsAfter(r), NEW y \in RowsAfter(r), x.linked /\ y.linked
               PROVE  x = y
    OBVIOUS
  <2>0. \A z \in RowsAfter(r) : \E v \in have : z = RowLeft(r, v)
    BY RowsAfterTrue
  <2>1. PICK v \in have, w \in have : x = RowLeft(r, v) /\ y = RowLeft(r, w)
    BY <2>0
  <2>2. v \in LegacyRows /\ w \in LegacyRows
    BY HaveTrue
  <2>3. (v.linked \/ Id(v) \in k.linked) /\ (w.linked \/ Id(w) \in k.linked)
    BY <2>1, <2>2, RowsKept
  <2>4. k.linked \in LinkOne(have)
    BY <1>1 DEF UpToDate
  <2>5. \A z \in have : z.linked => z \in subRows
    BY <1>1 DEF AddsNew
  <2>6. \A i, j \in have : Id(i) = Id(j) => i = j
    BY HaveTrue
  <2>7. CASE Planless(have) = {} \/ \E z \in have : z.linked
    <3>1. k.linked = {}
      BY <2>4, <2>7 DEF LinkOne
    <3>2. QED BY <2>1, <2>3, <2>5, <3>1 DEF ImportsInv, RowsTrue
  <2>8. CASE ~(Planless(have) = {} \/ \E z \in have : z.linked)
    <3>1. PICK i : k.linked = {i}
      BY <2>4, <2>8 DEF LinkOne
    <3>2. QED BY <2>1, <2>3, <2>6, <2>8, <3>1
  <2>9. QED BY <2>7, <2>8
<1>8. Cardinality({x \in RowsAfter(r) : x.linked}) <= 1
  BY <1>7, AtMostOne, RowsAfterTrue
<1>9. QED BY <1>3, <1>4, <1>5, <1>6, <1>8 DEF Unclashed

LEMMA RefuseStep ==
  ASSUME ImportsInv, NEW r \in Imports, RefuseImport(r)
  PROVE  ImportsInv'
<1> DEFINE k == [IdleImport EXCEPT !.at = "refused", !.raced = run[r].raced]
<1>0. /\ run \in [Imports -> ImportRuns] /\ run[r].raced \in BOOLEAN
      /\ UNCHANGED tables /\ panelHas' = panelHas
      /\ run[r].at = "built" /\ run' = [run EXCEPT ![r] = k]
  BY DEF ImportsInv, ImportsTyped, ImportRuns, RefuseImport
<1>1. run[r].raced
  BY NobodyClashes DEF RefuseImport
<1>2. /\ k \in ImportRuns /\ IsFiniteSet(k.added)
      /\ k.at = "refused" /\ k.person = "none" /\ k.purse = 0
      /\ k.added = {} /\ k.found = {} /\ ~k.pays /\ ~k.newTariff
  BY <1>0, IdleTyped
<1>3. k.raced
  BY <1>1, IdleRaced
<1> HIDE DEF k
<1>4. AddsNew(r, k, panelHas')
  BY <1>2 DEF AddsNew, Running
<1>5. QED BY <1>0, <1>2, <1>3, <1>4, RunMoves

(* The open shop: what it writes races the runs under way. *)
LEMMA AllRaced ==
  ASSUME ImportsInv, run' = Raced(run), source' = source, panelHas' = panelHas,
         person # "none" => person' # "none"
  PROVE  /\ run' \in [Imports -> ImportRuns] /\ \A r \in Imports : IsFiniteSet(run'[r].added)
         /\ \A r \in Imports : run'[r].at = run[r].at /\ (run[r].raced => run'[r].raced)
         /\ RunsTrue' /\ (Overlapped => Overlapped')
         /\ \A r \in Imports : run'[r].at = "refused" => run'[r].raced
<1>1. \A r \in Imports : run'[r] = Raced(run)[r]
  OBVIOUS
<1>2. \A r \in Imports :
         /\ run'[r] \in ImportRuns /\ IsFiniteSet(run'[r].added)
         /\ run'[r].at = run[r].at /\ (run[r].raced => run'[r].raced)
         /\ AddsNew(r, run[r], panelHas)'
         /\ (run[r].raced \/ UpToDate(run[r]))'
         /\ run'[r].person # "none" => person' # "none"
         /\ run'[r].at = "refused" => run'[r].raced
  BY <1>1, OthersRaced
<1>3. run' \in [Imports -> ImportRuns]
  BY <1>2 DEF Raced
<1>4. RunsTrue'
  BY <1>2 DEF RunsTrue
<1>5. Overlapped => Overlapped'
  BY <1>2 DEF Overlapped
<1>6. QED BY <1>2, <1>3, <1>4, <1>5

LEMMA SignUpStep == ASSUME ImportsInv, SignUp PROVE ImportsInv'
<1>0. /\ person = "none" /\ person' \in {"plain", "invited"}
      /\ inviter' = IF person' = "invited" THEN "live" ELSE "none"
      /\ run' = Raced(run)
      /\ UNCHANGED <<source, oldPurse, earnedLive, carried, subRows, pointer,
                     history, tariff, panelHas>>
  BY DEF SignUp
<1>1. /\ run' \in [Imports -> ImportRuns] /\ \A r \in Imports : IsFiniteSet(run'[r].added)
      /\ \A r \in Imports : run'[r].at = run[r].at /\ (run[r].raced => run'[r].raced)
      /\ RunsTrue' /\ (Overlapped => Overlapped')
      /\ \A r \in Imports : run'[r].at = "refused" => run'[r].raced
  BY <1>0, AllRaced
<1>2. ImportsTyped'
  BY <1>0, <1>1 DEF ImportsInv, ImportsTyped, Newcomer, Inviters
<1>3. RowsTrue'
  BY <1>0, <1>1 DEF ImportsInv, RowsTrue, Keyless, Id
<1>4. BooksOpen'
  BY <1>0 DEF ImportsInv, BooksOpen, Stamps
<1>5. ImportsAreRepeatable'
  BY <1>0, <1>1 DEF ImportsInv, ImportsAreRepeatable, Keyless, Id
<1>6. QED BY <1>1, <1>2, <1>3, <1>4, <1>5 DEF ImportsInv

LEMMA TopUpStep == ASSUME ImportsInv, TopUpOrSpend PROVE ImportsInv'
<1>0. PICK d \in {-1, 1} : oldPurse' = oldPurse + d /\ earnedLive' = earnedLive + d
  BY DEF TopUpOrSpend
<1>1. /\ UNCHANGED <<source, named, person, inviter, carried, subRows, pointer,
                     history, tariff, panelHas, run>> /\ person # "none"
  BY DEF TopUpOrSpend
<1>2. ImportsTyped'
  BY <1>0, <1>1 DEF ImportsInv, ImportsTyped
<1>3. RowsTrue' /\ RunsTrue'
  <2>1. RowsTrue'
    BY <1>1 DEF ImportsInv, RowsTrue, Keyless, Id
  <2>2. ASSUME NEW r \in Imports
        PROVE  AddsNew(r, run[r], panelHas)' /\ (run[r].raced \/ UpToDate(run[r]))'
               /\ (run[r].person # "none" => person # "none")'
    <3>1. AddsNew(r, run[r], panelHas) /\ (run[r].raced \/ UpToDate(run[r]))
          /\ (run[r].person # "none" => person # "none")
      BY DEF ImportsInv, RunsTrue
    <3>2. AddsNew(r, run[r], panelHas)'
      BY <1>1, <3>1 DEF AddsNew, Keyless
    <3>3. (run[r].raced \/ UpToDate(run[r]))'
      BY <1>1, <3>1 DEF UpToDate, Looked, Keyless, LinkOne, Planless, Ids, Id
    <3>4. QED BY <1>1, <3>1, <3>2, <3>3
  <2>3. QED BY <2>1, <2>2 DEF RunsTrue
<1>4. BooksOpen'
  BY <1>1 DEF ImportsInv, BooksOpen, Stamps
<1>5. source' # "solobot" => carried' <= 1 /\ oldPurse' = earnedLive' + carried' * LegacySum
  <2>1. carried * LegacySum \in Int
    BY ImportersAssumption DEF ImportsInv, ImportsTyped
  <2> DEFINE m == carried * LegacySum
  <2>2. carried' * LegacySum = m
    BY <1>1
  <2>3. source # "solobot" => carried <= 1 /\ oldPurse = earnedLive + m
    BY DEF ImportsInv, ImportsAreRepeatable
  <2> HIDE DEF m
  <2>4. source # "solobot" => oldPurse' = earnedLive' + m
    BY <1>0, <2>1, <2>3 DEF ImportsInv, ImportsTyped, m
  <2>5. QED BY <1>1, <2>2, <2>3, <2>4
<1>6. ImportsAreRepeatable'
  BY <1>1, <1>5 DEF ImportsInv, ImportsAreRepeatable, Overlapped, Keyless, Id
<1>7. QED BY <1>2, <1>3, <1>4, <1>6 DEF ImportsInv

LEMMA FileStep == ASSUME ImportsInv, FileHistory PROVE ImportsInv'
<1>0. PICK p \in history :
         /\ ~p.stamped
         /\ history' = (history \ {p}) \cup {[p EXCEPT !.filed = TRUE]}
  BY DEF FileHistory
<1>1. UNCHANGED <<source, named, person, inviter, oldPurse, earnedLive, carried,
                  subRows, pointer, tariff, panelHas, run>>
  BY DEF FileHistory
<1>2. p \in OldInvoices
  BY DEF ImportsInv, ImportsTyped
<1>3. /\ [p EXCEPT !.filed = TRUE] \in OldInvoices
      /\ [p EXCEPT !.filed = TRUE].stamped = p.stamped
  BY <1>2 DEF OldInvoices
<1>4. ImportsTyped'
  BY <1>0, <1>1, <1>3 DEF ImportsInv, ImportsTyped
<1>5. RowsTrue'
  BY <1>1 DEF ImportsInv, RowsTrue, Keyless, Id
<1>6. RunsTrue'
  <2> SUFFICES ASSUME NEW r \in Imports
               PROVE  AddsNew(r, run[r], panelHas)' /\ (run[r].raced \/ UpToDate(run[r]))'
                      /\ (run[r].person # "none" => person # "none")'
    BY DEF RunsTrue
  <2>1. AddsNew(r, run[r], panelHas) /\ (run[r].raced \/ UpToDate(run[r]))
        /\ (run[r].person # "none" => person # "none")
    BY DEF ImportsInv, RunsTrue
  <2>2. AddsNew(r, run[r], panelHas)'
    BY <1>1, <2>1 DEF AddsNew, Keyless
  <2>3. run[r].raced \/ ~run[r].pays
    BY <1>0, <2>1 DEF UpToDate
  <2>4. (run[r].raced \/ UpToDate(run[r]))'
    BY <1>1, <2>1, <2>3 DEF UpToDate, Looked, Keyless, LinkOne, Planless, Ids, Id
  <2>5. QED BY <1>1, <2>1, <2>2, <2>4
<1>7. BooksOpen'
  <2>1. \A q \in history' : source # "threexui" /\ q.stamped = Stamps /\ (q.filed => ~q.stamped)
    BY <1>0, <1>3 DEF ImportsInv, BooksOpen
  <2>2. Stamps' = Stamps
    BY <1>1 DEF Stamps
  <2>3. QED BY <1>1, <2>1, <2>2 DEF ImportsInv, BooksOpen
<1>8. \A q \in history' : q.filed => source' \in {"minishop", "solobot", "jolymmiels"}
  <2>1. source \in Sources
    BY DEF ImportsInv, ImportsTyped
  <2>2. \A q \in history' : q.filed => ~Stamps /\ source # "threexui"
    BY <1>0, <1>3 DEF ImportsInv, BooksOpen
  <2>3. ~Stamps => source \notin {"bedolaga", "remnashop", "shopbot"}
    BY DEF Stamps, BedolagaStamps, RemnashopStamps, ShopbotStamps
  <2>4. QED BY <1>1, <2>1, <2>2, <2>3 DEF Sources
<1>9. ImportsAreRepeatable'
  BY <1>1, <1>8 DEF ImportsInv, ImportsAreRepeatable, Overlapped, Keyless, Id
<1>10. QED BY <1>4, <1>5, <1>6, <1>7, <1>9 DEF ImportsInv

LEMMA BuyStep == ASSUME ImportsInv, BuyHere PROVE ImportsInv'
<1> DEFINE mine == {x \in subRows : Id(x) = pointer /\ (x.of = 0 \/ x.account # 0)}
           got == IF mine # {} THEN {[x EXCEPT !.linked = TRUE, !.term = "paid"] : x \in mine}
                     ELSE {Row(0, 0, "own", FALSE, TRUE, "paid")}
<1>0. /\ person # "none" /\ ~\E x \in subRows \ mine : x.linked
      /\ subRows' = (subRows \ mine) \cup got /\ pointer' \in Ids(got)
      /\ run' = Raced(run)
      /\ UNCHANGED <<source, person, inviter, oldPurse, earnedLive, carried,
                     history, tariff, panelHas>>
  BY DEF BuyHere
<1>1. /\ run' \in [Imports -> ImportRuns] /\ \A r \in Imports : IsFiniteSet(run'[r].added)
      /\ \A r \in Imports : run'[r].at = run[r].at /\ (run[r].raced => run'[r].raced)
      /\ RunsTrue' /\ (Overlapped => Overlapped')
      /\ \A r \in Imports : run'[r].at = "refused" => run'[r].raced
  BY <1>0, AllRaced
<1>2. /\ subRows \in SUBSET LegacyRows /\ IsFiniteSet(subRows) /\ RowsTrue
      /\ ImportsAreRepeatable /\ BooksOpen
  BY DEF ImportsInv, ImportsTyped
<1>3. PICK rest, n : /\ rest \in SUBSET subRows /\ n \in LegacyRows /\ n \notin rest
                     /\ subRows' = rest \cup {n} /\ pointer' = Id(n)
                     /\ \A x \in rest : ~x.linked /\ Id(x) # Id(n)
                     /\ n.linked /\ n.term = "paid"
                     /\ \/ n.of = 0 /\ n.by = "own" /\ n.account = 0
                        \/ /\ n.of # 0 /\ \E m \in subRows \ rest : n.of = m.of /\ n.by = m.by /\ n.account = m.account
  <2>1. CASE mine = {}
    <3> DEFINE n == Row(0, 0, "own", FALSE, TRUE, "paid")
    <3>1. /\ n \in LegacyRows /\ n.of = 0 /\ n.by = "own" /\ n.account = 0 /\ n.linked
          /\ n.term = "paid"
      BY DEF Row, LegacyRows
    <3>2. subRows' = subRows \cup {n} /\ pointer' = Id(n)
      BY <1>0, <2>1 DEF Ids
    <3>3. \A x \in subRows : ~x.linked /\ x.of # 0
      BY <1>0, <1>2, <2>1 DEF RowsTrue
    <3>4. \A x \in subRows : Id(x) # Id(n) /\ x # n
      BY <3>1, <3>3 DEF Id
    <3> HIDE DEF n
    <3>5. QED BY <3>1, <3>2, <3>3, <3>4
  <2>2. CASE mine # {}
    <3>1. PICK m \in mine : TRUE
      BY <2>2
    <3>2. m \in subRows /\ m \in LegacyRows /\ Id(m) = pointer
      BY <1>2, <3>1
    <3>3. mine = {m}
      BY <1>2, <3>1, <3>2 DEF RowsTrue
    <3> DEFINE n == [m EXCEPT !.linked = TRUE, !.term = "paid"]
    <3>4. got = {n}
      BY <2>2, <3>3
    <3>5. /\ n \in LegacyRows /\ n.of = m.of /\ n.by = m.by /\ n.account = m.account
          /\ n.linked /\ n.term = "paid" /\ Id(n) = Id(m)
      BY <3>2 DEF LegacyRows, Id
    <3>6. subRows' = (subRows \ {m}) \cup {n} /\ pointer' = Id(n)
      BY <1>0, <3>3, <3>4 DEF Ids
    <3>7. \A x \in subRows \ {m} : ~x.linked /\ Id(x) # Id(n)
      BY <1>0, <1>2, <3>2, <3>3, <3>5 DEF RowsTrue
    <3>8. n \notin subRows \ {m}
      BY <3>7
    <3>9. n.of = 0 => n.by = "own" /\ n.account = 0
      BY <1>2, <3>2, <3>5 DEF RowsTrue
    <3> HIDE DEF n, mine, got
    <3>10. QED BY <3>2, <3>5, <3>6, <3>7, <3>8, <3>9
  <2>3. QED BY <2>1, <2>2
<1> HIDE DEF mine, got
<1>4. \A x \in rest : x.of # 0
  BY <1>2, <1>3 DEF RowsTrue
<1>5. ImportsTyped'
  <2>1. IsFiniteSet(subRows')
    BY <1>2, <1>3, FS_Subset, FS_AddElement
  <2>2. pointer' \in RowIds
    BY <1>3 DEF Id, RowIds, LegacyRows
  <2>3. QED BY <1>0, <1>1, <1>2, <1>3, <2>1, <2>2 DEF ImportsInv, ImportsTyped
<1>6. \A x \in subRows' : x.of # 0 =>
         \E m \in subRows : m.of = x.of /\ m.by = x.by /\ m.account = x.account
  BY <1>3
<1>7. RowsTrue'
  <2>1. \A x, y \in subRows' : Id(x) = Id(y) => x = y
    BY <1>2, <1>3 DEF RowsTrue
  <2>2. \A x, y \in subRows' : x.linked /\ y.linked => x = y
    BY <1>3
  <2>3. \A x \in subRows' : x.of = 0 => x.by = "own" /\ x.account = 0 /\ x.linked
    BY <1>3, <1>4
  <2>4. \A x \in subRows' : x.of # 0 =>
          /\ x.by \in Imports /\ run'[x.by].at = "done"
          /\ ~Keyless(x.of) => x.account = x.of
    BY <1>1, <1>2, <1>6 DEF RowsTrue
  <2>5. QED BY <1>0, <2>1, <2>2, <2>3, <2>4 DEF RowsTrue, Keyless, Id
<1>8. BooksOpen'
  BY <1>0, <1>2 DEF BooksOpen, Stamps
<1>9. ImportsAreRepeatable'
  <2>1. \A x, y \in subRows' : x.of = y.of /\ x # y => Overlapped \/ Keyless(x.of)
    <3>1. \A x, y \in subRows : x.of = y.of /\ x # y => Overlapped \/ Keyless(x.of)
      BY <1>2 DEF ImportsAreRepeatable
    <3>2. \A x \in rest : x.of = n.of => Overlapped \/ Keyless(x.of)
      BY <1>3, <1>4, <3>1
    <3>3. QED BY <1>3, <3>1, <3>2
  <2>2. source = "threexui" => \A x \in subRows' : x.of # 0 => x.of \in panelHas
    BY <1>2, <1>6 DEF ImportsAreRepeatable
  <2>3. \A x \in subRows' : x.of = 0 => x.term = "paid" /\ pointer' = Id(x)
    BY <1>3, <1>4
  <2>4. QED
    BY <1>0, <1>1, <1>2, <2>1, <2>2, <2>3 DEF ImportsAreRepeatable, Keyless, Id
<1>10. QED BY <1>1, <1>5, <1>7, <1>8, <1>9 DEF ImportsInv

(* What a run does to the wallet. *)
LEMMA PurseMoves ==
  ASSUME ImportsInv, NEW r \in Imports
  PROVE  /\ PurseAfter(r) \in Int
         /\ source # "solobot" /\ PurseAfter(r) # run[r].purse
              => run[r].person = "none" /\ source # "threexui" /\ PurseAfter(r) = LegacySum
         /\ source = "threexui" => PurseAfter(r) = run[r].purse
<1>1. run[r].purse \in Int /\ LegacySum \in Int /\ source \in Sources
  BY ImportersAssumption DEF ImportsInv, ImportsTyped, ImportRuns
<1>2. PurseAfter(r) = IF source \in {"bedolaga", "shopbot"}
                      THEN IF run[r].person = "none" THEN LegacySum ELSE run[r].purse
                      ELSE IF source = "solobot"
                      THEN IF run[r].purse >= LegacySum THEN run[r].purse ELSE LegacySum
                      ELSE run[r].purse
  BY <1>1 DEF PurseAfter, BedolagaPurse, ShopbotPurse, SolobotPurse, RemnashopPurse,
              MinishopPurse, Sources
<1>3. QED BY <1>1, <1>2

LEMMA CommitStep == ASSUME ImportsInv, NEW r \in Imports, CommitImport(r) PROVE ImportsInv'
<1> DEFINE k == run[r]
           have == subRows \cup k.added
           j == [IdleImport EXCEPT !.at = "done", !.raced = k.raced]
<1>0. /\ k.at = "built" /\ Unclashed(r) /\ subRows' = RowsAfter(r)
      /\ run' = [Raced(run) EXCEPT ![r] = j]
      /\ UNCHANGED <<source, earnedLive, panelHas>>
  BY DEF CommitImport
<1>1. /\ run \in [Imports -> ImportRuns] /\ k \in ImportRuns /\ k.raced \in BOOLEAN
      /\ AddsNew(r, k, panelHas) /\ (k.raced \/ UpToDate(k)) /\ (k.person # "none" => person # "none")
      /\ RowsTrue /\ ImportsAreRepeatable /\ BooksOpen /\ source \in Sources
      /\ subRows \in SUBSET LegacyRows
  BY DEF ImportsInv, ImportsTyped, RunsTrue, ImportRuns
<1>2. /\ person' = IF NewPerson(r) THEN "imported" ELSE person
      /\ inviter' = IF NewInviter(r) THEN "legacy" ELSE inviter
      /\ NewPerson(r) => person = "none"
      /\ NewInviter(r) => inviter = "none"
      /\ person # "none" => person' # "none"
  BY DEF CommitImport, Unclashed
<1>3. /\ j \in ImportRuns /\ IsFiniteSet(j.added)
      /\ j.at = "done" /\ j.person = "none" /\ j.purse = 0
      /\ j.added = {} /\ j.found = {} /\ ~j.pays /\ ~j.newTariff /\ j.raced = k.raced
  <2>1. /\ j \in ImportRuns /\ IsFiniteSet(j.added)
        /\ j.at = "done" /\ j.person = "none" /\ j.purse = 0
        /\ j.added = {} /\ j.found = {} /\ ~j.pays /\ ~j.newTariff
    BY <1>1, IdleTyped
  <2>2. j.raced = k.raced
    BY IdleRaced
  <2>3. QED BY <2>1, <2>2
<1>4. run'[r] = j /\ \A q \in Imports : q # r => run'[q] = Raced(run)[q]
  BY <1>0 DEF Raced
<1> HIDE DEF j
<1>5. ASSUME NEW q \in Imports
      PROVE  /\ run'[q] \in ImportRuns /\ IsFiniteSet(run'[q].added)
             /\ run[q].at = "done" => run'[q].at = "done" /\ (run[q].raced => run'[q].raced)
             /\ AddsNew(q, run[q], panelHas)'
             /\ (run[q].raced \/ UpToDate(run[q]))'
             /\ run'[q].person # "none" => person' # "none"
             /\ run'[q].at = "refused" => run'[q].raced
  <2>1. CASE q # r
    BY <1>0, <1>2, <1>4, <2>1, OthersRaced
  <2>2. CASE q = r
    <3>1. AddsNew(q, run[q], panelHas)'
      BY <1>3, <1>4, <2>2 DEF AddsNew, Running
    <3>2. (run[q].raced \/ UpToDate(run[q]))'
      BY <1>3, <1>4, <2>2 DEF UpToDate, Looked, Running
    <3>3. QED BY <1>0, <1>3, <1>4, <2>2, <3>1, <3>2
  <2>3. QED BY <2>1, <2>2
<1>6. run' \in [Imports -> ImportRuns] /\ RunsTrue'
  <2>1. RunsTrue'
    BY <1>5 DEF RunsTrue
  <2>2. run' \in [Imports -> ImportRuns]
    BY <1>0, <1>5 DEF Raced
  <2>3. QED BY <2>1, <2>2
<1>7. (Overlapped => Overlapped') /\ (k.raced => Overlapped')
  <2>1. Overlapped => Overlapped'
    BY <1>5 DEF Overlapped
  <2>2. k.raced => Overlapped'
    BY <1>3, <1>4 DEF Overlapped
  <2>3. QED BY <2>1, <2>2
<1>8. \A z \in subRows' : \E x \in have : x \in LegacyRows /\ z = RowLeft(r, x)
  <2>1. \A z \in RowsAfter(r) : \E x \in have : z = RowLeft(r, x)
    BY RowsAfterTrue
  <2>2. \A x \in have : x \in LegacyRows
    BY HaveTrue
  <2>3. QED BY <1>0, <2>1, <2>2
<1>9. \A x \in k.added : x.by = r /\ x.of # 0 /\ (~Keyless(x.of) => x.account = x.of)
  BY <1>1, ImportersAssumption DEF AddsNew
<1>10. RowsTrue'
  <2>1. \A x, y \in have : Id(x) = Id(y) => x = y
    BY <1>0, HaveTrue
  <2>2. \A z, w \in subRows' : Id(z) = Id(w) => z = w
    BY <1>8, <2>1, RowsKept
  <2>3. \A z, w \in subRows' : z.linked /\ w.linked => z = w
    <3>1. Cardinality({x \in RowsAfter(r) : x.linked}) <= 1
      BY <1>0 DEF Unclashed
    <3>2. \A x, y \in {x \in RowsAfter(r) : x.linked} : x = y
      BY <3>1, AtMostOne, RowsAfterTrue
    <3>3. QED BY <1>0, <3>2
  <2>4. \A z \in subRows' : z.of = 0 => z.by = "own" /\ z.account = 0 /\ z.linked
    <3> SUFFICES ASSUME NEW z \in subRows', z.of = 0 PROVE z.by = "own" /\ z.account = 0 /\ z.linked
      OBVIOUS
    <3>1. PICK x \in have : x \in LegacyRows /\ z = RowLeft(r, x)
      BY <1>8
    <3>2. x.of = 0 /\ x \in subRows
      BY <1>9, <3>1, RowsKept
    <3>3. x.by = "own" /\ x.account = 0 /\ x.linked
      BY <1>1, <3>2 DEF RowsTrue
    <3>4. QED BY <3>1, <3>3, RowsKept
  <2>5. \A z \in subRows' : z.of # 0 =>
          /\ z.by \in Imports /\ run'[z.by].at = "done"
          /\ ~Keyless(z.of) => z.account = z.of
    <3> SUFFICES ASSUME NEW z \in subRows', z.of # 0
                 PROVE  /\ z.by \in Imports /\ run'[z.by].at = "done"
                        /\ ~Keyless(z.of) => z.account = z.of
      OBVIOUS
    <3>1. PICK x \in have : x \in LegacyRows /\ z = RowLeft(r, x)
      BY <1>8
    <3>2. z.of = x.of /\ z.by = x.by /\ z.account = x.account
      BY <3>1, RowsKept
    <3>3. CASE x \in k.added
      BY <1>3, <1>4, <1>9, <3>2, <3>3
    <3>4. CASE x \in subRows
      BY <1>1, <1>5, <3>2, <3>4 DEF RowsTrue
    <3>5. QED BY <3>1, <3>3, <3>4
  <2>6. QED BY <1>0, <2>2, <2>3, <2>4, <2>5 DEF RowsTrue, Keyless, Id
<1>11. /\ oldPurse' = IF PurseAfter(r) # k.purse THEN PurseAfter(r) ELSE oldPurse
       /\ carried' = IF PurseAfter(r) # k.purse THEN carried + 1 ELSE carried
       /\ carried \in Nat /\ oldPurse \in Int /\ earnedLive \in Int /\ PurseAfter(r) \in Int
  BY PurseMoves DEF CommitImport, ImportsInv, ImportsTyped
<1>12. ASSUME source # "solobot"
       PROVE  carried' <= 1 /\ oldPurse' = earnedLive' + carried' * LegacySum
  <2>1. CASE PurseAfter(r) # k.purse
    <3>1. k.person = "none" /\ source # "threexui" /\ PurseAfter(r) = LegacySum
      BY <1>12, <2>1, PurseMoves
    <3>2. person = "none"
      BY <1>2, <3>1 DEF NewPerson
    <3>3. oldPurse = 0 /\ earnedLive = 0 /\ carried = 0
      BY <1>1, <3>2 DEF BooksOpen
    <3>4. carried' = 1 /\ oldPurse' = LegacySum /\ earnedLive' = 0 /\ LegacySum \in Nat
      BY <1>0, <1>11, <2>1, <3>1, <3>3, ImportersAssumption
    <3>5. QED BY <3>4
  <2>2. CASE PurseAfter(r) = k.purse
    <3>1. carried' = carried /\ oldPurse' = oldPurse /\ earnedLive' = earnedLive
      BY <1>0, <1>11, <2>2
    <3>2. QED BY <1>1, <1>12, <3>1 DEF ImportsAreRepeatable
  <2>3. QED BY <2>1, <2>2
<1>13. history' = history \cup (IF k.pays THEN {[by |-> r, stamped |-> Stamps, filed |-> FALSE]} ELSE {})
  BY DEF CommitImport
<1>14. pointer' \in RowIds \cup {NoRow}
       /\ \A x \in subRows' : x.of = 0 => pointer' = Id(x) \/ Overlapped'
  <2>1. pointer' \in CurrentAfter(r)
    BY DEF CommitImport
  <2> DEFINE best == Ids(k.added) \cup IF source = "threexui" THEN {} ELSE k.found
  <2>2. (pointer' \in best /\ k.current = NoRow) \/ pointer' = pointer
    BY <2>1 DEF CurrentAfter
  <2>3. best \in SUBSET RowIds
    BY <1>1 DEF Ids, Id, RowIds, ImportRuns, LegacyRows
  <2>4. pointer' \in RowIds \cup {NoRow}
    BY <2>2, <2>3 DEF ImportsInv, ImportsTyped
  <2>5. ASSUME NEW z \in subRows', z.of = 0, ~Overlapped' PROVE pointer' = Id(z)
    <3>1. PICK x \in have : x \in LegacyRows /\ z = RowLeft(r, x)
      BY <1>8
    <3>2. x.of = 0 /\ x \in subRows /\ Id(z) = Id(x)
      BY <1>9, <2>5, <3>1, RowsKept
    <3>3. pointer = Id(x) /\ Id(x) \in RowIds
      BY <1>1, <1>7, <2>5, <3>2, HaveTrue DEF ImportsAreRepeatable
    <3>4. UpToDate(k)
      BY <1>1, <1>7, <2>5
    <3>5. CASE source = "threexui" /\ k.added = {}
      BY <2>2, <3>2, <3>3, <3>5 DEF Ids
    <3>6. CASE ~(source = "threexui" /\ k.added = {})
      <4>1. k.current = pointer
        BY <1>0, <3>4, <3>6 DEF UpToDate, Looked, Running
      <4>2. k.current # NoRow
        BY <3>3, <4>1, ImportersAssumption DEF RowIds
      <4>3. QED BY <2>2, <3>2, <3>3, <4>2
    <3>7. QED BY <3>5, <3>6
  <2>6. QED BY <2>4, <2>5
<1>15. ImportsTyped'
  <2>1. subRows' \in SUBSET LegacyRows /\ IsFiniteSet(subRows')
    BY <1>0, RowsAfterTrue
  <2>2. person' \in Newcomer /\ inviter' \in Inviters
    BY <1>2 DEF ImportsInv, ImportsTyped, Newcomer, Inviters
  <2>3. Stamps \in BOOLEAN
    BY DEF Stamps, BedolagaStamps, RemnashopStamps, ShopbotStamps, MinishopStamps,
           SolobotStamps, JolymmielsStamps
  <2>4. history' \in SUBSET OldInvoices
    <3>1. [by |-> r, stamped |-> Stamps, filed |-> FALSE] \in OldInvoices
      BY <2>3 DEF OldInvoices
    <3>2. QED BY <1>13, <3>1 DEF ImportsInv, ImportsTyped
  <2>5. tariff' \in BOOLEAN
    BY DEF CommitImport
  <2>6. oldPurse' \in Int /\ carried' \in Nat /\ earnedLive' \in Int
    BY <1>0, <1>11
  <2>7. QED
    BY <1>0, <1>1, <1>5, <1>6, <1>14, <2>1, <2>2, <2>4, <2>5, <2>6 DEF ImportsTyped
<1>16. BooksOpen'
  <2>1. \A p \in history' : source # "threexui" /\ p.stamped = Stamps /\ (p.filed => ~p.stamped)
    BY <1>1, <1>13 DEF BooksOpen, AddsNew
  <2>2. Stamps' = Stamps
    BY <1>0 DEF Stamps
  <2>3. ASSUME person' = "none" PROVE oldPurse' = 0 /\ earnedLive' = 0 /\ carried' = 0
    <3>1. person = "none" /\ ~NewPerson(r)
      BY <1>2, <2>3
    <3>2. source = "threexui"
      BY <1>1, <3>1 DEF NewPerson
    <3>3. PurseAfter(r) = k.purse
      BY <3>2, PurseMoves
    <3>4. QED BY <1>0, <1>1, <1>11, <3>1, <3>3 DEF BooksOpen
  <2>4. QED BY <1>0, <2>1, <2>2, <2>3 DEF BooksOpen
<1>17. ImportsAreRepeatable'
  <2>1. \A z, w \in subRows' : z.of = w.of /\ z # w => Overlapped' \/ Keyless(z.of)
    <3> SUFFICES ASSUME NEW z \in subRows', NEW w \in subRows', z.of = w.of, z # w,
                        ~Overlapped', ~Keyless(z.of)
                 PROVE  FALSE
      OBVIOUS
    <3>1. PICK x \in have, y \in have : x \in LegacyRows /\ y \in LegacyRows
                                        /\ z = RowLeft(r, x) /\ w = RowLeft(r, y)
      BY <1>8
    <3>2. x.of = z.of /\ y.of = z.of /\ x # y
      BY <3>1, RowsKept
    <3>3. ~Overlapped /\ UpToDate(k)
      BY <1>1, <1>7
    <3>4. CASE x \in subRows /\ y \in subRows
      BY <1>1, <3>2, <3>3, <3>4 DEF ImportsAreRepeatable
    <3>5. CASE x \in k.added /\ y \in k.added
      BY <1>1, <3>2, <3>5 DEF AddsNew
    <3>6. CASE x \in k.added /\ y \in subRows
      BY <3>2, <3>3, <3>6 DEF UpToDate
    <3>7. CASE y \in k.added /\ x \in subRows
      BY <3>2, <3>3, <3>7 DEF UpToDate
    <3>8. QED BY <3>1, <3>4, <3>5, <3>6, <3>7
  <2>2. ASSUME source = "threexui" PROVE \A z \in subRows' : z.of # 0 => z.of \in panelHas
    <3>1. \A x \in have : x.of # 0 => x.of \in panelHas
      BY <1>1, <2>2 DEF ImportsAreRepeatable, AddsNew
    <3>2. QED BY <1>8, <3>1, RowsKept
  <2>3. ASSUME NEW z \in subRows', z.of = 0 PROVE z.term = "paid" \/ source = "jolymmiels"
    <3>1. PICK x \in have : x \in LegacyRows /\ z = RowLeft(r, x)
      BY <1>8
    <3>2. x.of = 0 /\ x \in subRows
      BY <1>9, <2>3, <3>1, RowsKept
    <3>3. x.term = "paid" \/ source = "jolymmiels"
      BY <1>1, <3>2 DEF ImportsAreRepeatable
    <3>4. source # "jolymmiels" => Id(x) \notin k.found
      BY <1>1, <3>2 DEF AddsNew, Id
    <3>5. QED BY <3>1, <3>3, <3>4, RowsKept
  <2>4. person' = "invited" => inviter' = "live"
    BY <1>1, <1>2 DEF ImportsAreRepeatable
  <2>5. \A p \in history' : p.filed => source \in {"minishop", "solobot", "jolymmiels"}
    BY <1>1, <1>13 DEF ImportsAreRepeatable
  <2>6. \A q \in Imports : run'[q].at = "refused" => run'[q].raced
    BY <1>5
  <2>7. QED
    BY <1>0, <1>12, <1>14, <2>1, <2>2, <2>3, <2>4, <2>5, <2>6
       DEF ImportsAreRepeatable, Keyless, Id
<1>18. QED BY <1>6, <1>10, <1>15, <1>16, <1>17 DEF ImportsInv

LEMMA ImportsStep == ImportsInv /\ [ImportersNext]_importVars => ImportsInv'
<1> SUFFICES ASSUME ImportsInv, [ImportersNext]_importVars PROVE ImportsInv'
  OBVIOUS
<1>1. CASE UNCHANGED importVars
  <2>1. UNCHANGED <<source, named, person, inviter, oldPurse, earnedLive, carried, subRows,
                    pointer, history, tariff, live, panelHas, run>>
    BY <1>1 DEF importVars, tables
  <2>2. ImportsTyped' /\ RowsTrue'
    BY <2>1 DEF ImportsInv, ImportsTyped, RowsTrue, Keyless, Id
  <2>3. ASSUME NEW r \in Imports
        PROVE  AddsNew(r, run[r], panelHas)' /\ (run[r].raced \/ UpToDate(run[r]))'
               /\ (run[r].person # "none" => person # "none")'
    <3>1. AddsNew(r, run[r], panelHas) /\ (run[r].raced \/ UpToDate(run[r]))
          /\ (run[r].person # "none" => person # "none")
      BY DEF ImportsInv, RunsTrue
    <3>2. AddsNew(r, run[r], panelHas)'
      BY <2>1, <3>1 DEF AddsNew, Keyless
    <3>3. (run[r].raced \/ UpToDate(run[r]))'
      BY <2>1, <3>1 DEF UpToDate, Looked, Keyless, LinkOne, Planless, Ids, Id
    <3>4. QED BY <2>1, <3>1, <3>2, <3>3
  <2>4. RunsTrue'
    BY <2>3 DEF RunsTrue
  <2>5. BooksOpen'
    BY <2>1 DEF ImportsInv, BooksOpen, Stamps
  <2>6. ImportsAreRepeatable'
    BY <2>1 DEF ImportsInv, ImportsAreRepeatable, Overlapped, Keyless, Id
  <2>7. QED BY <2>2, <2>4, <2>5, <2>6 DEF ImportsInv
<1>2. ASSUME NEW r \in Imports,
             BeginImport(r) \/ ReadPeople(r) \/ CarryPayment(r) \/ RebuildPlans(r) \/ ImportCrashes(r)
      PROVE  ImportsInv'
  BY <1>2, ReadingSteps
<1>3. ASSUME NEW r \in Imports, CommitImport(r) \/ RefuseImport(r) PROVE ImportsInv'
  BY <1>3, CommitStep, RefuseStep
<1>4. ASSUME NEW r \in Imports, NEW l \in Legacy, CarrySub(r, l) \/ ProvisionClient(r, l)
      PROVE  ImportsInv'
  BY <1>4, CarryStep, ProvisionStep
<1>5. CASE SignUp \/ TopUpOrSpend \/ BuyHere \/ FileHistory
  BY <1>5, SignUpStep, TopUpStep, BuyStep, FileStep
<1>6. QED BY <1>1, <1>2, <1>3, <1>4, <1>5 DEF ImportersNext

-----------------------------------------------------------------------------
(* Pricing: the worth of the time at hand never exceeds what was paid and  *)
(* given for it.  The cheapest period of a plan exists, by induction over  *)
(* the periods it lists; what a rest of another plan becomes is bounded by *)
(* the rounding of its last day; the rest is arithmetic.                   *)

LEMMA RoundHalfEvenBound ==
  ASSUME NEW n \in Nat, NEW m \in Nat \ {0}
  PROVE  RoundHalfEven(n, m) \in Nat /\ 2 * (m * RoundHalfEven(n, m)) <= 2 * n + m
<1> DEFINE q == n \div m
           r == n % m
<1>1. q \in Nat /\ r \in 0 .. m - 1 /\ n = (m * q) + r
  BY Whole
<1>2. RoundHalfEven(n, m) = IF 2 * r < m \/ (2 * r = m /\ q % 2 = 0) THEN q ELSE q + 1
  BY DEF RoundHalfEven
<1> HIDE DEF q, r
<1>3. m * q \in Nat
  BY <1>1
<1>4. m * (q + 1) = m * q + m
  BY <1>1
<1>5. CASE 2 * r < m \/ (2 * r = m /\ q % 2 = 0)
  BY <1>1, <1>2, <1>3, <1>4, <1>5
<1>6. CASE ~(2 * r < m \/ (2 * r = m /\ q % 2 = 0))
  <2>1. 2 * r >= m
    BY <1>1, <1>6
  <2>2. RoundHalfEven(n, m) = q + 1
    BY <1>2, <1>6
  <2>3. QED BY <1>1, <1>3, <1>4, <2>1, <2>2
<1>7. QED BY <1>5, <1>6

(* The cheapest of some periods of a plan. *)
IsCheapest(p, S, c) == c \in S /\ \A e \in S : PriceOf[p][c] * e <= PriceOf[p][e] * c

LEMMA Cheaper ==
  ASSUME NEW a \in Nat, NEW b \in Nat, NEW c \in Nat,
         NEW x \in Nat \ {0}, NEW y \in Nat \ {0}, NEW z \in Nat \ {0},
         a * y <= b * x, b * z <= c * y
  PROVE  a * z <= c * x
<1>1. (a * y) * z <= (b * x) * z /\ (b * z) * x <= (c * y) * x
  BY ProductUp, ProductType
<1>2. (a * y) * z = (a * z) * y /\ (b * x) * z = (b * z) * x /\ (c * y) * x = (c * x) * y
  OBVIOUS
<1>3. a * z \in Nat /\ c * x \in Nat
  BY ProductType
<1>4. (a * z) * y \in Nat /\ (b * z) * x \in Nat /\ (c * x) * y \in Nat
  BY <1>3, ProductType
<1>5. (a * z) * y <= (c * x) * y
  BY <1>1, <1>2, <1>4
<1>6. QED BY <1>3, <1>5, ProductDown

LEMMA PricesAreNumbers ==
  \A p \in Tariffs : \A d \in Listed(p) : PriceOf[p][d] \in Nat /\ d \in Nat \ {0}
  BY PricingAssumption

LEMMA CheapestOfSome ==
  ASSUME NEW p \in Tariffs
  PROVE  \A S \in SUBSET Listed(p) : S # {} => \E c \in S : IsCheapest(p, S, c)
<1> DEFINE L == Listed(p)
           Good == {S \in SUBSET L : S # {} => \E c \in S : IsCheapest(p, S, c)}
<1>1. \A d \in L : PriceOf[p][d] \in Nat /\ d \in Nat \ {0}
  BY PricingAssumption
<1>2. IsFiniteSet(L)
  BY PricingAssumption
<1> HIDE DEF L
<1>3. ASSUME NEW S \in SUBSET L, \A U \in SUBSET S : U # S => U \in Good PROVE S \in Good
  <2> SUFFICES ASSUME S # {} PROVE \E c \in S : IsCheapest(p, S, c)
    OBVIOUS
  <2>1. PICK d \in S : TRUE
    OBVIOUS
  <2>2. S \ {d} \in Good
    BY <1>3, <2>1
  <2>3. d \in Nat \ {0} /\ PriceOf[p][d] \in Nat
    BY <1>1
  <2>4. CASE S \ {d} = {}
    <3>1. S = {d}
      BY <2>4
    <3>2. PriceOf[p][d] * d <= PriceOf[p][d] * d
      BY <2>3
    <3>3. QED BY <3>1, <3>2 DEF IsCheapest
  <2>5. CASE S \ {d} # {}
    <3>1. PICK c \in S \ {d} : IsCheapest(p, S \ {d}, c)
      BY <2>2, <2>5
    <3>2. c \in Nat \ {0} /\ PriceOf[p][c] \in Nat
      BY <1>1
    <3>3. CASE PriceOf[p][c] * d <= PriceOf[p][d] * c
      <4>1. \A e \in S : PriceOf[p][c] * e <= PriceOf[p][e] * c
        BY <3>1, <3>3 DEF IsCheapest
      <4>2. QED BY <4>1 DEF IsCheapest
    <3>4. CASE ~(PriceOf[p][c] * d <= PriceOf[p][d] * c)
      <4>1. PriceOf[p][d] * c <= PriceOf[p][c] * d
        <5>1. PriceOf[p][c] * d \in Nat /\ PriceOf[p][d] * c \in Nat
          BY <2>3, <3>2, ProductType
        <5>2. QED BY <3>4, <5>1
      <4>2. ASSUME NEW e \in S PROVE PriceOf[p][d] * e <= PriceOf[p][e] * d
        <5>1. e \in Nat \ {0} /\ PriceOf[p][e] \in Nat
          BY <1>1
        <5>2. CASE e = d
          BY <2>3, <5>2
        <5>3. CASE e # d
          <6>1. PriceOf[p][c] * e <= PriceOf[p][e] * c
            BY <3>1, <5>3 DEF IsCheapest
          <6>2. QED BY <2>3, <3>2, <4>1, <5>1, <6>1, Cheaper
        <5>4. QED BY <5>2, <5>3
      <4>3. QED BY <4>2 DEF IsCheapest
    <3>5. QED BY <3>3, <3>4
  <2>6. QED BY <2>4, <2>5
<1> HIDE DEF Good
<1>4. SUBSET L \subseteq Good
  BY <1>2, <1>3, SubsetInduction
<1>5. QED BY <1>4 DEF Good, L

LEMMA CheapestIs ==
  ASSUME NEW p \in Tariffs, NEW d \in Listed(p)
  PROVE  /\ Cheapest(p) \in Listed(p) /\ Cheapest(p) \in Nat \ {0}
         /\ PriceOf[p][Cheapest(p)] \in Nat
         /\ PriceOf[p][Cheapest(p)] * d <= PriceOf[p][d] * Cheapest(p)
<1>1. \E c \in Listed(p) : \A e \in Listed(p) : PriceOf[p][c] * e <= PriceOf[p][e] * c
  BY CheapestOfSome DEF IsCheapest
<1>2. /\ Cheapest(p) \in Listed(p)
      /\ \A e \in Listed(p) : PriceOf[p][Cheapest(p)] * e <= PriceOf[p][e] * Cheapest(p)
  BY <1>1 DEF Cheapest
<1>3. QED BY <1>2, PricesAreNumbers

(* The scale is a whole number of half days at every listed price. *)
LEMMA ScaleIs ==
  ASSUME NEW p \in Tariffs, NEW d \in Listed(p)
  PROVE  \E h \in Nat : /\ Scale \div (TicksPerDay * d) = 2 * h
                        /\ Scale = (2 * h) * (2 * d)
<1> DEFINE f == 4 * d
           h == Scale \div f
<1>1. d \in Nat \ {0} /\ Scale \in Nat /\ Scale % (2 * TicksPerDay * d) = 0
  BY PricingAssumption
<1>2. 2 * TicksPerDay * d = 4 * d
  BY <1>1 DEF TicksPerDay
<1>3. f \in Nat \ {0}
  BY <1>1
<1>4. h \in Nat /\ Scale = (f * h) + (Scale % f)
  BY <1>1, <1>3, Whole
<1>5. Scale % f = 0
  BY <1>1, <1>2
<1> HIDE DEF h
<1>6. Scale = (2 * d) * (2 * h)
  BY <1>1, <1>4, <1>5
<1>7. 2 * d \in Nat \ {0} /\ 2 * h \in Nat
  BY <1>1, <1>4
<1>8. Scale \div (2 * d) = 2 * h
  BY <1>6, <1>7, Quotient
<1>9. Scale = (2 * h) * (2 * d)
  BY <1>1, <1>4, <1>6
<1>10. QED BY <1>4, <1>8, <1>9 DEF TicksPerDay

(* The worth of n ticks is n times that of one, a whole number of halves   *)
(* of which make a day.                                                    *)
LEMMA WorthIs ==
  ASSUME NEW p \in Tariffs, Rated(p)
  PROVE  \E h \in Nat :
           /\ Cheapest(p) \in Listed(p)
           /\ Scale = (2 * h) * (2 * Cheapest(p))
           /\ \A n \in Nat : WorthOf(p, n) = n * PriceOf[p][Cheapest(p)] * (2 * h)
<1>1. PICK d \in Listed(p) : TRUE
  BY DEF Rated
<1>2. Cheapest(p) \in Listed(p)
  BY CheapestIs
<1>3. PICK h \in Nat : /\ Scale \div (TicksPerDay * Cheapest(p)) = 2 * h
                       /\ Scale = (2 * h) * (2 * Cheapest(p))
  BY <1>2, ScaleIs
<1>4. p # NoTariff
  BY PricingAssumption
<1>5. \A n \in Nat : WorthOf(p, n) = n * PriceOf[p][Cheapest(p)] * (2 * h)
  BY <1>3, <1>4 DEF WorthOf
<1>6. QED BY <1>2, <1>3, <1>5

LEMMA WorthOfNothing ==
  ASSUME NEW p, p = NoTariff \/ ~Rated(p)
  PROVE  \A n : WorthOf(p, n) = 0
  BY DEF WorthOf

(* Worth adds up. *)
LEMMA WorthAdds ==
  ASSUME NEW p \in Tariffs \cup {NoTariff}, NEW n \in Nat, NEW m \in Nat
  PROVE  /\ WorthOf(p, n) \in Nat
         /\ WorthOf(p, n + m) = WorthOf(p, n) + WorthOf(p, m)
<1>1. CASE p = NoTariff \/ ~Rated(p)
  BY <1>1, WorthOfNothing
<1>2. CASE p \in Tariffs /\ Rated(p)
  <2>1. PICK h \in Nat :
           /\ Cheapest(p) \in Listed(p)
           /\ \A k \in Nat : WorthOf(p, k) = k * PriceOf[p][Cheapest(p)] * (2 * h)
    BY <1>2, WorthIs
  <2> DEFINE a == PriceOf[p][Cheapest(p)]
  <2>2. a \in Nat
    BY <1>2, <2>1, CheapestIs
  <2>3. n + m \in Nat
    OBVIOUS
  <2>4. /\ WorthOf(p, n) = n * a * (2 * h) /\ WorthOf(p, m) = m * a * (2 * h)
        /\ WorthOf(p, n + m) = (n + m) * a * (2 * h)
    BY <2>1, <2>3
  <2> HIDE DEF a
  <2>5. n * a * (2 * h) \in Nat
    BY <2>2, ProductType
  <2>6. (n + m) * a * (2 * h) = n * a * (2 * h) + m * a * (2 * h)
    BY <2>2
  <2>7. QED BY <2>4, <2>5, <2>6
<1>3. QED BY <1>1, <1>2

(* A listed period costs no less than its days are worth. *)
LEMMA ListedIsWorth ==
  ASSUME NEW p \in Tariffs, NEW d \in Listed(p)
  PROVE  WorthOf(p, TicksPerDay * d) <= Scale * PriceOf[p][d]
<1> DEFINE c == Cheapest(p)
           a == PriceOf[p][c]
           b == PriceOf[p][d]
<1>1. b \in Nat /\ d \in Nat \ {0} /\ Scale \in Nat
  BY PricingAssumption
<1>2. CASE ~Rated(p)
  <2>1. WorthOf(p, TicksPerDay * d) = 0
    BY <1>2, WorthOfNothing
  <2>2. Scale * b \in Nat
    BY <1>1, ProductType
  <2>3. QED BY <2>1, <2>2
<1>3. CASE Rated(p)
  <2>1. PICK h \in Nat : /\ Scale = (2 * h) * (2 * c)
                         /\ \A n \in Nat : WorthOf(p, n) = n * a * (2 * h)
    BY <1>3, WorthIs
  <2>2. c \in Nat \ {0} /\ a \in Nat /\ a * d <= b * c
    BY CheapestIs
  <2>3. TicksPerDay * d \in Nat /\ TicksPerDay * d = 2 * d
    BY <1>1 DEF TicksPerDay
  <2>4. WorthOf(p, TicksPerDay * d) = (2 * d) * a * (2 * h)
    BY <2>1, <2>3
  <2> HIDE DEF a, b, c
  <2>5. (a * d) * (4 * h) <= (b * c) * (4 * h)
    <3>1. a * d \in Nat /\ b * c \in Nat /\ 4 * h \in Nat
      BY <1>1, <2>2, ProductType
    <3>2. QED BY <2>2, <3>1, ProductUp
  <2>6. (2 * d) * a * (2 * h) = (a * d) * (4 * h)
    BY <1>1, <2>2
  <2>7. Scale * b = (b * c) * (4 * h)
    <3>1. ((2 * h) * (2 * c)) * b = (b * c) * (4 * h)
      BY <1>1, <2>2
    <3>2. QED BY <2>1, <3>1
  <2>8. Scale * PriceOf[p][d] = (b * c) * (4 * h)
    BY <2>7 DEF b
  <2>9. QED BY <2>4, <2>5, <2>6, <2>8
<1>4. QED BY <1>2, <1>3

(* What the rest of a paid plan becomes is worth no more than the rest, but *)
(* for half a day of rounding.                                              *)
LEMMA BonusIsWorth ==
  ASSUME NEW p \in Tariffs, NEW n \in Nat, NEW q \in Tariffs, NEW d \in Listed(q), Rated(p)
  PROVE  WorthOf(q, TicksPerDay * ChangeBonus(p, n, q, d))
             <= WorthOf(p, n) + (WorthOf(q, TicksPerDay) \div 2)
<1> DEFINE e == Cheapest(q)
           aq == PriceOf[q][e]
           bq == PriceOf[q][d]
           c == Cheapest(p)
           a == PriceOf[p][c]
           b == ChangeBonus(p, n, q, d)
           x == n * a * d
           m == 2 * c * bq
<1>1. e \in Nat \ {0} /\ aq \in Nat /\ aq * d <= bq * e /\ bq \in Nat /\ d \in Nat \ {0}
  BY CheapestIs, PricesAreNumbers
<1>2. c \in Nat \ {0} /\ a \in Nat
  BY CheapestIs DEF Rated
<1>3. WorthOf(p, n) \in Nat
  BY WorthAdds
<1>4. WorthOf(q, TicksPerDay) \in Nat
  BY WorthAdds DEF TicksPerDay
<1>5. WorthOf(q, TicksPerDay) \div 2 \in Nat
  BY <1>4
<1>6. CASE ~Rated(q)
  BY <1>3, <1>5, <1>6, WorthOfNothing
<1>7. CASE Rated(q) /\ n = 0
  <2>1. b = 0
    BY <1>7 DEF ChangeBonus
  <2>2. TicksPerDay * b = 0
    BY <2>1 DEF TicksPerDay
  <2>3. WorthOf(q, 0 + 0) = WorthOf(q, 0) + WorthOf(q, 0) /\ WorthOf(q, 0) \in Nat
    BY WorthAdds
  <2>4. WorthOf(q, TicksPerDay * b) = 0
    <3> HIDE DEF b
    <3>1. QED BY <2>2, <2>3
  <2>5. QED BY <1>3, <1>5, <2>4
<1>8. CASE Rated(q) /\ n # 0
  <2>1. aq # 0
    BY <1>1, <1>8 DEF Rated
  <2>2. bq # 0
    <3>1. aq * d \in Nat \ {0}
      BY <1>1, <2>1
    <3>2. ASSUME bq = 0 PROVE bq * e = 0
      BY <1>1, <3>2
    <3>3. bq * e \in Nat
      BY <1>1, ProductType
    <3>4. QED BY <1>1, <3>1, <3>2, <3>3
  <2>3. b = RoundHalfEven(n * a * d, TicksPerDay * c * bq)
    BY <1>8, <2>2 DEF ChangeBonus
  <2>4. b = RoundHalfEven(x, m)
    <3> HIDE DEF b
    <3>1. QED BY <2>3 DEF TicksPerDay
  <2>5. x \in Nat /\ m \in Nat \ {0}
    BY <1>1, <1>2, <2>2, ProductType
  <2> HIDE DEF b, x, m
  <2>6. b \in Nat /\ 2 * (m * b) <= 2 * x + m
    BY <2>4, <2>5, RoundHalfEvenBound
  <2>7. PICK h \in Nat : /\ Scale = (2 * h) * (2 * e)
                         /\ \A k \in Nat : WorthOf(q, k) = k * aq * (2 * h)
    BY <1>8, WorthIs
  <2>8. PICK g \in Nat : /\ Scale = (2 * g) * (2 * c)
                         /\ \A k \in Nat : WorthOf(p, k) = k * a * (2 * g)
    BY WorthIs
  <2> DEFINE y == 2 * (aq * h)
             w == n * a * (2 * g)
  <2>9. WorthOf(p, n) = w
    BY <2>8
  <2>10. WorthOf(q, TicksPerDay) = 2 * y /\ WorthOf(q, TicksPerDay) \div 2 = y
    <3>1. WorthOf(q, TicksPerDay) = 2 * aq * (2 * h)
      BY <2>7 DEF TicksPerDay
    <3>2. 2 * aq * (2 * h) = 2 * y
      BY <1>1
    <3>3. y \in Nat
      BY <1>1, ProductType
    <3> HIDE DEF y
    <3>4. QED BY <3>1, <3>2, <3>3
  <2>11. WorthOf(q, TicksPerDay * b) = (2 * b) * y
    <3>1. TicksPerDay * b \in Nat /\ TicksPerDay * b = 2 * b
      BY <2>6 DEF TicksPerDay
    <3>2. WorthOf(q, TicksPerDay * b) = (2 * b) * aq * (2 * h)
      BY <2>7, <3>1
    <3>3. (2 * b) * aq * (2 * h) = (2 * b) * y
      BY <1>1, <2>6
    <3>4. QED BY <3>2, <3>3
  <2>12. y \in Nat /\ w \in Nat
    BY <1>1, <1>2, ProductType
  <2>13. (2 * x) * y <= w * m
    <3>1. (2 * x) * y = (aq * d) * (4 * n * a * h)
      BY <1>1, <1>2 DEF x
    <3>2. w * m = (bq * e) * (4 * n * a * h)
      <4> DEFINE z == n * a * bq
      <4>1. w * m = z * ((2 * g) * (2 * c))
        BY <1>1, <1>2 DEF m
      <4>2. (bq * e) * (4 * n * a * h) = z * ((2 * h) * (2 * e))
        BY <1>1, <1>2
      <4> HIDE DEF w, z
      <4>3. QED BY <2>7, <2>8, <4>1, <4>2
    <3>3. aq * d \in Nat /\ bq * e \in Nat /\ 4 * n * a * h \in Nat
      BY <1>1, <1>2, ProductType
    <3>4. (aq * d) * (4 * n * a * h) <= (bq * e) * (4 * n * a * h)
      BY <1>1, <3>3, ProductUp
    <3> HIDE DEF w, y
    <3>5. QED BY <3>1, <3>2, <3>4
  <2> HIDE DEF w, y
  <2>14. ((2 * b) * y) * m <= (w + y) * m
    <3>1. m * b \in Nat
      BY <2>5, <2>6, ProductType
    <3>2. (2 * (m * b)) * y <= (2 * x + m) * y
      BY <2>5, <2>6, <2>12, <3>1, ProductUp
    <3>3. (2 * (m * b)) * y = ((2 * b) * y) * m /\ (2 * x + m) * y = (2 * x) * y + y * m
      BY <2>5, <2>6, <2>12
    <3>4. (w + y) * m = w * m + y * m
      BY <2>5, <2>12
    <3>5. /\ (2 * x) * y \in Nat /\ y * m \in Nat /\ w * m \in Nat
          /\ ((2 * b) * y) * m \in Nat
      BY <2>5, <2>6, <2>12, ProductType
    <3>6. QED BY <2>13, <3>2, <3>3, <3>4, <3>5
  <2>15. (2 * b) * y \in Nat /\ w + y \in Nat
    BY <2>6, <2>12, ProductType
  <2>16. (2 * b) * y <= w + y
    BY <2>5, <2>14, <2>15, ProductDown
  <2>17. QED
    <3>1. WorthOf(q, TicksPerDay * b) <= WorthOf(p, n) + (WorthOf(q, TicksPerDay) \div 2)
      BY <2>9, <2>10, <2>11, <2>16
    <3>2. QED BY <3>1 DEF b
<1>9. QED BY <1>6, <1>7, <1>8

-----------------------------------------------------------------------------
PricingTypes ==
    /\ held \in Tariffs \cup {NoTariff} /\ trialing \in BOOLEAN
    /\ ticks \in Nat /\ worthLeft \in Int
    /\ DOMAIN quotes = Quotes
    /\ \A o \in Quotes :
         quotes[o] # NoQuote => quotes[o].plan \in Tariffs /\ quotes[o].days \in Listed(quotes[o].plan)

PricingInv == PricingTypes /\ NothingFromNothing

LEMMA InitPricing == PricingInit => PricingInv
<1> SUFFICES ASSUME PricingInit PROVE PricingInv
  OBVIOUS
<1>1. PricingTypes
  <2>1. DOMAIN quotes = Quotes /\ \A o \in Quotes : quotes[o] = NoQuote
    BY DEF PricingInit
  <2>2. held \in Tariffs \cup {NoTariff} /\ trialing \in BOOLEAN /\ ticks \in Nat /\ worthLeft \in Int
    <3>1. trialing \in BOOLEAN
      BY Zenon DEF PricingInit
    <3>2. ticks \in Nat /\ worthLeft \in Int /\ held \in Tariffs \cup {NoTariff}
      BY SMT DEF PricingInit
    <3>3. QED BY <3>1, <3>2
  <2>3. \A o \in Quotes : quotes[o] # NoQuote =>
            quotes[o].plan \in Tariffs /\ quotes[o].days \in Listed(quotes[o].plan)
    BY <2>1
  <2>4. DOMAIN quotes = Quotes
    BY DEF PricingInit
  <2>5. QED BY <2>2, <2>3, <2>4 DEF PricingTypes
<1>2. NothingFromNothing
  BY WorthOfNothing DEF PricingInit, NothingFromNothing
<1>3. QED BY <1>1, <1>2 DEF PricingInv

(* Bonus days are days. *)
LEMMA RoundedDays == ASSUME NEW n \in Nat PROVE RoundHalfEven(n, TicksPerDay) \in Nat
  BY RoundHalfEvenBound DEF TicksPerDay

LEMMA ChangeBonusType ==
  ASSUME NEW p \in Tariffs, NEW n \in Nat, NEW q \in Tariffs, NEW d \in Listed(q)
  PROVE  ChangeBonus(p, n, q, d) \in Nat
<1> DEFINE c == Cheapest(p)
           a == PriceOf[p][c]
           bq == PriceOf[q][d]
<1>1. d \in Nat \ {0} /\ bq \in Nat
  BY PricesAreNumbers
<1>2. CASE n # 0 /\ Rated(p) /\ bq # 0
  <2>1. c \in Nat \ {0} /\ a \in Nat
    BY <1>2, CheapestIs DEF Rated
  <2>2. ChangeBonus(p, n, q, d) = RoundHalfEven(n * a * d, TicksPerDay * c * bq)
    BY <1>2 DEF ChangeBonus
  <2> HIDE DEF a, bq, c
  <2>3. n * a * d \in Nat
    BY <1>1, <2>1, ProductType
  <2>4. TicksPerDay * c * bq \in Nat \ {0}
    BY <1>1, <1>2, <2>1 DEF TicksPerDay
  <2>5. QED BY <2>2, <2>3, <2>4, RoundHalfEvenBound
<1>3. CASE ~(n # 0 /\ Rated(p) /\ bq # 0)
  BY <1>3, RoundedDays DEF ChangeBonus
<1>4. QED BY <1>2, <1>3

LEMMA BonusNowType ==
  ASSUME PricingTypes, NEW o \in Quotes, quotes[o] # NoQuote
  PROVE  BonusNow(o) \in Nat
<1>1. /\ quotes[o].plan \in Tariffs /\ quotes[o].days \in Listed(quotes[o].plan)
      /\ ticks \in Nat /\ held \in Tariffs \cup {NoTariff}
  BY DEF PricingTypes
<1>2. Prorated(quotes[o].plan, quotes[o].days) \in Nat
  BY <1>1, ChangeBonusType DEF Prorated
<1>3. CeilDays(ticks) \in Nat
  BY <1>1 DEF CeilDays, TicksPerDay
<1>4. QED BY <1>2, <1>3 DEF BonusNow

LEMMA ChangePlanKeepsWorth ==
  ASSUME PricingInv, NEW o \in Quotes, ChangePlan(o) PROVE PricingInv'
<1> DEFINE p == quotes[o].plan
           d == quotes[o].days
           b == BonusNow(o)
           unpaid == IF trialing \/ ~Rated(held) THEN WorthOf(p, TicksPerDay * b) ELSE 0
           half == WorthOf(p, TicksPerDay) \div 2
<1>1. /\ p \in Tariffs /\ d \in Listed(p) /\ ticks \in Nat /\ worthLeft \in Int
      /\ held \in Tariffs /\ quotes[o] # NoQuote
  BY DEF PricingInv, PricingTypes, ChangePlan, Fulfilled
<1>2. b \in Nat
  BY <1>1, BonusNowType DEF PricingInv
<1>3. d \in Nat \ {0} /\ Scale * PriceOf[p][d] \in Nat
  <2>1. d \in Nat \ {0} /\ PriceOf[p][d] \in Nat
    BY <1>1, PricesAreNumbers
  <2>2. Scale \in Nat
    BY PricingAssumption
  <2>3. QED BY <2>1, <2>2, ProductType
<1>4. /\ held' = p /\ trialing' = FALSE /\ ticks' = TicksPerDay * (d + b)
      /\ worthLeft' = worthLeft + Scale * PriceOf[p][d] + unpaid + half
      /\ quotes' = [quotes EXCEPT ![o] = NoQuote]
  BY DEF ChangePlan, Fulfilled, ListWorth
<1>5. half \in Nat
  <2>1. WorthOf(p, TicksPerDay) \in Nat
    BY <1>1, WorthAdds DEF TicksPerDay
  <2>2. QED BY <2>1
<1>6. WorthOf(p, TicksPerDay * b) \in Nat /\ WorthOf(p, TicksPerDay * d) \in Nat
  <2> HIDE DEF b
  <2>1. TicksPerDay * b \in Nat /\ TicksPerDay * d \in Nat
    BY <1>2, <1>3 DEF TicksPerDay
  <2>2. QED BY <1>1, <2>1, WorthAdds
<1>7. WorthOf(p, ticks') = WorthOf(p, TicksPerDay * d) + WorthOf(p, TicksPerDay * b)
  <2> HIDE DEF b
  <2>1. TicksPerDay * b \in Nat /\ TicksPerDay * d \in Nat
        /\ TicksPerDay * (d + b) = TicksPerDay * d + TicksPerDay * b
    BY <1>2, <1>3 DEF TicksPerDay
  <2>2. WorthOf(p, (TicksPerDay * d) + (TicksPerDay * b))
            = WorthOf(p, TicksPerDay * d) + WorthOf(p, TicksPerDay * b)
    BY <1>1, <2>1, WorthAdds
  <2>3. ticks' = (TicksPerDay * d) + (TicksPerDay * b)
    BY <1>4, <2>1
  <2>4. QED BY <2>2, <2>3
<1>8. WorthOf(p, TicksPerDay * d) <= Scale * PriceOf[p][d]
  BY <1>1, ListedIsWorth
<1>9. WorthOf(held, ticks) \in Nat /\ WorthOf(held, ticks) <= worthLeft
  BY <1>1, WorthAdds DEF PricingInv, NothingFromNothing
<1>10. WorthOf(p, TicksPerDay * b) <= worthLeft + unpaid + half
  <2>1. CASE trialing \/ ~Rated(held)
    <3>1. unpaid = WorthOf(p, TicksPerDay * b)
      BY <2>1
    <3> HIDE DEF unpaid, half, b
    <3>2. QED BY <1>1, <1>5, <1>6, <1>9, <3>1
  <2>2. CASE ~(trialing \/ ~Rated(held))
    <3>1. unpaid = 0
      BY <2>2
    <3>2. b = ChangeBonus(held, ticks, p, d)
      <4>1. held # NoTariff
        BY <1>1, PricingAssumption
      <4>2. ChangeBonus(held, ticks, p, d) \in Nat
        BY <1>1, ChangeBonusType
      <4>3. QED BY <2>2, <4>1, <4>2 DEF BonusNow, Prorated
    <3>3. WorthOf(p, TicksPerDay * b) <= WorthOf(held, ticks) + half
      BY <1>1, <2>2, <3>2, BonusIsWorth
    <3> HIDE DEF unpaid, half, b
    <3>4. QED BY <1>1, <1>5, <1>6, <1>9, <3>1, <3>3
  <2>3. QED BY <2>1, <2>2
<1>11. unpaid \in Nat
  BY <1>6
<1>12. NothingFromNothing'
  <2>1. WorthOf(p, ticks') <= worthLeft'
    <3> HIDE DEF unpaid, half, b, p, d
    <3>1. QED BY <1>1, <1>3, <1>4, <1>5, <1>6, <1>7, <1>8, <1>10, <1>11
  <2>2. QED BY <1>4, <2>1 DEF NothingFromNothing, WorthOf
<1>13. PricingTypes'
  <2>1. ticks' \in Nat
    <3> HIDE DEF b, d
    <3>1. QED BY <1>2, <1>3, <1>4 DEF TicksPerDay
  <2>2. worthLeft' \in Int
    <3> HIDE DEF unpaid, half, b
    <3>1. QED BY <1>1, <1>3, <1>4, <1>5, <1>11
  <2>3. held' \in Tariffs \cup {NoTariff} /\ trialing' \in BOOLEAN
    BY <1>1, <1>4
  <2>4. DOMAIN quotes' = Quotes /\ \A k \in Quotes : quotes'[k] # NoQuote => quotes'[k] = quotes[k]
    BY <1>4 DEF PricingInv, PricingTypes
  <2>5. QED BY <2>1, <2>2, <2>3, <2>4 DEF PricingInv, PricingTypes, Listed
<1>14. QED BY <1>12, <1>13 DEF PricingInv

LEMMA GrantOrRenewKeepsWorth ==
  ASSUME PricingInv, NEW o \in Quotes, GrantNew(o) \/ RenewPlan(o) PROVE PricingInv'
<1> DEFINE p == quotes[o].plan
           d == quotes[o].days
           cost == Scale * PriceOf[p][d]
           worth == WorthOf(p, TicksPerDay * d)
<1>1. /\ p \in Tariffs /\ d \in Listed(p) /\ ticks \in Nat /\ worthLeft \in Int
      /\ quotes[o] # NoQuote
  BY DEF PricingInv, PricingTypes, GrantNew, RenewPlan, Fulfilled
<1>2. d \in Nat \ {0} /\ Scale * PriceOf[p][d] \in Nat
  <2>1. d \in Nat \ {0} /\ PriceOf[p][d] \in Nat
    BY <1>1, PricesAreNumbers
  <2>2. Scale \in Nat
    BY PricingAssumption
  <2>3. QED BY <2>1, <2>2, ProductType
<1>3. /\ worthLeft' = worthLeft + Scale * PriceOf[p][d]
      /\ quotes' = [quotes EXCEPT ![o] = NoQuote]
      /\ held' = p
  BY DEF GrantNew, RenewPlan, Fulfilled, ListWorth
<1>4. cost \in Nat /\ worthLeft' = worthLeft + cost
  BY <1>2, <1>3
<1>5. TicksPerDay * d \in Nat
  BY <1>2 DEF TicksPerDay
<1>6. worth \in Nat /\ worth <= cost
  BY <1>1, <1>5, WorthAdds, ListedIsWorth
<1>7. WorthOf(p, ticks') <= worthLeft' /\ ticks' \in Nat /\ trialing' \in BOOLEAN
  <2>1. CASE GrantNew(o)
    <3>1. WorthOf(held, ticks) = 0 /\ 0 <= worthLeft
      BY <2>1, WorthOfNothing DEF GrantNew, PricingInv, NothingFromNothing
    <3>2. ticks' = TicksPerDay * d /\ trialing' = FALSE
      BY <2>1 DEF GrantNew
    <3>3. WorthOf(p, ticks') = worth
      BY <3>2
    <3>4. WorthOf(p, ticks') <= worthLeft'
      <4> HIDE DEF p, d, worth, cost
      <4>1. QED BY <1>1, <1>4, <1>6, <3>1, <3>3
    <3>5. QED BY <1>5, <3>2, <3>4
  <2>2. CASE RenewPlan(o)
    <3>1. /\ held = p /\ WorthOf(p, ticks) <= worthLeft
          /\ ticks' = ticks + TicksPerDay * d /\ trialing' = trialing /\ trialing \in BOOLEAN
      BY <2>2 DEF RenewPlan, PricingInv, NothingFromNothing, PricingTypes
    <3>2. /\ WorthOf(p, ticks) \in Nat
          /\ WorthOf(p, ticks + TicksPerDay * d) = WorthOf(p, ticks) + WorthOf(p, TicksPerDay * d)
      BY <1>1, <1>5, WorthAdds
    <3>3. WorthOf(p, ticks') = WorthOf(p, ticks) + worth
      BY <3>1, <3>2
    <3>4. WorthOf(p, ticks') <= worthLeft'
      <4> HIDE DEF p, d, worth, cost
      <4>1. QED BY <1>1, <1>4, <1>6, <3>1, <3>2, <3>3
    <3>5. ticks' \in Nat
      <4> HIDE DEF d
      <4>1. QED BY <1>1, <1>5, <3>1
    <3>6. QED BY <3>1, <3>4, <3>5
  <2>3. QED BY <2>1, <2>2
<1>8. NothingFromNothing'
  BY <1>3, <1>7 DEF NothingFromNothing, WorthOf
<1>9. PricingTypes'
  <2>1. worthLeft' \in Int /\ held' \in Tariffs \cup {NoTariff}
    <3> HIDE DEF cost
    <3>1. QED BY <1>1, <1>3, <1>4
  <2>2. DOMAIN quotes' = Quotes /\ \A k \in Quotes : quotes'[k] # NoQuote => quotes'[k] = quotes[k]
    BY <1>3 DEF PricingInv, PricingTypes
  <2>3. QED BY <1>7, <2>1, <2>2 DEF PricingInv, PricingTypes, Listed
<1>10. QED BY <1>8, <1>9 DEF PricingInv

LEMMA QuoteKeepsWorth ==
  ASSUME PricingInv, NEW o \in Quotes, NEW p \in Tariffs, NEW d \in Listed(p), Quote(o, p, d)
  PROVE  PricingInv'
<1>1. NothingFromNothing'
  BY DEF PricingInv, Quote, NothingFromNothing, WorthOf
<1>2. /\ DOMAIN quotes' = Quotes
      /\ \A k \in Quotes : quotes'[k] = IF k = o THEN [plan |-> p, days |-> d, bonus |-> Prorated(p, d)]
                                        ELSE quotes[k]
  BY DEF PricingInv, PricingTypes, Quote
<1>3. QED BY <1>1, <1>2 DEF PricingInv, PricingTypes, Quote, Listed

LEMMA DaysKeepWorth ==
  ASSUME PricingInv, TakeTrial \/ GiveDay \/ TimePasses PROVE PricingInv'
<1>1. held \in Tariffs \cup {NoTariff} /\ ticks \in Nat /\ worthLeft \in Int /\ WorthOf(held, ticks) <= worthLeft
  BY DEF PricingInv, PricingTypes, NothingFromNothing
<1>2. CASE TakeTrial
  <2>1. TicksPerDay * TrialDays \in Nat
    BY PricingAssumption DEF TicksPerDay
  <2>2. 0 <= worthLeft
    BY <1>1, <1>2, WorthOfNothing DEF TakeTrial
  <2>3. PICK p \in Tariffs : ~Rated(p) /\ held' = p
    BY <1>2 DEF TakeTrial
  <2>4. NothingFromNothing'
    <3>1. WorthOf(p, ticks') = 0
      BY <2>3, WorthOfNothing
    <3>2. WorthOf(p, ticks') <= worthLeft'
      BY <1>2, <2>2, <3>1 DEF TakeTrial
    <3>3. QED BY <2>3, <3>2 DEF NothingFromNothing, WorthOf
  <2>5. QED BY <1>2, <2>1, <2>3, <2>4 DEF TakeTrial, PricingInv, PricingTypes, Listed
<1>3. CASE GiveDay
  <2>1. TicksPerDay \in Nat
    BY DEF TicksPerDay
  <2>2. /\ WorthOf(held, ticks + TicksPerDay) = WorthOf(held, ticks) + WorthOf(held, TicksPerDay)
        /\ WorthOf(held, ticks) \in Nat /\ WorthOf(held, TicksPerDay) \in Nat
    BY <1>1, <2>1, WorthAdds
  <2>3. /\ held' = held /\ ticks' = ticks + TicksPerDay
        /\ worthLeft' = worthLeft + WorthOf(held, TicksPerDay)
    BY <1>3 DEF GiveDay
  <2>4. WorthOf(held, ticks') <= worthLeft' /\ ticks' \in Nat /\ worthLeft' \in Int
    BY <1>1, <2>1, <2>2, <2>3
  <2>5. NothingFromNothing'
    BY <2>3, <2>4 DEF NothingFromNothing, WorthOf
  <2>6. QED BY <1>3, <2>4, <2>5 DEF GiveDay, PricingInv, PricingTypes, Listed
<1>4. CASE TimePasses
  <2>1. ticks - 1 \in Nat /\ (ticks - 1) + 1 = ticks
    BY <1>1, <1>4 DEF TimePasses
  <2>2. /\ WorthOf(held, ticks) = WorthOf(held, ticks - 1) + WorthOf(held, 1)
        /\ WorthOf(held, ticks - 1) \in Nat /\ WorthOf(held, 1) \in Nat
    <3>1. WorthOf(held, (ticks - 1) + 1) = WorthOf(held, ticks - 1) + WorthOf(held, 1)
      BY <1>1, <2>1, WorthAdds
    <3>2. WorthOf(held, ticks - 1) \in Nat /\ WorthOf(held, 1) \in Nat
      BY <1>1, <2>1, WorthAdds
    <3>3. QED BY <2>1, <3>1, <3>2
  <2>3. /\ held' = held /\ ticks' = ticks - 1 /\ worthLeft' = worthLeft - WorthOf(held, 1)
    BY <1>4 DEF TimePasses
  <2>4. WorthOf(held, ticks') <= worthLeft' /\ ticks' \in Nat /\ worthLeft' \in Int
    BY <1>1, <2>1, <2>2, <2>3
  <2>5. NothingFromNothing'
    BY <2>3, <2>4 DEF NothingFromNothing, WorthOf
  <2>6. QED BY <1>4, <2>4, <2>5 DEF TimePasses, PricingInv, PricingTypes, Listed
<1>5. QED BY <1>2, <1>3, <1>4

LEMMA PricingIdle == ASSUME PricingInv, UNCHANGED priceVars PROVE PricingInv'
  BY DEF PricingInv, PricingTypes, NothingFromNothing, WorthOf, priceVars, Listed

LEMMA PricingStep == PricingInv /\ [PricingNext]_priceVars => PricingInv'
<1> SUFFICES ASSUME PricingInv, [PricingNext]_priceVars PROVE PricingInv'
  OBVIOUS
<1>1. ASSUME NEW o \in Quotes, GrantNew(o) \/ RenewPlan(o) PROVE PricingInv'
  BY <1>1, GrantOrRenewKeepsWorth
<1>2. ASSUME NEW o \in Quotes, ChangePlan(o) PROVE PricingInv'
  BY <1>2, ChangePlanKeepsWorth
<1>3. ASSUME NEW o \in Quotes, NEW p \in Tariffs, NEW d \in Listed(p), Quote(o, p, d)
      PROVE PricingInv'
  BY <1>3, QuoteKeepsWorth
<1>4. ASSUME TakeTrial \/ GiveDay \/ TimePasses PROVE PricingInv'
  BY <1>4, DaysKeepWorth
<1>5. QED BY <1>1, <1>2, <1>3, <1>4, PricingIdle DEF PricingNext

-----------------------------------------------------------------------------
(* Telemetry: the books of occurrences balance.  A batch is stored or put  *)
(* back event by event: what that does to each bug is shown by induction   *)
(* over the events of the batch, in any order.                             *)

(* An order of a finite set names each of its elements once. *)
LEMMA OrderIs ==
  ASSUME NEW S, IsFiniteSet(S), NEW order \in SetToSeqs(S)
  PROVE  /\ Len(order) \in Nat
         /\ \A k \in 1 .. Len(order) : order[k] \in S
         /\ \A j, k \in 1 .. Len(order) : j # k => order[j] # order[k]
         /\ \A x \in S : \E k \in 1 .. Len(order) : order[k] = x
<1> DEFINE n == Cardinality(S)
<1>1. n \in Nat
  BY FS_CardinalityType
<1>2. order \in [1 .. n -> S] /\ \A i, j \in 1 .. n : i # j => order[i] # order[j]
  BY DEF SetToSeqs
<1>3. IsFiniteSet(1 .. n) /\ Cardinality(1 .. n) = n
  <2> HIDE DEF n
  <2>1. QED BY <1>1, FS_Interval
<1>4. order \in Injection(1 .. n, S)
  BY <1>2 DEF Injection, IsInjective
<1>5. order \in Surjection(1 .. n, S)
  <2>1. Cardinality(1 .. n) = Cardinality(S) <=> order \in Surjection(1 .. n, S)
    BY <1>4, FS_Injection
  <2>2. QED BY <1>3, <2>1
<1>6. \A x \in S : \E k \in 1 .. n : order[k] = x
  BY <1>5 DEF Surjection
<1> HIDE DEF n
<1>7. Len(order) = n
  BY <1>1, <1>2
<1>8. QED BY <1>1, <1>2, <1>6, <1>7

-----------------------------------------------------------------------------
(* The server *)

Event == [n : Nat, ts : Nat]
Batch == [Bugs -> Event]
Issue == [known : BOOLEAN, total : Nat, last : Nat, resolved : BOOLEAN]

Announced(s) ==
    \A b \in Bugs : s.issue[b].known =>
        s.issue[b].resolved \/ b \in s.told \cup s.quiet \cup ToSet(s.alerts)

Store == [issue : [Bugs -> Issue], alerts : Seq(Bugs), told : SUBSET Bugs, quiet : SUBSET Bugs,
          gone : [Bugs -> Nat]]

Tidy == {s \in Store : Announced(s) /\ \A b \in Bugs : ~s.issue[b].known => s.issue[b].total = 0}

(* What a step of the server keeps: the occurrences but for those it adds, *)
(* and the alerts that were queued.                                        *)
Follows(s, t, b, k) ==
    /\ \A c \in Bugs : t.issue[c].total + t.gone[c]
                         = s.issue[c].total + s.gone[c] + IF c = b THEN k ELSE 0
    /\ ToSet(s.alerts) \subseteq ToSet(t.alerts)

LEMMA AppendAdds ==
  ASSUME NEW S, NEW s \in Seq(S), NEW x \in S
  PROVE  Append(s, x) \in Seq(S) /\ ToSet(Append(s, x)) = ToSet(s) \cup {x}
<1>1. /\ Append(s, x) \in Seq(S) /\ DOMAIN s = 1 .. Len(s) /\ Len(s) \in Nat
      /\ DOMAIN Append(s, x) = 1 .. Len(s) + 1
      /\ \A i \in 1 .. Len(s) : Append(s, x)[i] = s[i]
      /\ Append(s, x)[Len(s) + 1] = x
  OBVIOUS
<1>2. 1 .. Len(s) + 1 = (1 .. Len(s)) \cup {Len(s) + 1}
  BY <1>1
<1>3. QED BY <1>1, <1>2 DEF ToSet

LEMMA AlertedIs ==
  ASSUME NEW s \in Store, NEW b \in Bugs
  PROVE  LET t == Alerted(s, b)
         IN  /\ t \in Store
             /\ t.issue = s.issue /\ t.gone = s.gone /\ t.told = s.told
             /\ s.quiet \subseteq t.quiet /\ ToSet(s.alerts) \subseteq ToSet(t.alerts)
             /\ b \in t.quiet \cup ToSet(t.alerts)
<1>1. CASE Len(s.alerts) < MaxAlerts
  <2>1. Alerted(s, b) = [s EXCEPT !.alerts = Append(@, b)]
    BY <1>1 DEF Alerted
  <2>2. s.alerts \in Seq(Bugs)
    BY DEF Store
  <2>3. Append(s.alerts, b) \in Seq(Bugs) /\ ToSet(Append(s.alerts, b)) = ToSet(s.alerts) \cup {b}
    BY <2>2, AppendAdds
  <2>4. QED BY <2>1, <2>3 DEF Store
<1>2. CASE ~(Len(s.alerts) < MaxAlerts)
  <2>1. Alerted(s, b) = [s EXCEPT !.quiet = @ \cup {b}]
    BY <1>2 DEF Alerted
  <2>2. QED BY <2>1 DEF Store
<1>3. QED BY <1>1, <1>2

LEMMA CountedIs ==
  ASSUME NEW s \in Store, NEW b \in Bugs, NEW e \in Event
  PROVE  LET t == Counted(s, b, e)
         IN  /\ t \in Store
             /\ t.gone = s.gone /\ t.told = s.told /\ t.quiet = s.quiet /\ t.alerts = s.alerts
             /\ \A c \in Bugs : t.issue[c] =
                  IF c = b THEN [known |-> TRUE, total |-> s.issue[b].total + e.n,
                                 last |-> e.ts, resolved |-> FALSE]
                  ELSE s.issue[c]
<1> DEFINE t == Counted(s, b, e)
           more == [known |-> TRUE, total |-> s.issue[b].total + e.n,
                    last |-> e.ts, resolved |-> FALSE]
<1>1. s.issue \in [Bugs -> Issue] /\ s.issue[b] \in Issue
  BY DEF Store
<1>2. t = [s EXCEPT !.issue = [s.issue EXCEPT ![b] = more]]
  BY DEF Counted, Store
<1>3. more \in Issue
  BY <1>1 DEF Issue, Event
<1>4. [s.issue EXCEPT ![b] = more] \in [Bugs -> Issue]
  BY <1>1, <1>3
<1> HIDE DEF t, more
<1>5. t \in Store /\ t.issue = [s.issue EXCEPT ![b] = more] /\ t.gone = s.gone
      /\ t.told = s.told /\ t.quiet = s.quiet /\ t.alerts = s.alerts
  BY <1>2, <1>4 DEF Store
<1>6. \A c \in Bugs : t.issue[c] = IF c = b THEN more ELSE s.issue[c]
  BY <1>1, <1>5
<1>7. QED BY <1>5, <1>6 DEF t, more

LEMMA InsertedIs ==
  ASSUME NEW s \in Tidy, NEW b \in Bugs, NEW e \in Event, ~s.issue[b].known
  PROVE  Inserted(s, b, e) \in Tidy /\ Follows(s, Inserted(s, b, e), b, e.n)
<1> DEFINE new == [known |-> TRUE, total |-> e.n, last |-> e.ts, resolved |-> FALSE]
           added == [s.issue EXCEPT ![b] = new]
           out == Victims(added)
           kept == [c \in Bugs |-> IF c \in out THEN NoIssue ELSE added[c]]
           shed == [c \in Bugs |-> s.gone[c] + IF c \in out THEN added[c].total ELSE 0]
           r == [s EXCEPT !.issue = kept, !.gone = shed, !.told = @ \ out, !.quiet = @ \ out]
           t == Inserted(s, b, e)
<1>1. s \in Store /\ s.issue \in [Bugs -> Issue] /\ s.gone \in [Bugs -> Nat] /\ s.issue[b].total = 0
  BY DEF Tidy, Store
<1>2. t = Alerted(r, b)
  BY DEF Inserted
<1>3. new \in Issue /\ NoIssue \in Issue
  BY DEF Event, Issue, NoIssue
<1>4. added \in [Bugs -> Issue] /\ \A c \in Bugs : added[c] = IF c = b THEN new ELSE s.issue[c]
  BY <1>1, <1>3
<1>5. kept \in [Bugs -> Issue] /\ shed \in [Bugs -> Nat]
  <2>1. \A c \in Bugs : added[c] \in Issue /\ added[c].total \in Nat
    BY <1>4 DEF Issue
  <2> HIDE DEF added, out
  <2>2. \A c \in Bugs : kept[c] \in Issue /\ shed[c] \in Nat
    BY <1>1, <1>3, <2>1
  <2>3. QED BY <2>2
<1>6. \A c \in Bugs : /\ kept[c] = IF c \in out THEN NoIssue ELSE added[c]
                      /\ shed[c] = s.gone[c] + IF c \in out THEN added[c].total ELSE 0
  OBVIOUS
<1> HIDE DEF added, out, kept, shed
<1>7. /\ r \in Store /\ r.issue = kept /\ r.gone = shed
      /\ r.told = s.told \ out /\ r.quiet = s.quiet \ out /\ r.alerts = s.alerts
  BY <1>1, <1>5 DEF Store
<1> HIDE DEF r, t
<1>8. /\ t \in Store /\ t.issue = kept /\ t.gone = shed /\ t.told = s.told \ out
      /\ s.quiet \ out \subseteq t.quiet /\ ToSet(s.alerts) \subseteq ToSet(t.alerts)
      /\ b \in t.quiet \cup ToSet(t.alerts)
  BY <1>2, <1>7, AlertedIs
<1>9. Announced(t)
  <2> SUFFICES ASSUME NEW c \in Bugs, kept[c].known, ~kept[c].resolved
               PROVE  c \in t.told \cup t.quiet \cup ToSet(t.alerts)
    BY <1>8 DEF Announced
  <2>1. c \notin out /\ kept[c] = added[c]
    BY <1>6 DEF NoIssue
  <2>2. CASE c = b
    BY <1>8, <2>2
  <2>3. CASE c # b
    <3>1. s.issue[c].known /\ ~s.issue[c].resolved
      BY <1>4, <2>1, <2>3
    <3>2. c \in s.told \cup s.quiet \cup ToSet(s.alerts)
      BY <3>1 DEF Tidy, Announced
    <3>3. QED BY <1>8, <2>1, <3>2
  <2>4. QED BY <2>2, <2>3
<1>10. ASSUME NEW c \in Bugs, ~kept[c].known PROVE kept[c].total = 0
  <2>1. CASE c \in out
    BY <1>6, <2>1 DEF NoIssue
  <2>2. CASE c \notin out
    <3>1. c # b
      BY <1>4, <1>6, <1>10, <2>2
    <3>2. kept[c] = s.issue[c]
      BY <1>4, <1>6, <2>2, <3>1
    <3>3. QED BY <1>10, <3>2 DEF Tidy
  <2>3. QED BY <2>1, <2>2
<1>11. ASSUME NEW c \in Bugs
       PROVE  kept[c].total + shed[c] = s.issue[c].total + s.gone[c] + IF c = b THEN e.n ELSE 0
  <2>1. added[c].total = s.issue[c].total + IF c = b THEN e.n ELSE 0
    <3>1. e.n \in Nat /\ s.issue[c].total \in Nat
      BY <1>1 DEF Event, Issue
    <3>2. QED BY <1>1, <1>4, <3>1
  <2>2. added[c].total \in Nat /\ s.issue[c].total \in Nat /\ s.gone[c] \in Nat /\ e.n \in Nat
    BY <1>1, <1>4 DEF Issue, Event
  <2>3. kept[c].total + shed[c] = added[c].total + s.gone[c]
    BY <1>6, <2>2 DEF NoIssue
  <2>4. QED BY <2>1, <2>2, <2>3
<1>12. t \in Tidy
  BY <1>8, <1>9, <1>10 DEF Tidy
<1>13. Follows(s, t, b, e.n)
  BY <1>8, <1>11 DEF Follows
<1>14. QED BY <1>12, <1>13 DEF t

LEMMA UpdatedIs ==
  ASSUME NEW s \in Tidy, NEW b \in Bugs, NEW e \in Event, s.issue[b].known
  PROVE  Updated(s, b, e) \in Tidy /\ Follows(s, Updated(s, b, e), b, e.n)
<1> DEFINE r == Counted(s, b, e)
           t == Updated(s, b, e)
           more == [known |-> TRUE, total |-> s.issue[b].total + e.n, last |-> e.ts,
                    resolved |-> FALSE]
<1>1. s \in Store /\ s.issue \in [Bugs -> Issue] /\ s.gone \in [Bugs -> Nat]
  BY DEF Tidy, Store
<1>2. /\ r \in Store /\ r.gone = s.gone /\ r.told = s.told /\ r.quiet = s.quiet
      /\ r.alerts = s.alerts
      /\ \A c \in Bugs : r.issue[c] = IF c = b THEN more ELSE s.issue[c]
  BY <1>1, CountedIs
<1>3. t = IF s.issue[b].resolved THEN Alerted(r, b) ELSE r
  BY DEF Updated
<1> HIDE DEF r, t
<1>4. /\ t \in Store /\ t.issue = r.issue /\ t.gone = s.gone /\ t.told = s.told
      /\ s.quiet \subseteq t.quiet /\ ToSet(s.alerts) \subseteq ToSet(t.alerts)
      /\ s.issue[b].resolved => b \in t.quiet \cup ToSet(t.alerts)
  <2>1. CASE s.issue[b].resolved
    BY <1>2, <1>3, <2>1, AlertedIs
  <2>2. CASE ~s.issue[b].resolved
    BY <1>2, <1>3, <2>2
  <2>3. QED BY <2>1, <2>2
<1>5. Announced(t)
  <2> SUFFICES ASSUME NEW c \in Bugs, r.issue[c].known, ~r.issue[c].resolved
               PROVE  c \in t.told \cup t.quiet \cup ToSet(t.alerts)
    BY <1>4 DEF Announced
  <2>1. CASE c = b /\ s.issue[b].resolved
    BY <1>4, <2>1
  <2>2. CASE ~(c = b /\ s.issue[b].resolved)
    <3>1. s.issue[c].known /\ ~s.issue[c].resolved
      BY <1>2, <2>2
    <3>2. c \in s.told \cup s.quiet \cup ToSet(s.alerts)
      BY <3>1 DEF Tidy, Announced
    <3>3. QED BY <1>4, <3>2
  <2>3. QED BY <2>1, <2>2
<1>6. \A c \in Bugs : ~r.issue[c].known => r.issue[c].total = 0
  BY <1>2 DEF Tidy
<1>7. ASSUME NEW c \in Bugs
      PROVE  r.issue[c].total + s.gone[c] = s.issue[c].total + s.gone[c] + IF c = b THEN e.n ELSE 0
  <2>1. s.issue[c].total \in Nat /\ s.gone[c] \in Nat /\ e.n \in Nat
    BY <1>1 DEF Issue, Event
  <2>2. QED BY <1>2, <2>1
<1>8. t \in Tidy
  BY <1>4, <1>5, <1>6 DEF Tidy
<1>9. Follows(s, t, b, e.n)
  BY <1>4, <1>7 DEF Follows
<1>10. QED BY <1>8, <1>9 DEF t

(* An event of a batch, stored. *)
Taken(e) == IF Valid(e) THEN e.n ELSE 0

LEMMA AppliedIs ==
  ASSUME NEW s \in Tidy, NEW b \in Bugs, NEW e \in Event
  PROVE  /\ AppliedEvent(s, b, e) \in Tidy
         /\ Follows(s, AppliedEvent(s, b, e), b, Taken(e))
<1>1. CASE ~Valid(e)
  <2>1. AppliedEvent(s, b, e) = s /\ Taken(e) = 0
    BY <1>1 DEF AppliedEvent, Taken
  <2>2. \A c \in Bugs : s.issue[c].total \in Nat /\ s.gone[c] \in Nat
    BY DEF Tidy, Store, Issue
  <2>3. Follows(s, s, b, 0)
    BY <2>2 DEF Follows
  <2>4. QED BY <2>1, <2>3
<1>2. CASE Valid(e) /\ s.issue[b].known
  BY <1>2, UpdatedIs DEF AppliedEvent, Taken
<1>3. CASE Valid(e) /\ ~s.issue[b].known
  BY <1>3, InsertedIs DEF AppliedEvent, Taken
<1>4. QED BY <1>1, <1>2, <1>3

Tables == [issue |-> issue, alerts |-> alerts, told |-> told, quiet |-> quiet,
           gone |-> [b \in Bugs |-> 0]]

LEMMA NamedFinite == ASSUME NEW of PROVE IsFiniteSet(Named(of))
  BY TelemetryAssumption, FS_Subset DEF Named

(* A batch that is stored, in whatever order, is counted to the last of its *)
(* valid events, and what was queued or announced stays so.                 *)
LEMMA IngestedIs ==
  ASSUME Tables \in Tidy, NEW of \in Batch, NEW order \in SetToSeqs(Named(of))
  PROVE  LET s == Ingested(of, order)
         IN  /\ s \in Tidy
             /\ \A c \in Bugs : s.issue[c].total + s.gone[c] = issue[c].total + Accepted(of)[c]
             /\ ToSet(alerts) \subseteq ToSet(s.alerts)
<1> DEFINE n == Len(order)
           G == [p \in (1 .. n) \X Tidy |-> AppliedEvent(p[2], order[p[1]], of[order[p[1]]])]
           Steps(f) == f = [k \in 0 .. n |-> IF k = 0 THEN Tables
                              ELSE AppliedEvent(f[k - 1], order[k], of[order[k]])]
           Seen(k, c) == \E j \in 1 .. k : order[j] = c
<1>1. /\ n \in Nat /\ \A k \in 1 .. n : order[k] \in Bugs /\ of[order[k]] \in Event
      /\ \A j, k \in 1 .. n : j # k => order[j] # order[k]
      /\ \A c \in Named(of) : Seen(n, c)
  <2>1. \A b \in Named(of) : b \in Bugs /\ of[b] \in Event
    BY DEF Named, Batch
  <2>2. IsFiniteSet(Named(of))
    BY NamedFinite
  <2>3. QED BY <2>1, <2>2, OrderIs
<1> HIDE DEF n
<1>2. G \in [(1 .. n) \X Tidy -> Tidy]
  <2>1. \A p \in (1 .. n) \X Tidy : AppliedEvent(p[2], order[p[1]], of[order[p[1]]]) \in Tidy
    BY <1>1, AppliedIs
  <2>2. QED BY <2>1
<1>3. \A k \in 1 .. n : \A s \in Tidy : G[<<k, s>>] = AppliedEvent(s, order[k], of[order[k]])
  OBVIOUS
<1> HIDE DEF G
<1>4. PICK g \in [0 .. n -> Tidy] : g[0] = Tables /\ \A k \in 1 .. n : g[k] = G[<<k, g[k - 1]>>]
  <2>1. n \in Nat
    BY <1>1
  <2>2. PICK g : IsRun(g, n, Tidy, Tables, G)
    BY <1>2, <2>1, Iterates
  <2>3. QED BY <2>2 DEF IsRun
<1>5. Steps(g)
  <2>1. \A k \in 1 .. n : g[k] = AppliedEvent(g[k - 1], order[k], of[order[k]])
    <3>1. \A k \in 1 .. n : k - 1 \in 0 .. n
      BY <1>1
    <3>2. QED BY <1>3, <1>4, <3>1
  <2>2. \A k \in 0 .. n : g[k] = IF k = 0 THEN Tables
                               ELSE AppliedEvent(g[k - 1], order[k], of[order[k]])
    BY <1>1, <1>4, <2>1
  <2>3. g = [k \in 0 .. n |-> g[k]]
    OBVIOUS
  <2>4. QED BY <2>2, <2>3
<1> DEFINE f == CHOOSE h : Steps(h)
<1>6. Ingested(of, order) = f[n]
  BY DEF Ingested, Tables, n
<1>7. Steps(f)
  BY <1>5
<1> HIDE DEF f
<1>8. f[0] = Tables /\ \A k \in 1 .. n : f[k] = AppliedEvent(f[k - 1], order[k], of[order[k]])
  BY <1>1, <1>7
<1> HIDE DEF Steps
<1> DEFINE SoFar(k) ==
             /\ f[k] \in Tidy
             /\ \A c \in Bugs : f[k].issue[c].total + f[k].gone[c]
                                 = issue[c].total + IF Seen(k, c) THEN Taken(of[c]) ELSE 0
             /\ ToSet(alerts) \subseteq ToSet(f[k].alerts)
           Good == {k \in 0 .. n : SoFar(k)}
<1>9. \A c \in Bugs : Taken(of[c]) \in Nat /\ issue[c].total \in Nat
  <2>1. issue \in [Bugs -> Issue]
    BY DEF Tables, Tidy, Store
  <2>2. QED BY <2>1 DEF Taken, Batch, Event, Issue
<1>10. SoFar(0)
  <2>1. \A c \in Bugs : ~Seen(0, c)
    OBVIOUS
  <2>2. QED BY <1>8, <1>9, <2>1 DEF Tables
<1>11. ASSUME NEW k \in 0 .. n - 1, SoFar(k) PROVE SoFar(k + 1)
  <2> DEFINE b == order[k + 1]
  <2>1. k + 1 \in 1 .. n /\ (k + 1) - 1 = k
    BY <1>1
  <2>2. f[k + 1] = AppliedEvent(f[k], b, of[b]) /\ b \in Bugs /\ of[b] \in Event
    BY <1>1, <1>8, <2>1
  <2>3. f[k + 1] \in Tidy /\ Follows(f[k], f[k + 1], b, Taken(of[b]))
    BY <1>11, <2>2, AppliedIs
  <2>4. ~Seen(k, b)
    <3>1. \A j \in 1 .. k : j \in 1 .. n /\ j # k + 1
      BY <1>1
    <3>2. QED BY <1>1, <2>1, <3>1
  <2>5. \A c \in Bugs : Seen(k + 1, c) <=> Seen(k, c) \/ c = b
    <3>1. 1 .. k + 1 = (1 .. k) \cup {k + 1}
      BY <1>1
    <3>2. QED BY <3>1
  <2> HIDE DEF Seen, b
  <2>6. ASSUME NEW c \in Bugs
        PROVE  f[k + 1].issue[c].total + f[k + 1].gone[c]
                   = issue[c].total + IF Seen(k + 1, c) THEN Taken(of[c]) ELSE 0
    <3>1. f[k + 1].issue[c].total + f[k + 1].gone[c]
              = f[k].issue[c].total + f[k].gone[c] + IF c = b THEN Taken(of[b]) ELSE 0
      BY <2>3 DEF Follows
    <3>2. f[k].issue[c].total + f[k].gone[c]
              = issue[c].total + IF Seen(k, c) THEN Taken(of[c]) ELSE 0
      BY <1>11
    <3>3. QED BY <1>9, <2>2, <2>4, <2>5, <3>1, <3>2
  <2>7. ToSet(alerts) \subseteq ToSet(f[k + 1].alerts)
    BY <1>11, <2>3 DEF Follows
  <2>8. QED BY <2>3, <2>6, <2>7
<1> HIDE DEF SoFar
<1>12. SoFar(n)
  <2>1. 0 \in Good /\ \A k \in 0 .. n - 1 : k \in Good => k + 1 \in Good
    BY <1>1, <1>10, <1>11
  <2> HIDE DEF Good
  <2>2. \A k \in 0 .. n : k \in Good
    BY <1>1, <2>1, CountUp
  <2>3. n \in Good
    BY <1>1, <2>2
  <2>4. QED BY <2>3 DEF Good
<1>13. \A c \in Bugs : (IF Seen(n, c) THEN Taken(of[c]) ELSE 0) = Accepted(of)[c]
  <2> SUFFICES ASSUME NEW c \in Bugs
               PROVE  (IF Seen(n, c) THEN Taken(of[c]) ELSE 0) = Accepted(of)[c]
    OBVIOUS
  <2>1. Accepted(of)[c] = Taken(of[c])
    BY DEF Accepted, Taken
  <2>2. CASE c \in Named(of)
    BY <1>1, <2>1, <2>2
  <2>3. CASE c \notin Named(of)
    <3>1. Taken(of[c]) = 0
      BY <2>3, TelemetryAssumption DEF Taken, Valid, Named, Batch, Event
    <3>2. QED BY <2>1, <3>1
  <2>4. QED BY <2>2, <2>3
<1>14. QED BY <1>6, <1>12, <1>13 DEF SoFar

-----------------------------------------------------------------------------
(* The reporter *)

LEMMA QueuedIs ==
  ASSUME NEW q \in Batch, NEW b \in Bugs, NEW e \in Event
  PROVE  /\ Queued(q, b, e) \in Batch
         /\ \A c \in Bugs \ {b} : Queued(q, b, e)[c] = q[c]
         /\ \/ Queued(q, b, e)[b].n = q[b].n + e.n
            \/ Queued(q, b, e) = q /\ q[b].n = 0
<1>1. q[b] \in Event /\ q[b].n \in Nat /\ e.n \in Nat
  BY DEF Batch, Event
<1>2. CASE q[b].n > 0
  <2>1. Queued(q, b, e) = [q EXCEPT ![b].n = @ + e.n]
    BY <1>2 DEF Queued
  <2>2. [q[b] EXCEPT !.n = @ + e.n] \in Event
    BY <1>1 DEF Event
  <2>3. QED BY <1>1, <2>1, <2>2 DEF Batch, Event
<1>3. CASE q[b].n = 0 /\ Cardinality(Named(q)) < MaxPending
  <2>1. Queued(q, b, e) = [q EXCEPT ![b] = e]
    BY <1>3 DEF Queued
  <2>2. QED BY <1>1, <1>3, <2>1 DEF Batch
<1>4. CASE q[b].n = 0 /\ ~(Cardinality(Named(q)) < MaxPending)
  <2>1. Queued(q, b, e) = q
    BY <1>4 DEF Queued
  <2>2. QED BY <1>4, <2>1
<1>5. QED BY <1>1, <1>2, <1>3, <1>4

(* A batch put back is added to the queue, but for the events that find no *)
(* room.                                                                   *)
LEMMA PutBackIs ==
  ASSUME NEW q \in Batch, NEW of \in Batch, NEW order \in SetToSeqs(Named(of))
  PROVE  LET r == PutBack(q, of, order)
         IN  /\ r \in Batch
             /\ \A c \in Bugs : r[c].n = q[c].n + of[c].n \/ (r[c].n = 0 /\ q[c].n = 0)
<1> DEFINE n == Len(order)
           G == [p \in (1 .. n) \X Batch |-> Queued(p[2], order[p[1]], of[order[p[1]]])]
           Steps(f) == f = [k \in 0 .. n |-> IF k = 0 THEN q
                              ELSE Queued(f[k - 1], order[k], of[order[k]])]
           Seen(k, c) == \E j \in 1 .. k : order[j] = c
<1>1. /\ n \in Nat /\ \A k \in 1 .. n : order[k] \in Bugs /\ of[order[k]] \in Event
      /\ \A j, k \in 1 .. n : j # k => order[j] # order[k]
      /\ \A c \in Named(of) : Seen(n, c)
  <2>1. \A b \in Named(of) : b \in Bugs /\ of[b] \in Event
    BY DEF Named, Batch
  <2>2. IsFiniteSet(Named(of))
    BY NamedFinite
  <2>3. QED BY <2>1, <2>2, OrderIs
<1> HIDE DEF n
<1>2. G \in [(1 .. n) \X Batch -> Batch]
  <2>1. \A p \in (1 .. n) \X Batch : Queued(p[2], order[p[1]], of[order[p[1]]]) \in Batch
    BY <1>1, QueuedIs
  <2>2. QED BY <2>1
<1>3. \A k \in 1 .. n : \A s \in Batch : G[<<k, s>>] = Queued(s, order[k], of[order[k]])
  OBVIOUS
<1> HIDE DEF G
<1>4. PICK g \in [0 .. n -> Batch] : g[0] = q /\ \A k \in 1 .. n : g[k] = G[<<k, g[k - 1]>>]
  <2>1. n \in Nat
    BY <1>1
  <2>2. PICK g : IsRun(g, n, Batch, q, G)
    BY <1>2, <2>1, Iterates
  <2>3. QED BY <2>2 DEF IsRun
<1>5. Steps(g)
  <2>1. \A k \in 1 .. n : g[k] = Queued(g[k - 1], order[k], of[order[k]])
    <3>1. \A k \in 1 .. n : k - 1 \in 0 .. n
      BY <1>1
    <3>2. QED BY <1>3, <1>4, <3>1
  <2>2. \A k \in 0 .. n : g[k] = IF k = 0 THEN q ELSE Queued(g[k - 1], order[k], of[order[k]])
    BY <1>1, <1>4, <2>1
  <2>3. g = [k \in 0 .. n |-> g[k]]
    OBVIOUS
  <2>4. QED BY <2>2, <2>3
<1> DEFINE f == CHOOSE h : Steps(h)
<1>6. PutBack(q, of, order) = f[n]
  BY DEF PutBack, n
<1>7. Steps(f)
  BY <1>5
<1> HIDE DEF f
<1>8. f[0] = q /\ \A k \in 1 .. n : f[k] = Queued(f[k - 1], order[k], of[order[k]])
  BY <1>1, <1>7
<1> HIDE DEF Steps
<1> DEFINE Back(r, c) == r[c].n = q[c].n + of[c].n \/ (r[c].n = 0 /\ q[c].n = 0)
           SoFar(k) == /\ f[k] \in Batch
                       /\ \A c \in Bugs : IF Seen(k, c) THEN Back(f[k], c) ELSE f[k][c] = q[c]
           Good == {k \in 0 .. n : SoFar(k)}
<1>9. SoFar(0)
  <2>1. \A c \in Bugs : ~Seen(0, c)
    OBVIOUS
  <2>2. QED BY <1>8, <2>1
<1>10. ASSUME NEW k \in 0 .. n - 1, SoFar(k) PROVE SoFar(k + 1)
  <2> DEFINE b == order[k + 1]
  <2>1. k + 1 \in 1 .. n /\ (k + 1) - 1 = k
    BY <1>1
  <2>2. f[k + 1] = Queued(f[k], b, of[b]) /\ b \in Bugs /\ of[b] \in Event
    BY <1>1, <1>8, <2>1
  <2>3. /\ f[k + 1] \in Batch
        /\ \A c \in Bugs \ {b} : f[k + 1][c] = f[k][c]
        /\ \/ f[k + 1][b].n = f[k][b].n + of[b].n
           \/ f[k + 1] = f[k] /\ f[k][b].n = 0
    BY <1>10, <2>2, QueuedIs
  <2>4. ~Seen(k, b)
    <3>1. \A j \in 1 .. k : j \in 1 .. n /\ j # k + 1
      BY <1>1
    <3>2. QED BY <1>1, <2>1, <3>1
  <2>5. \A c \in Bugs : Seen(k + 1, c) <=> Seen(k, c) \/ c = b
    <3>1. 1 .. k + 1 = (1 .. k) \cup {k + 1}
      BY <1>1
    <3>2. QED BY <3>1
  <2> HIDE DEF Seen, b
  <2>6. ASSUME NEW c \in Bugs
        PROVE  IF Seen(k + 1, c) THEN Back(f[k + 1], c) ELSE f[k + 1][c] = q[c]
    <3>1. CASE c = b
      <4>1. f[k][b] = q[b]
        BY <1>10, <2>2, <2>4
      <4>2. Back(f[k + 1], b)
        BY <2>3, <4>1
      <4>3. QED BY <2>5, <3>1, <4>2
    <3>2. CASE c # b
      BY <1>10, <2>3, <2>5, <3>2
    <3>3. QED BY <3>1, <3>2
  <2>7. QED BY <2>3, <2>6
<1> HIDE DEF SoFar
<1>11. SoFar(n)
  <2>1. 0 \in Good /\ \A k \in 0 .. n - 1 : k \in Good => k + 1 \in Good
    BY <1>1, <1>9, <1>10
  <2> HIDE DEF Good
  <2>2. \A k \in 0 .. n : k \in Good
    BY <1>1, <2>1, CountUp
  <2>3. n \in Good
    BY <1>1, <2>2
  <2>4. QED BY <2>3 DEF Good
<1>12. ASSUME NEW c \in Bugs PROVE Back(f[n], c)
  <2>1. CASE Seen(n, c)
    BY <1>11, <2>1 DEF SoFar
  <2>2. CASE ~Seen(n, c)
    <3>1. of[c].n \in Nat /\ q[c].n \in Nat
      BY DEF Batch, Event
    <3>2. c \notin Named(of)
      BY <1>1, <2>2
    <3>3. of[c].n = 0
      BY <3>1, <3>2 DEF Named
    <3>4. QED BY <1>11, <2>2, <3>1, <3>3 DEF SoFar
  <2>3. QED BY <2>1, <2>2
<1>13. QED BY <1>6, <1>11, <1>12 DEF SoFar

Flight == [at : {"none", "asked", "unheard"}, of : Batch]

LEMMA AfterFailureIs ==
  ASSUME NEW i, NEW l, pending[i] \in Batch, flight[i][l] \in Flight,
         NEW order \in SetToSeqs(Named(flight[i][l].of))
  PROVE  /\ AfterFailure(i, l, order) \in Batch
         /\ \A c \in Bugs :
              /\ Unkept(i, l, order)[c] \in Nat
              /\ pending[i][c].n + flight[i][l].of[c].n
                     = AfterFailure(i, l, order)[c].n + Unkept(i, l, order)[c]
<1> DEFINE q == pending[i]
           of == flight[i][l].of
           r == AfterFailure(i, l, order)
           u == Unkept(i, l, order)
<1>1. q \in Batch /\ of \in Batch
  BY DEF Flight
<1>2. \A c \in Bugs : u[c] = IF flight[i][l].at = "asked" /\ r[c].n > 0 THEN 0 ELSE of[c].n
  BY DEF Unkept
<1>3. r = IF flight[i][l].at = "asked" THEN PutBack(q, of, order) ELSE q
  BY DEF AfterFailure
<1>4. flight[i][l].at = "asked" =>
        r \in Batch /\ \A c \in Bugs : r[c].n = q[c].n + of[c].n \/ (r[c].n = 0 /\ q[c].n = 0)
  BY <1>1, <1>3, PutBackIs
<1> HIDE DEF q, of, r, u
<1>5. r \in Batch
  BY <1>1, <1>3, <1>4
<1>6. ASSUME NEW c \in Bugs PROVE u[c] \in Nat /\ q[c].n + of[c].n = r[c].n + u[c]
  <2>1. q[c].n \in Nat /\ of[c].n \in Nat /\ r[c].n \in Nat
    BY <1>1, <1>5 DEF Batch, Event
  <2>2. CASE flight[i][l].at = "asked"
    BY <1>2, <1>4, <2>1, <2>2
  <2>3. CASE flight[i][l].at # "asked"
    BY <1>2, <1>3, <2>1, <2>3
  <2>4. QED BY <2>2, <2>3
<1>7. QED BY <1>5, <1>6 DEF q, of, r, u

-----------------------------------------------------------------------------
(* How many occurrences of a bug are in the queues and under way. *)
InQueues(P, c) == SumFunctionOnSet([i \in Sites |-> P[i][c].n], Sites)
InLanes(F, c) ==
    SumFunctionOnSet([f \in Sites \X Lanes |-> F[f[1]][f[2]].of[c].n], Sites \X Lanes)

LEMMA LanesFinite == IsFiniteSet(Sites \X Lanes)
<1>1. IsFiniteSet(Lanes)
  <2>1. IsFiniteSet({"sender"})
    BY FS_Singleton
  <2>2. IsFiniteSet({"sender"} \cup {"aclose"})
    BY <2>1, FS_AddElement
  <2>3. Lanes = {"sender"} \cup {"aclose"}
    BY DEF Lanes
  <2>4. QED BY <2>2, <2>3
<1>2. QED BY <1>1, TelemetryAssumption, FS_Product

LEMMA QueuesChange ==
  ASSUME NEW P \in [Sites -> Batch], NEW Q \in [Sites -> Batch], NEW i \in Sites,
         \A j \in Sites \ {i} : Q[j] = P[j], NEW c \in Bugs
  PROVE  /\ InQueues(P, c) \in Nat /\ InQueues(Q, c) \in Nat
         /\ InQueues(Q, c) = InQueues(P, c) - P[i][c].n + Q[i][c].n
<1> DEFINE f == [j \in Sites |-> P[j][c].n]
           g == [j \in Sites |-> Q[j][c].n]
           k == Q[i][c].n - P[i][c].n
<1>1. IsFiniteSet(Sites)
  BY TelemetryAssumption
<1>2. \A j \in Sites : f[j] \in Nat /\ g[j] \in Nat
  BY DEF Batch, Event
<1>3. \A j \in Sites \ {i} : f[j] = g[j]
  OBVIOUS
<1>4. g[i] = f[i] + k /\ k \in Int /\ f[i] = P[i][c].n /\ g[i] = Q[i][c].n
  BY <1>2
<1>5. InQueues(P, c) = SumFunctionOnSet(f, Sites) /\ InQueues(Q, c) = SumFunctionOnSet(g, Sites)
  BY DEF InQueues
<1> HIDE DEF f, g
<1>6. SumFunctionOnSet(f, Sites) \in Nat /\ SumFunctionOnSet(g, Sites) \in Nat
  BY <1>1, <1>2, SumType
<1>7. SumFunctionOnSet(g, Sites) = SumFunctionOnSet(f, Sites) + k
  <2> HIDE DEF k
  <2>1. QED BY <1>1, <1>2, <1>3, <1>4, SumOneMore
<1>8. P[i][c].n \in Nat /\ Q[i][c].n \in Nat
  BY <1>2, <1>4
<1>9. QED BY <1>5, <1>6, <1>7, <1>8

LEMMA FlightChange ==
  ASSUME NEW F \in [Sites -> [Lanes -> Flight]], NEW G \in [Sites -> [Lanes -> Flight]],
         NEW i \in Sites, NEW l \in Lanes,
         \A j \in Sites, m \in Lanes : <<j, m>> # <<i, l>> => G[j][m].of = F[j][m].of,
         NEW c \in Bugs
  PROVE  /\ InLanes(F, c) \in Nat /\ InLanes(G, c) \in Nat
         /\ InLanes(G, c) = InLanes(F, c) - F[i][l].of[c].n + G[i][l].of[c].n
<1> DEFINE S == Sites \X Lanes
           f == [j \in S |-> F[j[1]][j[2]].of[c].n]
           g == [j \in S |-> G[j[1]][j[2]].of[c].n]
           k == G[i][l].of[c].n - F[i][l].of[c].n
           u == <<i, l>>
<1>1. IsFiniteSet(S)
  BY LanesFinite
<1>2. \A j \in S : f[j] \in Nat /\ g[j] \in Nat
  <2>1. \A j \in Sites, m \in Lanes : F[j][m].of[c].n \in Nat /\ G[j][m].of[c].n \in Nat
    BY DEF Flight, Batch, Event
  <2>2. QED BY <2>1
<1>3. \A j \in S \ {u} : f[j] = g[j]
  <2> SUFFICES ASSUME NEW j \in S, j # u PROVE f[j] = g[j]
    OBVIOUS
  <2>1. j = <<j[1], j[2]>> /\ j[1] \in Sites /\ j[2] \in Lanes
    OBVIOUS
  <2>2. G[j[1]][j[2]].of = F[j[1]][j[2]].of
    BY <2>1
  <2>3. QED BY <2>2
<1>4. u \in S /\ f[u] = F[i][l].of[c].n /\ g[u] = G[i][l].of[c].n
  OBVIOUS
<1>5. g[u] = f[u] + k /\ k \in Int
  BY <1>2, <1>4
<1>6. InLanes(F, c) = SumFunctionOnSet(f, S) /\ InLanes(G, c) = SumFunctionOnSet(g, S)
  BY DEF InLanes
<1> HIDE DEF f, g, S, u
<1>7. SumFunctionOnSet(f, S) \in Nat /\ SumFunctionOnSet(g, S) \in Nat
  BY <1>1, <1>2, SumType
<1>8. SumFunctionOnSet(g, S) = SumFunctionOnSet(f, S) + k
  <2> HIDE DEF k
  <2>1. QED BY <1>1, <1>2, <1>3, <1>4, <1>5, SumOneMore
<1>9. F[i][l].of[c].n \in Nat /\ G[i][l].of[c].n \in Nat
  BY <1>2, <1>4
<1>10. QED BY <1>6, <1>7, <1>8, <1>9

-----------------------------------------------------------------------------
TelemetryTypes ==
    /\ pending \in [Sites -> Batch]
    /\ flight \in [Sites -> [Lanes -> Flight]]
    /\ reported \in [Bugs -> Nat] /\ twice \in [Bugs -> Nat] /\ gone \in [Bugs -> Nat]

(* Nothing is in a lane that is not in use, and aclose's is in use only    *)
(* after it has begun.                                                     *)
LanesInUse ==
    /\ \A i \in Sites, l \in Lanes : flight[i][l].at = "none" => flight[i][l].of = NoEvents
    /\ \A i \in Sites \ closing : flight[i]["aclose"].at = "none"

TelemetryInv == TelemetryTypes /\ LanesInUse /\ Tables \in Tidy /\ OccurrencesAddUp

LEMMA AddUp ==
  OccurrencesAddUp <=>
      \A c \in Bugs : reported[c] + twice[c]
                       = issue[c].total + gone[c] + InQueues(pending, c) + InLanes(flight, c)
  BY DEF OccurrencesAddUp, InQueues, InLanes

LEMMA Told == TelemetryInv => TroublesAreTold
<1> SUFFICES ASSUME TelemetryInv PROVE TroublesAreTold
  OBVIOUS
<1>1. Announced(Tables)
  BY DEF TelemetryInv, Tidy
<1>2. OpenIsAnnounced
  BY <1>1 DEF Announced, Tables, OpenIsAnnounced, KnownIn
<1>3. QED BY <1>2 DEF TelemetryInv, TroublesAreTold

LEMMA InitTelemetry == TelemetryInit => TelemetryInv
<1> SUFFICES ASSUME TelemetryInit PROVE TelemetryInv
  OBVIOUS
<1>1. NoEvents \in Batch /\ NoFlight \in Flight /\ NoFlight.of = NoEvents
  BY DEF NoEvents, NoFlight, Batch, Event, Flight
<1>2. \A c \in Bugs : NoEvents[c].n = 0
  BY DEF NoEvents
<1>3. TelemetryTypes
  BY <1>1 DEF TelemetryInit, TelemetryTypes
<1>4. \A i \in Sites, l \in Lanes : flight[i][l] = NoFlight
  BY DEF TelemetryInit
<1>5. LanesInUse
  BY <1>1, <1>4 DEF LanesInUse, NoFlight, Lanes
<1>6. Tables \in Tidy
  <2>1. NoIssue \in Issue /\ NoIssue.known = FALSE /\ NoIssue.total = 0
    BY DEF NoIssue, Issue
  <2>2. issue \in [Bugs -> Issue] /\ \A b \in Bugs : issue[b] = NoIssue
    BY <2>1 DEF TelemetryInit
  <2>3. Tables \in Store
    BY <2>2 DEF TelemetryInit, Tables, Store
  <2>4. QED BY <2>1, <2>2, <2>3 DEF Tidy, Tables, Announced
<1>7. ASSUME NEW c \in Bugs
      PROVE  reported[c] + twice[c] = issue[c].total + gone[c] + InQueues(pending, c) + InLanes(flight, c)
  <2>1. InQueues(pending, c) = 0
    <3>1. \A i \in Sites : [j \in Sites |-> pending[j][c].n][i] = 0
      BY <1>2 DEF TelemetryInit
    <3>2. QED BY <3>1, TelemetryAssumption, SumOfZeros DEF InQueues
  <2>2. InLanes(flight, c) = 0
    <3>1. \A f \in Sites \X Lanes : [g \in Sites \X Lanes |-> flight[g[1]][g[2]].of[c].n][f] = 0
      BY <1>1, <1>2, <1>4
    <3>2. QED BY <3>1, LanesFinite, SumOfZeros DEF InLanes
  <2>3. reported[c] = 0 /\ twice[c] = 0 /\ gone[c] = 0 /\ issue[c].total = 0
    BY DEF TelemetryInit, NoIssue
  <2>4. QED BY <2>1, <2>2, <2>3
<1>8. OccurrencesAddUp
  BY <1>7, AddUp
<1>9. QED BY <1>3, <1>5, <1>6, <1>8 DEF TelemetryInv

-----------------------------------------------------------------------------
(* Steps *)

LEMMA EventNumbers ==
  ASSUME NEW P \in Batch, NEW c \in Bugs PROVE P[c].n \in Nat
  BY DEF Batch, Event

LEMMA NoEventsIs == NoEvents \in Batch /\ \A c \in Bugs : NoEvents[c].n = 0
  BY DEF NoEvents, Batch, Event

LEMMA BooksAreNumbers ==
  ASSUME TelemetryInv, NEW c \in Bugs
  PROVE  /\ reported[c] \in Nat /\ twice[c] \in Nat /\ gone[c] \in Nat
         /\ issue[c] \in Issue /\ issue[c].total \in Nat
         /\ reported[c] + twice[c]
                = issue[c].total + gone[c] + InQueues(pending, c) + InLanes(flight, c)
<1>1. issue \in [Bugs -> Issue]
  BY DEF TelemetryInv, Tables, Tidy, Store
<1>2. issue[c] \in Issue /\ issue[c].total \in Nat
  BY <1>1 DEF Issue
<1>3. QED BY <1>2, AddUp DEF TelemetryInv, TelemetryTypes

LEMMA ReportStep ==
  ASSUME TelemetryInv, NEW i \in Sites, NEW b \in Bugs, Report(i, b) PROVE TelemetryInv'
<1> DEFINE q == pending[i]
           e == [n |-> 1, ts |-> Occurred + 1]
           r == IF i \in closing THEN q ELSE Queued(q, b, e)
<1>1. q \in Batch /\ q[b].n \in Nat
  <2>1. q \in Batch
    BY DEF TelemetryInv, TelemetryTypes
  <2>2. QED BY <2>1, EventNumbers
<1>2. e \in Event /\ e.n = 1
  <2>1. \A c \in Bugs : reported[c] \in Nat
    BY DEF TelemetryInv, TelemetryTypes
  <2>2. Occurred \in Nat
    BY <2>1, TelemetryAssumption, SumType DEF Occurred
  <2>3. QED BY <2>2 DEF Event
<1> HIDE DEF q, e
<1>3. /\ r \in Batch /\ \A c \in Bugs \ {b} : r[c] = q[c]
      /\ r[b].n = q[b].n + 1 \/ r = q
  BY <1>1, <1>2, QueuedIs
<1>4. /\ pending' = [pending EXCEPT ![i] = r]
      /\ gone' = IF r = q THEN [gone EXCEPT ![b] = @ + 1] ELSE gone
      /\ reported' = [reported EXCEPT ![b] = @ + 1]
      /\ UNCHANGED <<flight, closing, issue, alerts, told, quiet, twice>>
  BY DEF Report, q, e
<1> HIDE DEF r
<1>5. TelemetryTypes'
  BY <1>3, <1>4 DEF TelemetryInv, TelemetryTypes
<1>6. LanesInUse' /\ Tables' \in Tidy
  BY <1>4 DEF TelemetryInv, LanesInUse, Tables
<1>7. ASSUME NEW c \in Bugs
      PROVE  (reported[c] + twice[c]
                = issue[c].total + gone[c] + InQueues(pending, c) + InLanes(flight, c))'
  <2>1. /\ InQueues(pending, c) \in Nat /\ InQueues(pending', c) \in Nat
        /\ InQueues(pending', c) = InQueues(pending, c) - pending[i][c].n + pending'[i][c].n
    <3>1. /\ pending \in [Sites -> Batch] /\ pending' \in [Sites -> Batch]
          /\ \A j \in Sites \ {i} : pending'[j] = pending[j]
      BY <1>4, <1>5 DEF TelemetryInv, TelemetryTypes
    <3>2. QED BY <3>1, QueuesChange
  <2>2. pending'[i] = r /\ pending[i] = q
    BY <1>4 DEF TelemetryInv, TelemetryTypes, q
  <2>3. r[c].n \in Nat /\ q[c].n \in Nat
    BY <1>1, <1>3, EventNumbers
  <2>4. InLanes(flight, c) \in Nat
    <3>1. PICK l \in Lanes : TRUE
      BY DEF Lanes
    <3>2. QED BY <3>1, FlightChange DEF TelemetryInv, TelemetryTypes
  <2>5. /\ reported'[c] = reported[c] + IF c = b THEN 1 ELSE 0
        /\ gone'[c] = gone[c] + IF c = b /\ r = q THEN 1 ELSE 0
    BY <1>4, BooksAreNumbers DEF TelemetryInv, TelemetryTypes
  <2>6. r[c].n = q[c].n + IF c = b /\ r # q THEN 1 ELSE 0
    BY <1>3, <2>3
  <2>7. InLanes(flight', c) = InLanes(flight, c) /\ issue' = issue /\ twice' = twice
    BY <1>4
  <2>8. /\ reported[c] \in Nat /\ twice[c] \in Nat /\ gone[c] \in Nat /\ issue[c].total \in Nat
        /\ reported[c] + twice[c]
               = issue[c].total + gone[c] + InQueues(pending, c) + InLanes(flight, c)
    BY BooksAreNumbers
  <2>9. reported'[c] + twice'[c]
               = issue'[c].total + gone'[c] + InQueues(pending', c) + InLanes(flight', c)
    BY <2>1, <2>2, <2>3, <2>4, <2>5, <2>6, <2>7, <2>8
  <2>10. QED BY <2>9 DEF InQueues, InLanes
<1>8. OccurrencesAddUp'
  BY <1>7 DEF OccurrencesAddUp, InQueues, InLanes
<1>9. QED BY <1>5, <1>6, <1>8 DEF TelemetryInv

(* How the books change when a queue, a lane and the counters do. *)
LEMMA BooksStay ==
  ASSUME TelemetryInv, TelemetryTypes', \A c \in Bugs : issue'[c].total \in Nat,
         NEW i \in Sites, NEW l \in Lanes,
         \A j \in Sites \ {i} : pending'[j] = pending[j],
         \A j \in Sites, m \in Lanes : <<j, m>> # <<i, l>> => flight'[j][m].of = flight[j][m].of,
         reported' = reported,
         \A c \in Bugs :
             issue'[c].total + gone'[c] + pending'[i][c].n + flight'[i][l].of[c].n + twice[c]
           = issue[c].total + gone[c] + pending[i][c].n + flight[i][l].of[c].n + twice'[c]
  PROVE  OccurrencesAddUp'
<1>1. ASSUME NEW c \in Bugs
      PROVE  (reported[c] + twice[c]
                = issue[c].total + gone[c] + InQueues(pending, c) + InLanes(flight, c))'
  <2>1. /\ InQueues(pending, c) \in Nat /\ InQueues(pending', c) \in Nat
        /\ InQueues(pending', c) = InQueues(pending, c) - pending[i][c].n + pending'[i][c].n
    BY QueuesChange DEF TelemetryInv, TelemetryTypes
  <2>2. /\ InLanes(flight, c) \in Nat /\ InLanes(flight', c) \in Nat
        /\ InLanes(flight', c)
              = InLanes(flight, c) - flight[i][l].of[c].n + flight'[i][l].of[c].n
    BY FlightChange DEF TelemetryInv, TelemetryTypes
  <2>3. /\ pending[i][c].n \in Nat /\ pending'[i][c].n \in Nat
        /\ flight[i][l].of[c].n \in Nat /\ flight'[i][l].of[c].n \in Nat
    BY EventNumbers DEF TelemetryInv, TelemetryTypes, Flight
  <2>4. gone'[c] \in Nat /\ twice'[c] \in Nat /\ issue'[c].total \in Nat
    BY DEF TelemetryTypes
  <2>5. /\ reported[c] \in Nat /\ twice[c] \in Nat /\ gone[c] \in Nat /\ issue[c].total \in Nat
        /\ reported[c] + twice[c]
               = issue[c].total + gone[c] + InQueues(pending, c) + InLanes(flight, c)
    BY BooksAreNumbers
  <2>6. issue'[c].total + gone'[c] + pending'[i][c].n + flight'[i][l].of[c].n + twice[c]
           = issue[c].total + gone[c] + pending[i][c].n + flight[i][l].of[c].n + twice'[c]
    OBVIOUS
  <2>7. reported'[c] = reported[c]
    OBVIOUS
  <2>8. reported'[c] + twice'[c]
               = issue'[c].total + gone'[c] + InQueues(pending', c) + InLanes(flight', c)
    BY <2>1, <2>2, <2>3, <2>4, <2>5, <2>6, <2>7
  <2>9. QED BY <2>8 DEF InQueues, InLanes
<1>2. QED BY <1>1 DEF OccurrencesAddUp, InQueues, InLanes

LEMMA TablesStay ==
  ASSUME TelemetryInv, UNCHANGED <<issue, alerts, told, quiet>>
  PROVE  Tables' \in Tidy /\ \A c \in Bugs : issue'[c].total \in Nat
  BY BooksAreNumbers DEF TelemetryInv, Tables

LEMMA FlushStep ==
  ASSUME TelemetryInv, NEW i \in Sites, Flush(i) PROVE TelemetryInv'
<1> DEFINE f == [at |-> "asked", of |-> pending[i]]
<1>1. /\ flight' = [flight EXCEPT ![i]["sender"] = f]
      /\ pending' = [pending EXCEPT ![i] = NoEvents]
      /\ UNCHANGED <<closing, reported, twice, gone>> /\ UNCHANGED <<issue, alerts, told, quiet>>
  BY DEF Flush
<1>2. "sender" \in Lanes /\ f \in Flight /\ pending[i] \in Batch
  BY DEF Lanes, TelemetryInv, TelemetryTypes, Flight
<1>3. flight[i]["sender"].of = NoEvents
  BY <1>2 DEF Flush, TelemetryInv, LanesInUse
<1>4. /\ flight' \in [Sites -> [Lanes -> Flight]]
      /\ \A j \in Sites, m \in Lanes :
           flight'[j][m] = IF <<j, m>> = <<i, "sender">> THEN f ELSE flight[j][m]
  BY <1>1, <1>2 DEF TelemetryInv, TelemetryTypes
<1>5. TelemetryTypes'
  BY <1>1, <1>4, NoEventsIs DEF TelemetryInv, TelemetryTypes
<1>6. LanesInUse'
  BY <1>1, <1>4 DEF TelemetryInv, LanesInUse, Lanes
<1>7. Tables' \in Tidy /\ \A c \in Bugs : issue'[c].total \in Nat
  BY <1>1, TablesStay
<1>8. ASSUME NEW c \in Bugs
      PROVE  issue'[c].total + gone'[c] + pending'[i][c].n + flight'[i]["sender"].of[c].n + twice[c]
           = issue[c].total + gone[c] + pending[i][c].n + flight[i]["sender"].of[c].n + twice'[c]
  <2>1. pending'[i] = NoEvents /\ NoEvents[c].n = 0
    BY <1>1, NoEventsIs DEF TelemetryInv, TelemetryTypes
  <2>2. flight'[i]["sender"].of = pending[i]
    BY <1>2, <1>4
  <2>3. pending[i][c].n \in Nat
    BY <1>2, EventNumbers
  <2>4. QED BY <1>1, <1>3, <2>1, <2>2, <2>3, BooksAreNumbers
<1>9. OccurrencesAddUp'
  <2>1. \A j \in Sites \ {i} : pending'[j] = pending[j]
    BY <1>1 DEF TelemetryInv, TelemetryTypes
  <2>2. \A j \in Sites, m \in Lanes : <<j, m>> # <<i, "sender">> => flight'[j][m].of = flight[j][m].of
    BY <1>4
  <2>3. QED BY <1>1, <1>2, <1>5, <1>7, <1>8, <2>1, <2>2, BooksStay
<1>10. QED BY <1>5, <1>6, <1>7, <1>9 DEF TelemetryInv

LEMMA AcloseStep ==
  ASSUME TelemetryInv, NEW i \in Sites, Aclose(i) PROVE TelemetryInv'
<1> DEFINE cut == flight[i]["sender"]
           f == [at |-> "asked", of |-> pending[i]]
           left == [l \in Lanes |->
               CASE l = "sender" /\ cut.at = "asked" -> [cut EXCEPT !.at = "unheard"]
                 [] l = "sender" /\ cut.at # "asked" -> cut
                 [] l = "aclose" /\ Named(pending[i]) = {} -> NoFlight
                 [] OTHER -> f]
<1>1. /\ flight' = [flight EXCEPT ![i] = left]
      /\ pending' = [pending EXCEPT ![i] = NoEvents]
      /\ closing' = closing \cup {i} /\ i \notin closing
      /\ UNCHANGED <<reported, twice, gone>> /\ UNCHANGED <<issue, alerts, told, quiet>>
  BY DEF Aclose
<1>2. /\ f \in Flight /\ pending[i] \in Batch /\ cut \in Flight
      /\ NoFlight \in Flight /\ NoFlight.of = NoEvents
  BY NoEventsIs DEF Lanes, TelemetryInv, TelemetryTypes, Flight, NoFlight
<1>3. /\ left["sender"] \in Flight /\ left["sender"].of = cut.of
      /\ left["sender"].at = "none" => cut.at = "none"
  <2>1. CASE cut.at = "asked"
    <3>1. left["sender"] = [cut EXCEPT !.at = "unheard"]
      BY <2>1 DEF Lanes
    <3> HIDE DEF left, cut
    <3>2. QED BY <1>2, <2>1, <3>1 DEF Flight
  <2>2. CASE cut.at # "asked"
    <3>1. left["sender"] = cut
      BY <2>2 DEF Lanes
    <3> HIDE DEF left, cut
    <3>2. QED BY <1>2, <3>1
  <2>3. QED BY <2>1, <2>2
<1>4. left["aclose"] = IF Named(pending[i]) = {} THEN NoFlight ELSE f
  BY DEF Lanes
<1>5. ASSUME NEW c \in Bugs PROVE left["aclose"].of[c].n = pending[i][c].n
  <2>1. pending[i][c].n \in Nat
    BY <1>2, EventNumbers
  <2>2. CASE Named(pending[i]) = {}
    <3>1. pending[i][c].n = 0
      BY <2>1, <2>2 DEF Named
    <3>2. QED BY <1>2, <1>4, <2>2, <3>1, NoEventsIs
  <2>3. CASE Named(pending[i]) # {}
    BY <1>4, <2>3
  <2>4. QED BY <2>2, <2>3
<1>6. left \in [Lanes -> Flight] /\ \A l \in Lanes : l = "sender" \/ l = "aclose"
  <2>1. left = [l \in Lanes |-> left[l]]
    OBVIOUS
  <2>2. left["aclose"] \in Flight
    BY <1>2, <1>4
  <2>3. \A l \in Lanes : l = "sender" \/ l = "aclose"
    BY DEF Lanes
  <2> HIDE DEF left
  <2>4. QED BY <1>3, <2>1, <2>2, <2>3
<1> HIDE DEF left, cut
<1>7. /\ flight' \in [Sites -> [Lanes -> Flight]] /\ flight'[i] = left
      /\ \A j \in Sites \ {i} : flight'[j] = flight[j]
  BY <1>1, <1>6 DEF TelemetryInv, TelemetryTypes
<1>8. TelemetryTypes'
  BY <1>1, <1>7, NoEventsIs DEF TelemetryInv, TelemetryTypes
<1>9. \A l \in Lanes : left[l].at = "none" => left[l].of = NoEvents
  <2>1. left["sender"].at = "none" => left["sender"].of = NoEvents
    BY <1>3 DEF TelemetryInv, LanesInUse, cut, Lanes
  <2>2. left["aclose"].at = "none" => left["aclose"].of = NoEvents
    BY <1>2, <1>4
  <2>3. QED BY <1>6, <2>1, <2>2
<1>10. LanesInUse'
  BY <1>1, <1>7, <1>9 DEF TelemetryInv, LanesInUse
<1>11. Tables' \in Tidy /\ \A c \in Bugs : issue'[c].total \in Nat
  BY <1>1, TablesStay
<1>12. ASSUME NEW c \in Bugs
       PROVE  issue'[c].total + gone'[c] + pending'[i][c].n + flight'[i]["aclose"].of[c].n + twice[c]
           = issue[c].total + gone[c] + pending[i][c].n + flight[i]["aclose"].of[c].n + twice'[c]
  <2>1. pending'[i][c].n = 0
    BY <1>1, NoEventsIs DEF TelemetryInv, TelemetryTypes
  <2>2. flight'[i]["aclose"].of[c].n = pending[i][c].n /\ pending[i][c].n \in Nat
    BY <1>2, <1>5, <1>7, EventNumbers
  <2>3. flight[i]["aclose"].of[c].n = 0
    <3>1. flight[i]["aclose"].of = NoEvents
      BY <1>1 DEF TelemetryInv, LanesInUse, Lanes
    <3>2. QED BY <3>1, NoEventsIs
  <2>4. QED BY <1>1, <2>1, <2>2, <2>3, BooksAreNumbers
<1>13. OccurrencesAddUp'
  <2>1. \A j \in Sites \ {i} : pending'[j] = pending[j]
    BY <1>1 DEF TelemetryInv, TelemetryTypes
  <2>2. \A j \in Sites, m \in Lanes : <<j, m>> # <<i, "aclose">> => flight'[j][m].of = flight[j][m].of
    BY <1>3, <1>6, <1>7 DEF cut
  <2>3. "aclose" \in Lanes
    BY DEF Lanes
  <2>4. QED BY <1>1, <1>8, <1>11, <1>12, <2>1, <2>2, <2>3, BooksStay
<1>14. QED BY <1>8, <1>10, <1>11, <1>13 DEF TelemetryInv

LEMMA StartsAgainStep ==
  ASSUME TelemetryInv, NEW i \in Sites, StartsAgain(i) PROVE TelemetryInv'
<1>1. /\ gone' = Plus(gone, Counts(pending[i]))
      /\ pending' = [pending EXCEPT ![i] = NoEvents]
      /\ closing' = closing \ {i} /\ \A l \in Lanes : flight[i][l].at = "none"
      /\ UNCHANGED <<flight, reported, twice>> /\ UNCHANGED <<issue, alerts, told, quiet>>
  BY DEF StartsAgain
<1>2. pending[i] \in Batch /\ gone \in [Bugs -> Nat]
  BY DEF TelemetryInv, TelemetryTypes
<1>3. gone' \in [Bugs -> Nat] /\ \A c \in Bugs : gone'[c] = gone[c] + pending[i][c].n
  BY <1>1, <1>2, EventNumbers DEF Plus, Counts
<1>4. TelemetryTypes'
  BY <1>1, <1>3, NoEventsIs DEF TelemetryInv, TelemetryTypes
<1>5. LanesInUse'
  BY <1>1 DEF TelemetryInv, LanesInUse, Lanes
<1>6. Tables' \in Tidy /\ \A c \in Bugs : issue'[c].total \in Nat
  BY <1>1, TablesStay
<1>7. "sender" \in Lanes
  BY DEF Lanes
<1>8. ASSUME NEW c \in Bugs
      PROVE  issue'[c].total + gone'[c] + pending'[i][c].n + flight'[i]["sender"].of[c].n + twice[c]
           = issue[c].total + gone[c] + pending[i][c].n + flight[i]["sender"].of[c].n + twice'[c]
  <2>1. pending'[i][c].n = 0
    BY <1>1, NoEventsIs DEF TelemetryInv, TelemetryTypes
  <2>2. flight[i]["sender"].of[c].n \in Nat /\ pending[i][c].n \in Nat /\ gone[c] \in Nat
    BY <1>2, <1>7, EventNumbers DEF TelemetryInv, TelemetryTypes, Flight
  <2>3. flight' = flight /\ issue' = issue /\ twice' = twice
    BY <1>1
  <2>4. QED BY <1>3, <2>1, <2>2, <2>3, BooksAreNumbers
<1>9. OccurrencesAddUp'
  <2>1. \A j \in Sites \ {i} : pending'[j] = pending[j]
    BY <1>1 DEF TelemetryInv, TelemetryTypes
  <2>2. \A j \in Sites, m \in Lanes : <<j, m>> # <<i, "sender">> => flight'[j][m].of = flight[j][m].of
    BY <1>1
  <2>3. QED BY <1>1, <1>4, <1>6, <1>7, <1>8, <2>1, <2>2, BooksStay
<1>10. QED BY <1>4, <1>5, <1>6, <1>9 DEF TelemetryInv

(* A lane that has landed holds nothing. *)
LEMMA LandedIs ==
  ASSUME TelemetryInv, NEW i \in Sites, NEW l \in Lanes, Landed(i, l), closing' = closing
  PROVE  /\ flight' \in [Sites -> [Lanes -> Flight]] /\ LanesInUse'
         /\ \A c \in Bugs : flight'[i][l].of[c].n = 0
         /\ \A j \in Sites, m \in Lanes :
              <<j, m>> # <<i, l>> => flight'[j][m].of = flight[j][m].of
         /\ flight[i][l] \in Flight /\ flight[i][l].of \in Batch
<1>1. NoFlight \in Flight /\ NoFlight.at = "none" /\ NoFlight.of = NoEvents
  BY NoEventsIs DEF NoFlight, Flight
<1>2. /\ flight' \in [Sites -> [Lanes -> Flight]]
      /\ \A j \in Sites, m \in Lanes :
           flight'[j][m] = IF <<j, m>> = <<i, l>> THEN NoFlight ELSE flight[j][m]
  BY <1>1 DEF Landed, TelemetryInv, TelemetryTypes
<1>3. LanesInUse'
  BY <1>1, <1>2 DEF TelemetryInv, LanesInUse, Lanes
<1>4. flight[i][l] \in Flight /\ flight[i][l].of \in Batch
  BY DEF TelemetryInv, TelemetryTypes, Flight
<1>5. \A c \in Bugs : flight'[i][l].of[c].n = 0
  BY <1>1, <1>2, NoEventsIs
<1>6. QED BY <1>2, <1>3, <1>4, <1>5

LEMMA StoredIs ==
  ASSUME NEW s \in Tidy, Stored(s)
  PROVE  Tables' \in Tidy /\ issue' = s.issue /\ \A c \in Bugs : s.issue[c].total \in Nat
<1>1. /\ s \in Store /\ Announced(s) /\ \A b \in Bugs : ~s.issue[b].known => s.issue[b].total = 0
  BY DEF Tidy
<1>2. /\ Tables'.issue = s.issue /\ Tables'.alerts = s.alerts /\ Tables'.told = s.told
      /\ Tables'.quiet = s.quiet /\ Tables'.gone = [b \in Bugs |-> 0]
      /\ Tables' = [issue |-> s.issue, alerts |-> s.alerts, told |-> s.told, quiet |-> s.quiet,
                    gone |-> [b \in Bugs |-> 0]]
  BY DEF Stored, Tables
<1>3. Tables' \in Store
  BY <1>1, <1>2 DEF Store
<1>4. Announced(Tables')
  BY <1>1, <1>2 DEF Announced
<1>5. Tables' \in Tidy
  BY <1>1, <1>2, <1>3, <1>4 DEF Tidy
<1>6. \A c \in Bugs : s.issue[c].total \in Nat
  BY <1>1 DEF Store, Issue
<1>7. QED BY <1>5, <1>6 DEF Stored

LEMMA SharesIs ==
  ASSUME NEW of \in Batch, NEW c \in Bugs
  PROVE  /\ Accepted(of)[c] \in Nat /\ Invalid(of)[c] \in Nat
         /\ Accepted(of)[c] + Invalid(of)[c] = of[c].n
  BY EventNumbers DEF Accepted, Invalid

LEMMA IngestStep ==
  ASSUME TelemetryInv, NEW i \in Sites, NEW l \in Lanes, Ingest(i, l) PROVE TelemetryInv'
<1> DEFINE of == flight[i][l].of
<1>1. PICK order \in SetToSeqs(Named(of)) :
           /\ Stored(Ingested(of, order))
           /\ gone' = Plus(gone, Plus(Ingested(of, order).gone, Invalid(of)))
  BY DEF Ingest
<1>2. Landed(i, l) /\ UNCHANGED <<pending, closing, reported, twice>>
  BY DEF Ingest
<1> DEFINE s == Ingested(of, order)
<1>3. of \in Batch
  BY <1>2, LandedIs
<1>4. /\ s \in Tidy
      /\ \A c \in Bugs : s.issue[c].total + s.gone[c] = issue[c].total + Accepted(of)[c]
  BY <1>3, IngestedIs DEF TelemetryInv
<1> HIDE DEF s
<1>5. Tables' \in Tidy /\ issue' = s.issue /\ \A c \in Bugs : s.issue[c].total \in Nat
  BY <1>1, <1>4, StoredIs DEF s
<1>6. \A c \in Bugs : s.gone[c] \in Nat /\ gone[c] \in Nat
  BY <1>4 DEF Tidy, Store, TelemetryInv, TelemetryTypes
<1> HIDE DEF of
<1>7. /\ gone' \in [Bugs -> Nat]
      /\ \A c \in Bugs : gone'[c] = gone[c] + (s.gone[c] + Invalid(of)[c])
  BY <1>1, <1>3, <1>6, SharesIs DEF Plus, s
<1>8. TelemetryTypes' /\ LanesInUse'
  <2>1. flight' \in [Sites -> [Lanes -> Flight]] /\ LanesInUse'
    BY <1>2, LandedIs
  <2>2. QED BY <1>2, <1>7, <2>1 DEF TelemetryInv, TelemetryTypes
<1>9. ASSUME NEW c \in Bugs
      PROVE  issue'[c].total + gone'[c] + pending'[i][c].n + flight'[i][l].of[c].n + twice[c]
           = issue[c].total + gone[c] + pending[i][c].n + flight[i][l].of[c].n + twice'[c]
  <2>1. flight'[i][l].of[c].n = 0
    BY <1>2, LandedIs
  <2>2. flight[i][l].of[c].n = Accepted(of)[c] + Invalid(of)[c]
        /\ Accepted(of)[c] \in Nat /\ Invalid(of)[c] \in Nat
    BY <1>3, SharesIs DEF of
  <2>3. pending[i][c].n \in Nat
    BY EventNumbers DEF TelemetryInv, TelemetryTypes
  <2>4. /\ issue[c].total \in Nat /\ gone[c] \in Nat /\ twice[c] \in Nat /\ s.gone[c] \in Nat
        /\ s.issue[c].total \in Nat
    BY <1>5, <1>6, BooksAreNumbers
  <2>5. pending' = pending /\ twice' = twice /\ issue' = s.issue
    BY <1>2, <1>5
  <2>6. s.issue[c].total + s.gone[c] = issue[c].total + Accepted(of)[c]
    BY <1>4
  <2>7. gone'[c] = gone[c] + (s.gone[c] + Invalid(of)[c])
    BY <1>7
  <2>8. QED BY <2>1, <2>2, <2>3, <2>4, <2>5, <2>6, <2>7
<1>10. OccurrencesAddUp'
  <2>1. \A j \in Sites \ {i} : pending'[j] = pending[j]
    BY <1>2
  <2>2. \A j \in Sites, m \in Lanes : <<j, m>> # <<i, l>> => flight'[j][m].of = flight[j][m].of
    BY <1>2, LandedIs
  <2>3. \A c \in Bugs : issue'[c].total \in Nat
    BY <1>5
  <2>4. QED BY <1>2, <1>8, <1>9, <2>1, <2>2, <2>3, BooksStay
<1>11. QED BY <1>5, <1>8, <1>10 DEF TelemetryInv

(* A post that failed, whether its batch was stored or not. *)
LEMMA FailureStep ==
  ASSUME TelemetryInv, NEW i \in Sites, NEW l \in Lanes, Landed(i, l),
         NEW order \in SetToSeqs(Named(flight[i][l].of)),
         pending' = [pending EXCEPT ![i] = AfterFailure(i, l, order)],
         NEW more \in [Bugs -> Nat], NEW again \in [Bugs -> Nat],
         gone' = Plus(gone, Plus(more, Unkept(i, l, order))),
         twice' = Plus(twice, again),
         Tables' \in Tidy, \A c \in Bugs : issue'[c].total \in Nat,
         \A c \in Bugs : issue'[c].total + more[c] = issue[c].total + again[c],
         UNCHANGED <<closing, reported>>
  PROVE  TelemetryInv'
<1> DEFINE r == AfterFailure(i, l, order)
           u == Unkept(i, l, order)
           of == flight[i][l].of
<1>1. pending[i] \in Batch /\ flight[i][l] \in Flight
  BY DEF TelemetryInv, TelemetryTypes
<1>2. /\ r \in Batch
      /\ \A c \in Bugs : u[c] \in Nat /\ pending[i][c].n + of[c].n = r[c].n + u[c]
  BY <1>1, AfterFailureIs
<1>3. pending' = [pending EXCEPT ![i] = r] /\ gone' = Plus(gone, Plus(more, u))
  OBVIOUS
<1> HIDE DEF r, u, of
<1>4. gone \in [Bugs -> Nat] /\ twice \in [Bugs -> Nat]
  BY DEF TelemetryInv, TelemetryTypes
<1>5. /\ gone' \in [Bugs -> Nat] /\ twice' \in [Bugs -> Nat]
      /\ \A c \in Bugs : gone'[c] = gone[c] + (more[c] + u[c]) /\ twice'[c] = twice[c] + again[c]
  BY <1>2, <1>3, <1>4 DEF Plus
<1>6. TelemetryTypes' /\ LanesInUse'
  <2>1. flight' \in [Sites -> [Lanes -> Flight]] /\ LanesInUse'
    BY LandedIs
  <2>2. QED BY <1>2, <1>3, <1>5, <2>1 DEF TelemetryInv, TelemetryTypes
<1>7. ASSUME NEW c \in Bugs
      PROVE  issue'[c].total + gone'[c] + pending'[i][c].n + flight'[i][l].of[c].n + twice[c]
           = issue[c].total + gone[c] + pending[i][c].n + flight[i][l].of[c].n + twice'[c]
  <2>1. flight'[i][l].of[c].n = 0 /\ flight[i][l].of[c].n = of[c].n
    BY LandedIs DEF of
  <2>2. pending'[i] = r
    BY <1>3 DEF TelemetryInv, TelemetryTypes
  <2>3. r[c].n \in Nat /\ u[c] \in Nat /\ pending[i][c].n + of[c].n = r[c].n + u[c]
    BY <1>2, EventNumbers
  <2>4. pending[i][c].n \in Nat /\ of[c].n \in Nat
    BY <1>1, EventNumbers DEF Flight, of
  <2>5. /\ issue[c].total \in Nat /\ gone[c] \in Nat /\ twice[c] \in Nat /\ issue'[c].total \in Nat
        /\ more[c] \in Nat /\ again[c] \in Nat
    BY BooksAreNumbers
  <2>6. issue'[c].total + more[c] = issue[c].total + again[c]
    OBVIOUS
  <2>7. gone'[c] = gone[c] + (more[c] + u[c]) /\ twice'[c] = twice[c] + again[c]
    BY <1>5
  <2>8. pending'[i][c].n = r[c].n
    BY <2>2
  <2>9. issue'[c].total + gone'[c] + r[c].n + 0 + twice[c]
           = issue[c].total + gone[c] + pending[i][c].n + of[c].n + twice'[c]
    <3> DEFINE x == issue[c].total
               y == issue'[c].total
               p == pending[i][c].n
               o == of[c].n
               k == r[c].n
    <3>1. x \in Nat /\ y \in Nat /\ p \in Nat /\ o \in Nat /\ k \in Nat /\ u[c] \in Nat
          /\ gone[c] \in Nat /\ twice[c] \in Nat /\ more[c] \in Nat /\ again[c] \in Nat
      BY <2>3, <2>4, <2>5
    <3>2. y + more[c] = x + again[c] /\ p + o = k + u[c]
      BY <2>3, <2>6
    <3> HIDE DEF x, y, p, o, k
    <3>3. y + (gone[c] + (more[c] + u[c])) + k + 0 + twice[c]
            = x + gone[c] + p + o + (twice[c] + again[c])
      BY <3>1, <3>2
    <3>4. QED BY <2>7, <3>3 DEF x, y, p, o, k
  <2>10. QED BY <2>1, <2>8, <2>9
<1>8. OccurrencesAddUp'
  <2>1. \A j \in Sites \ {i} : pending'[j] = pending[j]
    BY <1>3 DEF TelemetryInv, TelemetryTypes
  <2>2. \A j \in Sites, m \in Lanes : <<j, m>> # <<i, l>> => flight'[j][m].of = flight[j][m].of
    BY LandedIs
  <2>3. QED BY <1>6, <1>7, <2>1, <2>2, BooksStay
<1>9. QED BY <1>6, <1>8 DEF TelemetryInv

LEMMA AnswerLostStep ==
  ASSUME TelemetryInv, NEW i \in Sites, NEW l \in Lanes, AnswerLost(i, l) PROVE TelemetryInv'
<1> DEFINE of == flight[i][l].of
<1>1. PICK order \in SetToSeqs(Named(of)) :
           /\ Stored(Ingested(of, order))
           /\ gone' = Plus(gone, Plus(Ingested(of, order).gone, Unkept(i, l, order)))
           /\ pending' = [pending EXCEPT ![i] = AfterFailure(i, l, order)]
  BY DEF AnswerLost
<1>2. Landed(i, l) /\ UNCHANGED <<closing, reported>> /\ twice' = Plus(twice, Accepted(of))
  BY DEF AnswerLost
<1> DEFINE s == Ingested(of, order)
<1>3. of \in Batch
  BY <1>2, LandedIs
<1>4. /\ s \in Tidy
      /\ \A c \in Bugs : s.issue[c].total + s.gone[c] = issue[c].total + Accepted(of)[c]
  BY <1>3, IngestedIs DEF TelemetryInv
<1>5. Tables' \in Tidy /\ issue' = s.issue /\ \A c \in Bugs : s.issue[c].total \in Nat
  BY <1>1, <1>4, StoredIs
<1>6. s.gone \in [Bugs -> Nat]
  BY <1>4 DEF Tidy, Store
<1>7. Accepted(of) \in [Bugs -> Nat]
  <2>1. \A c \in Bugs : Accepted(of)[c] \in Nat
    BY <1>3, SharesIs
  <2>2. QED BY <2>1 DEF Accepted
<1>8. /\ \A c \in Bugs : issue'[c].total \in Nat
      /\ \A c \in Bugs : issue'[c].total + s.gone[c] = issue[c].total + Accepted(of)[c]
  BY <1>4, <1>5
<1>9. QED BY <1>1, <1>2, <1>5, <1>6, <1>7, <1>8, FailureStep

(* More alerts, the tables as they are. *)
LEMMA MoreAlerts ==
  ASSUME Tables \in Tidy, UNCHANGED <<issue, told, quiet>>,
         alerts' \in Seq(Bugs), ToSet(alerts) \subseteq ToSet(alerts')
  PROVE  Tables' \in Tidy
<1>1. Tables' \in Store
  BY DEF Tidy, Store, Tables
<1>2. Announced(Tables)
  BY DEF Tidy
<1>3. Announced(Tables')
  BY <1>2 DEF Announced, Tables
<1>4. \A b \in Bugs : ~Tables'.issue[b].known => Tables'.issue[b].total = 0
  BY DEF Tidy, Tables
<1>5. QED BY <1>1, <1>3, <1>4 DEF Tidy

LEMMA NotStoredStep ==
  ASSUME TelemetryInv, NEW i \in Sites, NEW l \in Lanes, NotStored(i, l) PROVE TelemetryInv'
<1> DEFINE of == flight[i][l].of
           none == [b \in Bugs |-> 0]
<1>1. PICK order \in SetToSeqs(Named(of)) :
           /\ pending' = [pending EXCEPT ![i] = AfterFailure(i, l, order)]
           /\ gone' = Plus(gone, Unkept(i, l, order))
           /\ alerts' \in {alerts, Ingested(of, order).alerts}
  BY DEF NotStored
<1>2. Landed(i, l) /\ UNCHANGED <<closing, reported, twice>> /\ UNCHANGED <<issue, told, quiet>>
  BY DEF NotStored
<1>3. of \in Batch /\ pending[i] \in Batch /\ flight[i][l] \in Flight
  BY <1>2, LandedIs DEF TelemetryInv, TelemetryTypes
<1>4. alerts \in Seq(Bugs) /\ Tables \in Tidy
  BY DEF TelemetryInv, Tidy, Store, Tables
<1>5. Ingested(of, order).alerts \in Seq(Bugs)
      /\ ToSet(alerts) \subseteq ToSet(Ingested(of, order).alerts)
  BY <1>3, <1>4, IngestedIs DEF Tidy, Store
<1>6. Tables' \in Tidy
  BY <1>1, <1>2, <1>4, <1>5, MoreAlerts
<1>7. none \in [Bugs -> Nat] /\ \A c \in Bugs : none[c] = 0
  OBVIOUS
<1>8. \A c \in Bugs : Unkept(i, l, order)[c] \in Nat
  BY <1>3, AfterFailureIs
<1> HIDE DEF none
<1>9. /\ gone' = Plus(gone, Plus(none, Unkept(i, l, order)))
      /\ twice' = Plus(twice, none)
  <2>1. \A c \in Bugs : gone[c] \in Nat /\ twice[c] \in Nat
    BY DEF TelemetryInv, TelemetryTypes
  <2>2. \A c \in Bugs : gone[c] + Unkept(i, l, order)[c] = gone[c] + (none[c] + Unkept(i, l, order)[c])
    BY <1>7, <1>8, <2>1
  <2>3. \A c \in Bugs : Plus(none, Unkept(i, l, order))[c] = none[c] + Unkept(i, l, order)[c]
    BY DEF Plus
  <2>4. Plus(gone, Unkept(i, l, order)) = Plus(gone, Plus(none, Unkept(i, l, order)))
    BY <2>2, <2>3 DEF Plus
  <2>5. twice = [c \in Bugs |-> twice[c]] /\ \A c \in Bugs : twice[c] + none[c] = twice[c]
    BY <1>7, <2>1 DEF TelemetryInv, TelemetryTypes
  <2>6. twice = Plus(twice, none)
    BY <2>5 DEF Plus
  <2>7. QED BY <1>1, <1>2, <2>4, <2>6
<1>10. /\ \A c \in Bugs : issue'[c].total \in Nat
       /\ \A c \in Bugs : issue'[c].total + none[c] = issue[c].total + none[c]
  BY <1>2, BooksAreNumbers
<1>11. QED BY <1>1, <1>2, <1>6, <1>7, <1>9, <1>10, FailureStep

(* Steps of the server alone. *)
LEMMA BooksUntouched ==
  ASSUME TelemetryInv, UNCHANGED <<pending, flight, closing, reported, twice, gone>>,
         Tables' \in Tidy, \A c \in Bugs : issue'[c].total = issue[c].total
  PROVE  TelemetryInv'
<1>1. TelemetryTypes' /\ LanesInUse'
  BY DEF TelemetryInv, TelemetryTypes, LanesInUse
<1>2. OccurrencesAddUp'
  BY AddUp DEF TelemetryInv, OccurrencesAddUp
<1>3. QED BY <1>1, <1>2 DEF TelemetryInv

LEMMA TailIs ==
  ASSUME NEW S, NEW s \in Seq(S), s # <<>>
  PROVE  Head(s) \in S /\ Tail(s) \in Seq(S) /\ ToSet(s) = {Head(s)} \cup ToSet(Tail(s))
<1>1. /\ Len(s) \in Nat \ {0} /\ DOMAIN s = 1 .. Len(s) /\ s \in [1 .. Len(s) -> S]
      /\ Head(s) = s[1] /\ Tail(s) \in Seq(S) /\ Len(Tail(s)) = Len(s) - 1
      /\ DOMAIN Tail(s) = 1 .. Len(s) - 1
      /\ \A k \in 1 .. Len(s) - 1 : Tail(s)[k] = s[k + 1]
  OBVIOUS
<1>2. Head(s) \in S /\ Head(s) \in ToSet(s)
  BY <1>1 DEF ToSet
<1>3. ToSet(Tail(s)) \subseteq ToSet(s)
  <2>1. \A k \in 1 .. Len(s) - 1 : k + 1 \in 1 .. Len(s)
    BY <1>1
  <2>2. QED BY <1>1, <2>1 DEF ToSet
<1>4. ToSet(s) \subseteq {Head(s)} \cup ToSet(Tail(s))
  <2>1. \A k \in 1 .. Len(s) : k = 1 \/ (k - 1 \in 1 .. Len(s) - 1 /\ (k - 1) + 1 = k)
    BY <1>1
  <2> SUFFICES ASSUME NEW k \in 1 .. Len(s) PROVE s[k] \in {Head(s)} \cup ToSet(Tail(s))
    BY <1>1 DEF ToSet
  <2>2. CASE k = 1
    BY <1>1, <2>2
  <2>3. CASE k # 1
    <3>1. k - 1 \in DOMAIN Tail(s) /\ s[k] = Tail(s)[k - 1]
      BY <1>1, <2>1, <2>3
    <3>2. QED BY <3>1 DEF ToSet
  <2>4. QED BY <2>2, <2>3
<1>5. QED BY <1>1, <1>2, <1>3, <1>4

LEMMA TablesAre ==
  ASSUME TelemetryInv
  PROVE  /\ issue \in [Bugs -> Issue] /\ alerts \in Seq(Bugs)
         /\ told \in SUBSET Bugs /\ quiet \in SUBSET Bugs
         /\ \A b \in Bugs : issue[b].known =>
               issue[b].resolved \/ b \in told \cup quiet \cup ToSet(alerts)
         /\ \A b \in Bugs : ~issue[b].known => issue[b].total = 0
  BY DEF TelemetryInv, Tidy, Store, Announced, Tables

LEMMA TablesTidy ==
  ASSUME issue' \in [Bugs -> Issue], alerts' \in Seq(Bugs),
         told' \in SUBSET Bugs, quiet' \in SUBSET Bugs,
         \A b \in Bugs : issue'[b].known =>
               issue'[b].resolved \/ b \in told' \cup quiet' \cup ToSet(alerts'),
         \A b \in Bugs : ~issue'[b].known => issue'[b].total = 0
  PROVE  Tables' \in Tidy
<1>1. Tables' \in Store
  BY DEF Store, Tables
<1>2. QED BY <1>1 DEF Tidy, Announced, Tables

LEMMA ServerSteps ==
  ASSUME TelemetryInv, SendAlert \/ ServerRestart PROVE TelemetryInv'
<1>1. UNCHANGED <<pending, flight, closing, reported, twice, gone>> /\ UNCHANGED issue
  BY DEF SendAlert, ServerRestart
<1>2. alerts \in Seq(Bugs) /\ alerts # <<>>
  BY TablesAre DEF SendAlert, ServerRestart
<1>3. Tables' \in Tidy
  <2>1. CASE SendAlert
    <3>1. /\ Head(alerts) \in Bugs /\ Tail(alerts) \in Seq(Bugs)
          /\ ToSet(alerts) = {Head(alerts)} \cup ToSet(Tail(alerts))
      BY <1>2, TailIs
    <3>2. /\ alerts' = Tail(alerts) /\ told \subseteq told' /\ quiet \subseteq quiet'
          /\ Head(alerts) \in told' \cup quiet'
          /\ told' \in SUBSET Bugs /\ quiet' \in SUBSET Bugs
      BY <2>1, <3>1, TablesAre DEF SendAlert
    <3>3. \A b \in Bugs : issue'[b].known =>
               issue'[b].resolved \/ b \in told' \cup quiet' \cup ToSet(alerts')
      BY <1>1, <3>1, <3>2, TablesAre
    <3>4. QED BY <1>1, <3>1, <3>2, <3>3, TablesAre, TablesTidy
  <2>2. CASE ServerRestart
    <3>1. alerts' = <<>> /\ quiet' = quiet \cup ToSet(alerts) /\ told' = told
      BY <2>2 DEF ServerRestart
    <3>2. ToSet(alerts) \in SUBSET Bugs /\ alerts' \in Seq(Bugs)
      BY <1>2, <3>1 DEF ToSet
    <3>3. \A b \in Bugs : issue'[b].known =>
               issue'[b].resolved \/ b \in told' \cup quiet' \cup ToSet(alerts')
      BY <1>1, <3>1, TablesAre
    <3>4. QED BY <1>1, <3>1, <3>2, <3>3, TablesAre, TablesTidy
  <2>3. QED BY <2>1, <2>2
<1>4. QED BY <1>1, <1>3, BooksUntouched

LEMMA ToggleStep ==
  ASSUME TelemetryInv, NEW b \in Bugs, ToggleIssue(b) PROVE TelemetryInv'
<1>1. /\ UNCHANGED <<pending, flight, closing, reported, twice, gone>> /\ alerts' = alerts
      /\ issue' = [issue EXCEPT ![b].resolved = ~@] /\ issue[b].known
      /\ told' = told \ {b}
      /\ quiet' = IF issue[b].resolved THEN quiet \cup {b} ELSE quiet \ {b}
  BY DEF ToggleIssue
<1>2. issue \in [Bugs -> Issue] /\ issue[b] \in Issue
  BY TablesAre
<1> DEFINE turned == [issue[b] EXCEPT !.resolved = ~@]
<1>3. /\ turned \in Issue /\ turned.known = issue[b].known /\ turned.total = issue[b].total
      /\ turned.resolved = ~issue[b].resolved
  BY <1>2 DEF Issue
<1>4. \A c \in Bugs : issue'[c] = IF c = b THEN turned ELSE issue[c]
  BY <1>1, <1>2
<1> HIDE DEF turned
<1>5. issue' \in [Bugs -> Issue]
  <2>1. issue' = [c \in Bugs |-> issue'[c]]
    BY <1>1, <1>2
  <2>2. \A c \in Bugs : issue'[c] \in Issue
    BY <1>2, <1>3, <1>4
  <2>3. QED BY <2>1, <2>2
<1>6. told' \in SUBSET Bugs /\ quiet' \in SUBSET Bugs
  BY <1>1, TablesAre
<1>7. ASSUME NEW c \in Bugs, issue'[c].known
      PROVE  issue'[c].resolved \/ c \in told' \cup quiet' \cup ToSet(alerts')
  <2>1. CASE c = b
    <3>1. CASE issue[b].resolved
      BY <1>1, <2>1, <3>1
    <3>2. CASE ~issue[b].resolved
      BY <1>3, <1>4, <2>1, <3>2
    <3>3. QED BY <3>1, <3>2
  <2>2. CASE c # b
    <3>1. issue[c].resolved \/ c \in told \cup quiet \cup ToSet(alerts)
      BY <1>4, <1>7, <2>2, TablesAre
    <3>2. c \in told => c \in told'
      BY <1>1, <2>2
    <3>3. c \in quiet => c \in quiet'
      BY <1>1, <2>2
    <3>4. QED BY <1>1, <1>4, <2>2, <3>1, <3>2, <3>3
  <2>3. QED BY <2>1, <2>2
<1>8. \A c \in Bugs : issue'[c].total = issue[c].total /\ (issue'[c].known <=> issue[c].known)
  BY <1>3, <1>4
<1>9. Tables' \in Tidy
  <2>1. alerts' \in Seq(Bugs) /\ \A c \in Bugs : ~issue'[c].known => issue'[c].total = 0
    BY <1>1, <1>8, TablesAre
  <2>2. QED BY <1>5, <1>6, <1>7, <2>1, TablesTidy
<1>10. QED BY <1>1, <1>8, <1>9, BooksUntouched

LEMMA TelemetryStep == TelemetryInv /\ [TelemetryNext]_telemetryVars => TelemetryInv'
<1> SUFFICES ASSUME TelemetryInv, [TelemetryNext]_telemetryVars PROVE TelemetryInv'
  OBVIOUS
<1>1. CASE UNCHANGED telemetryVars
  <2>1. UNCHANGED <<pending, flight, closing, reported, twice, gone>>
        /\ UNCHANGED <<issue, alerts, told, quiet>>
    BY <1>1 DEF telemetryVars
  <2>2. QED BY <2>1, TablesStay, BooksUntouched
<1>2. ASSUME NEW i \in Sites, NEW b \in Bugs, Report(i, b) PROVE TelemetryInv'
  BY <1>2, ReportStep
<1>3. ASSUME NEW i \in Sites, Flush(i) \/ Aclose(i) \/ StartsAgain(i) PROVE TelemetryInv'
  BY <1>3, FlushStep, AcloseStep, StartsAgainStep
<1>4. ASSUME NEW i \in Sites, NEW l \in Lanes, Ingest(i, l) \/ AnswerLost(i, l) \/ NotStored(i, l)
      PROVE  TelemetryInv'
  BY <1>4, IngestStep, AnswerLostStep, NotStoredStep
<1>5. ASSUME NEW b \in Bugs, ToggleIssue(b) PROVE TelemetryInv'
  BY <1>5, ToggleStep
<1>6. CASE SendAlert \/ ServerRestart
  BY <1>6, ServerSteps
<1>7. QED BY <1>1, <1>2, <1>3, <1>4, <1>5, <1>6 DEF TelemetryNext

-----------------------------------------------------------------------------
(* What users do, side by side.                                            *)

ShopInv ==
    /\ CartInv /\ TillInv /\ CardInv /\ PromoInv /\ ClientInv /\ ImportsInv
    /\ PricingInv /\ TelemetryInv

LEMMA InitShop == MCInit => ShopInv
  BY InitCart, InitTill, InitCard, InitPromo, InitClient, InitImports, InitPricing,
     InitTelemetry DEF MCInit, ShopInv

LEMMA OneShopStep ==
  ASSUME [MCNext]_<<part, Shopfront>>
  PROVE  /\ [SmartCartNext]_cartVars /\ [TillNext]_tillVars /\ [CardNext]_cardVars
         /\ [PromoNext]_promoVars /\ [ClientNext]_clientVars /\ [ImportersNext]_importVars
         /\ [PricingNext]_priceVars /\ [TelemetryNext]_telemetryVars
  BY DEF MCNext, Shopfront

LEMMA ShopStep == ShopInv /\ [MCNext]_<<part, Shopfront>> => ShopInv'
<1> SUFFICES ASSUME ShopInv, [MCNext]_<<part, Shopfront>> PROVE ShopInv'
  OBVIOUS
<1>1. /\ [SmartCartNext]_cartVars /\ [TillNext]_tillVars /\ [CardNext]_cardVars
      /\ [PromoNext]_promoVars /\ [ClientNext]_clientVars /\ [ImportersNext]_importVars
      /\ [PricingNext]_priceVars /\ [TelemetryNext]_telemetryVars
  BY OneShopStep
<1>2. CartInv' /\ TillInv' /\ CardInv'
  BY <1>1, CartStep, TillStep, CardInvStep DEF ShopInv
<1>3. PromoInv' /\ ClientInv' /\ ImportsInv'
  BY <1>1, PromoStep, ClientStep, ImportsStep DEF ShopInv
<1>4. PricingInv' /\ TelemetryInv'
  BY <1>1, PricingStep, TelemetryStep DEF ShopInv
<1>5. QED BY <1>2, <1>3, <1>4 DEF ShopInv

(* Each of these parts keeps its inductive invariant, for any instance.    *)
THEOREM ShopHolds == MCSpec => []ShopInv
  BY InitShop, ShopStep, PTL DEF MCSpec

(* "The subscription will set itself up" comes true at most once for each  *)
(* time it was promised, and until it does the intent is in the cart or in *)
(* the hands of a worker (SmartCart), for any number of deposits, intents  *)
(* and workers.                                                            *)
THEOREM PromisesKept == MCSpec => []PromiseKept
<1>1. ShopInv => PromiseKept
  BY CartPromise DEF ShopInv
<1>2. QED BY <1>1, ShopHolds, PTL

(* However often and wherever a user taps, one-time discounts are spent no *)
(* more often than they were granted, and a trial is given once, never     *)
(* over a plan that was paid for and still runs (Till).                    *)
THEOREM DiscountsSpentOnce == MCSpec => []OneShotsSpentOnce
<1>1. ShopInv => OneShotsSpentOnce
  BY TillOneShots DEF ShopInv
<1>2. QED BY <1>1, ShopHolds, PTL

(* Checkouts of a user keep apart, but for the handlers that outlive their *)
(* key; no invoice goes out without its row; who was charged in Stars is   *)
(* credited or somebody knows; the wallet holds what was put in less what  *)
(* was bought (Till).                                                      *)
THEOREM TillKeepsFaith == MCSpec => []TillIsHonest
<1>1. ShopInv => TillIsHonest
  BY TillHonest DEF ShopInv
<1>2. QED BY <1>1, ShopHolds, PTL

(* However many runs and requests overlap, fail or are asked again, a      *)
(* saved card is charged once in its gap (CardAutopay), and a promo code   *)
(* is activated within its limits and rewards a person once: in the rows   *)
(* for an activation, on the panel also for a request that was rolled      *)
(* back, and in both once more for each such request whose date a webhook  *)
(* copied (Promo).                                                         *)
THEOREM OverlapsCountOnce == MCSpec => []AtMostOnce
<1>1. ShopInv => AtMostOnce
  BY CardOnce, PromoOnce DEF ShopInv, AtMostOnce
<1>2. QED BY <1>1, ShopHolds, PTL

(* A dump may be imported again and again while the shop is open, from any *)
(* of the seven bots (Importers), and the panel upgraded at any moment     *)
(* with calls and webhooks under way: each meets the subscription it is    *)
(* about (PanelClient).                                                    *)
THEOREM RowsStayTogether == MCSpec => []RowsMeetTheirUsers
<1>1. ShopInv => RowsMeetTheirUsers
  BY ClientUnderstood DEF ShopInv, ImportsInv, RowsMeetTheirUsers
<1>2. QED BY <1>1, ShopHolds, PTL

(* No sequence of purchases, renewals and changes of plan, settled in any  *)
(* order and however late, makes something of nothing: for any plans and   *)
(* prices, the time at hand is worth no more than what was paid and given  *)
(* for it, but for half a day of rounding in a change (Pricing).           *)
THEOREM WorthIsPaidFor == MCSpec => []NothingFromNothing
<1>1. ShopInv => NothingFromNothing
  BY DEF ShopInv, PricingInv
<1>2. QED BY <1>1, ShopHolds, PTL

(* Of any number of installations and bugs, every occurrence is in a       *)
(* queue, on its way or counted, but for those the code gives up, and is   *)
(* counted once but for those whose answer was lost; and the team has been *)
(* alerted of every open issue, but for the alerts the code drops          *)
(* (Telemetry).                                                            *)
THEOREM TroublesReachTheTeam == MCSpec => []TroublesAreTold
<1>1. ShopInv => TroublesAreTold
  BY Told DEF ShopInv
<1>2. QED BY <1>1, ShopHolds, PTL
=============================================================================
