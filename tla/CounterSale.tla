----------------------------- MODULE CounterSale -----------------------------
(***************************************************************************)
(* The counter's sale and what a customer holds that is worth money: gift  *)
(* cards, loyalty points and a coupon.  controllers/main.py: orders/sync,  *)
(* orders/comp, orders/exchange, shop/order for pickup and kiosk, the      *)
(* loyalty, gift card and promotion helpers; approvals of controllers/w1.  *)
(*                                                                         *)
(* A handler is one step.  Those that spend a card, points or a coupon     *)
(* update its row, so two that overlap on one fail with 40001 and keep     *)
(* nothing.  A handler that raises is caught, and what it wrote before is  *)
(* committed: each step below may stop after any of its writes.            *)
(* Amounts are minor units and carry no tax.                               *)
(***************************************************************************)
EXTENDS Integers, Sequences, FiniteSetsExt, Functions, OrderFsm

CONSTANTS Order, Carts, Tenders,  \* what the clients send
          Card,                   \* gift cards that may be issued
          IssueAmount, Reward, Worth, \* a card's; points of a reward, its discount
          PromoWorth,             \* discount of the automatic promotion, and of the coupon
          MaxTries, MaxRedeemed,  \* bounds
          GuardMode               \* mezze_bridge.fsm_guard

\* A combo whose groups have no price is refused (_combo_child_vals).
ASSUME SaleAssumption ==
  /\ IsFiniteSet(Order) /\ IsFiniteSet(Card)
  /\ \A c \in Carts : /\ c.plain \in Nat /\ c.card \in Nat /\ c.list \in Nat /\ c.extra \in Nat
                      /\ c.bases \in Seq(Nat)
                      /\ c.bases # <<>> => SumFunction(c.bases) > 0
  /\ Tenders \subseteq Seq(Nat)
  /\ IssueAmount \in Nat /\ Reward \in Nat /\ Worth \in Nat /\ PromoWorth \in Nat
  /\ MaxTries \in Nat /\ MaxRedeemed \in Nat

VARIABLES order,    \* [Order -> record]
          balance,  \* [Card -> Int]: loyalty.card points of gift cards
          issued,   \* [Card -> Nat]: history, what the card was issued for
          points,   \* the member's points
          redeemed, \* history: rewards redeemed
          held,     \* redeemed rewards whose discount a till still holds
          coupon,   \* points of the single-use coupon
          returned, \* orders whose exchange refunded the old goods
          approvals \* actions with an approval token that has not expired

saleVars == <<order, balance, issued, points, redeemed, held, coupon, returned, approvals>>

\* effects: how many of its after-effects a paid order had: the gift card
\* charged, cards minted, points earned; torn: an error fell between its lines
\* and its total.
NoOrder == [state |-> "none", lines |-> <<>>, total |-> 0, pays |-> <<>>, gift |-> 0,
            effects |-> 0, earned |-> 0, member |-> FALSE, minted |-> 0, sells |-> 0,
            vouchers |-> 0, coupons |-> 0, fired |-> FALSE, tries |-> 0,
            torn |-> FALSE]

SaleInit == /\ order = [o \in Order |-> NoOrder]
            /\ balance = [k \in Card |-> 0] /\ issued = [k \in Card |-> 0]
            /\ points = 0 /\ redeemed = 0 /\ held = 0 /\ coupon = 1
            /\ returned = {} /\ approvals = {}

SumOf(s) == SumFunction(s)

(***************************************************************************)
(* Lines and tenders                                                       *)
(***************************************************************************)
\* float_round, half up.
Rounded(n, d) == (2 * n + d) \div (2 * d)

\* _combo_child_vals: the list price in proportion, the last child the rest.
ChildPrices(c) ==
  LET n == Len(c.bases)
      share == [i \in 1 .. n |-> Rounded(c.bases[i] * c.list, SumOf(c.bases))]
      others == SumOf([i \in 1 .. (n - 1) |-> share[i]])
  IN [i \in 1 .. n |-> (IF i = n THEN c.list - others ELSE share[i]) + c.extra]

\* _build_lines, and the GIFTCARD product's line.
LineOf(price) == IF price > 0 THEN <<price>> ELSE <<>>
PlainLines(c) == LineOf(c.plain) \o LineOf(c.card)

\* _combo_apply: a parent without price, and its children.
ComboLines(c) == IF c.bases = <<>> THEN <<>> ELSE <<0>> \o ChildPrices(c)

\* Mutant: the last tender is what the client sent.
PaymentsAsSent(target, sent) == IF Len(sent) >= 2 THEN sent ELSE <<target>>

\* One payment per tender; the last takes what the total leaves.
Payments(target, sent) ==
  IF target <= 0 THEN <<>>
  ELSE IF Len(sent) >= 2
       THEN LET front == SubSeq(sent, 1, Len(sent) - 1) IN Append(front, target - SumOf(front))
       ELSE <<target>>

\* Mutant: the amount asked for is not capped by the card.
AppliedAsAsked(k, ask, total) == Min({ask, total})

Applied(k, ask, total) == Min({ask, balance[k], total})

(***************************************************************************)
(* orders/sync                                                             *)
(***************************************************************************)
Unknown(o) == order[o].state = "none"

Fresh(k) == issued[k] = 0

\* What a paid sale does next, up to the first error: charge gift card g (or
\* none) with the amount applied, mint card k for a card sold, earn points.
AfterEffects(o, rec, done, g, k) ==
  LET charged == IF done >= 1 THEN rec.gift ELSE 0
      minted == IF done >= 2 THEN rec.sells ELSE 0
      earns == IF done >= 3 /\ rec.member /\ rec.total > 0 THEN rec.total ELSE 0
  IN /\ minted > 0 => Fresh(k)
     /\ order' = [order EXCEPT ![o] = [rec EXCEPT !.effects = done, !.minted = minted,
                                                  !.earned = IF earns > 0 THEN @ + 1 ELSE @]]
     /\ balance' = [c \in Card |-> balance[c] - (IF c = g THEN charged ELSE 0)
                                              + (IF c = k THEN minted ELSE 0)]
     /\ issued' = [issued EXCEPT ![k] = @ + minted]
     /\ points' = points + earns

\* Plain lines, paid at once; a gift card covers what it can, the tenders the rest.
SellDirect(o, c, sent, g, ask, m) ==
  LET total == SumOf(PlainLines(c))
      applied == IF ask = 0 THEN 0 ELSE Applied(g, ask, total)
      rec == [NoOrder EXCEPT !.state = "paid", !.lines = PlainLines(c), !.total = total,
                             !.pays = Payments(total - applied, sent), !.gift = applied,
                             !.sells = c.card, !.member = m]
  IN /\ Unknown(o) /\ c.bases = <<>>
     /\ ask > 0 => applied > 0 /\ ~Fresh(g)
     /\ \E done \in 0 .. 3, k \in Card : AfterEffects(o, rec, done, g, k)
     /\ UNCHANGED <<redeemed, held, coupon, approvals>>

\* A combo or a redeemed reward: a draft, its lines grafted one kind at a time,
\* then the total, then the first tender takes it all.
SellGrafted(o, c, v, m) ==
  LET plain == PlainLines(c)
      whole == plain \o ComboLines(c)
      lines == IF v = 1 THEN Append(whole, -Worth) ELSE whole
      draft == [NoOrder EXCEPT !.state = "draft", !.lines = plain, !.total = SumOf(plain),
                               !.member = m, !.sells = c.card]
      sold == [draft EXCEPT !.state = "paid", !.lines = lines, !.total = SumOf(lines),
                            !.pays = <<SumOf(lines)>>, !.vouchers = v]
  IN /\ Unknown(o) /\ (c.bases # <<>> \/ v = 1) /\ v <= held
     /\ held' = held - v
     /\ \/ \E done \in 1 .. 3, k \in Card : AfterEffects(o, sold, done, k, k)
        \/ /\ \E rec \in {draft, [draft EXCEPT !.lines = whole, !.torn = TRUE],
                          [sold EXCEPT !.state = "draft", !.total = SumOf(plain), !.pays = <<>>,
                                       !.torn = TRUE],
                          [sold EXCEPT !.state = "draft", !.pays = <<>>]} :
                order' = [order EXCEPT ![o] = rec]
           /\ UNCHANGED <<balance, issued, points>>
     /\ UNCHANGED <<redeemed, coupon, approvals>>

\* draft: plain lines are kept unpaid for orders/pay.
SellDraft(o, c, m) ==
  /\ Unknown(o) /\ c.bases = <<>>
  /\ order' = [order EXCEPT ![o] = [NoOrder EXCEPT !.state = "draft", !.lines = PlainLines(c),
                                                   !.total = SumOf(PlainLines(c)),
                                                   !.sells = c.card, !.member = m]]
  /\ UNCHANGED <<balance, issued, points, redeemed, held, coupon, approvals>>

Sell(o) == \E c \in Carts, m \in BOOLEAN :
             \/ \E sent \in Tenders, g \in Card, ask \in 0 .. IssueAmount :
                  SellDirect(o, c, sent, g, ask, m)
             \/ \E v \in 0 .. 1 : SellGrafted(o, c, v, m)
             \/ SellDraft(o, c, m)

OrderSync(o) == Sell(o) /\ UNCHANGED returned

\* orders/exchange: the refund of the old goods and the sale of the new are
\* tried one after the other, whatever became of the first.
Exchange(o) == /\ returned' \in {returned, returned \union {o}}
               /\ Sell(o)

\* orders/pay of the balance: it earns points and looks at nothing else.
PayDraft(o) ==
  LET due == order[o].total - SumOf(order[o].pays)
      rec == [order[o] EXCEPT !.state = "paid", !.pays = Append(@, due)]
      earns == order[o].member /\ order[o].total > 0
  IN /\ order[o].state = "draft" /\ due > 0
     /\ ~Blocked(GuardMode, "draft", "pay")
     /\ \/ /\ order' = [order EXCEPT ![o] = [rec EXCEPT !.effects = 3,
                                                !.earned = IF earns THEN @ + 1 ELSE @]]
           /\ points' = IF earns THEN points + order[o].total ELSE points
        \/ order' = [order EXCEPT ![o] = rec] /\ UNCHANGED points
     /\ UNCHANGED <<balance, issued, redeemed, held, coupon, returned, approvals>>

(***************************************************************************)
(* Pickup and kiosk: fire a draft, then graft the promotions               *)
(***************************************************************************)

CouponGood(want) == want = 1 => coupon > 0

\* A retry finds its tickets and fires nothing, but promotions apply again.
PlacePickup(o, c, want) ==
  LET old == order[o]
      base == IF old.fired THEN old.lines ELSE old.lines \o PlainLines(c)
      fired == [old EXCEPT !.state = IF @ = "none" THEN "draft" ELSE @, !.lines = base,
                           !.total = IF old.fired THEN @ ELSE SumOf(base), !.tries = @ + 1]
      promos == [i \in 1 .. (1 + want) |-> -PromoWorth]
      lines == base \o promos
      grafted == [fired EXCEPT !.fired = TRUE, !.lines = lines, !.coupons = @ + want]
  IN /\ c.bases = <<>> /\ c.card = 0
     /\ Unknown(o) \/ old.tries \in 1 .. (MaxTries - 1)
     /\ old.fired \/ (old.state # "paid" /\ ~Blocked(GuardMode, old.state, "fire"))
     /\ CouponGood(want)
     /\ \/ \E rec \in {fired, [fired EXCEPT !.fired = TRUE]} : order' = [order EXCEPT ![o] = rec]
           /\ UNCHANGED coupon
        \/ /\ \/ order' = [order EXCEPT ![o] = [grafted EXCEPT !.torn = TRUE]]
              \/ order' = [order EXCEPT ![o] = [grafted EXCEPT !.total = SumOf(lines)]]
           /\ coupon' = coupon - want
     /\ UNCHANGED <<balance, issued, points, redeemed, held, returned, approvals>>

(***************************************************************************)
(* Cards, rewards, approvals                                               *)
(***************************************************************************)
\* giftcard/issue: every call mints a card.
Issue(k) == /\ Fresh(k)
            /\ issued' = [issued EXCEPT ![k] = IssueAmount]
            /\ balance' = [balance EXCEPT ![k] = IssueAmount]
            /\ UNCHANGED <<order, points, redeemed, held, coupon, returned, approvals>>

\* loyalty/redeem: the points go first; the answer may be lost on the way.
Redeem == /\ points >= Reward /\ redeemed < MaxRedeemed
          /\ points' = points - Reward /\ redeemed' = redeemed + 1
          /\ held' \in {held, held + 1}
          /\ UNCHANGED <<order, balance, issued, coupon, returned, approvals>>

\* w1/approve mints a token for one action; it lives for two minutes.
Approve == /\ approvals' = approvals \union {"comp"} /\ approvals' # approvals
           /\ UNCHANGED <<order, balance, issued, points, redeemed, held, coupon, returned>>
Expire == /\ approvals # {} /\ approvals' = {}
          /\ UNCHANGED <<order, balance, issued, points, redeemed, held, coupon, returned>>

\* orders/comp: a line of a draft becomes free, and the total is made again.
Comp(o) ==
  /\ order[o].state = "draft" /\ "comp" \in approvals
  /\ ~Blocked(GuardMode, "draft", "comp")
  /\ \E i \in DOMAIN order[o].lines :
       LET lines == [order[o].lines EXCEPT ![i] = 0]
       IN /\ order[o].lines[i] > 0
          /\ order' = [order EXCEPT ![o] = [@ EXCEPT !.lines = lines, !.total = SumOf(lines),
                                                    !.torn = FALSE]]
  /\ UNCHANGED <<balance, issued, points, redeemed, held, coupon, returned, approvals>>

SaleNext ==
  \/ \E o \in Order : \/ OrderSync(o) \/ Exchange(o) \/ PayDraft(o) \/ Comp(o)
                      \/ \E c \in Carts, want \in 0 .. 1 : PlacePickup(o, c, want)
  \/ \E k \in Card : Issue(k)
  \/ Redeem \/ Approve \/ Expire

SaleSpec == SaleInit /\ [][SaleNext]_saleVars

(***************************************************************************)
(* Properties                                                              *)
(***************************************************************************)
\* What is worth money is spent once: the gift cards hold what they were issued
\* for less the gift payments charged to them, and none less than nothing; no
\* reward is taken off more orders than were redeemed, the coupon off no more
\* than one; and an order earns its points once.
NothingSpentTwice ==
  /\ \A k \in Card : balance[k] >= 0
  /\ SumOf(balance) + SumOf([o \in Order |-> IF order[o].effects >= 1 THEN order[o].gift ELSE 0])
     = SumOf(issued)
  /\ SumOf([o \in Order |-> order[o].vouchers]) + held <= redeemed
  /\ SumOf([o \in Order |-> order[o].coupons]) <= 1
  /\ points >= 0 /\ \A o \in Order : order[o].earned <= 1

\* A paid order's tenders add up to its total and its total to its lines, be it
\* split, part-paid by card, made of combos, discounted or comped -- unless an
\* error fell between its lines and its total, or it was submitted again.
SaleAddsUp ==
  \A o \in Order : order[o].state = "paid" /\ ~order[o].torn /\ order[o].tries <= 1 =>
    /\ SumOf(order[o].pays) + order[o].gift = order[o].total
    /\ order[o].total = SumOf(order[o].lines)

\* Selling the gift card product mints a card for the line's amount.
SoldCardIsMinted ==
  \A o \in Order : order[o].state = "paid" /\ order[o].effects = 3
    => order[o].minted = order[o].sells
=============================================================================
