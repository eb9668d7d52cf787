------------------------------ MODULE BotSales ------------------------------
(***************************************************************************)
(* The two ways in which the chatbot sells to the customer behind one      *)
(* phone: POST /chatbot-api/sales, whose idempotency slot is committed     *)
(* before the transaction of the sale and stamped after it, and            *)
(* POST /chatbot-api/checkouts, which finds or creates the customer, sells *)
(* and leaves its receipt in one transaction.  Both may spend a shipping   *)
(* quote, which is good for one sale, to one address, until it expires.    *)
(***************************************************************************)
EXTENDS Naturals, Sequences

CONSTANTS
  Calls,       \* calls of the chatbot, retries included
  BotKeys,     \* Idempotency-Key values, each for both routes
  Carts,       \* bodies of calls
  ShipQuotes,  \* shipping quotes
  NoQuote,     \* a body without a quote: pickup, legacy charge, none
  Places,      \* contents of addresses
  Nobody

Cart == [quote : ShipQuotes \cup {NoQuote}, saved : BOOLEAN, place : Places]

ASSUME CartsAssumption ==
  /\ Carts \subseteq Cart
  /\ Nobody \notin Calls \cup BotKeys \cup Carts \cup Places /\ NoQuote \notin ShipQuotes

VARIABLES
  profiles,   \* customers that have the phone
  strangers,  \* history: some of them were not created by a checkout
  home,       \* the saved address of the customer
  shipQuote,  \* shipping_quotes
  slot,       \* sale_idempotency, operation bot_sale_register
  receipt,    \* sale_idempotency, operation of checkouts
  sold,       \* the sale of each call
  call,       \* what each call asked for, and the answer it got
  todo,       \* what each call has still to do
  held        \* the locks of its transaction

botVars == <<profiles, strangers, home, shipQuote, slot, receipt, sold, call, todo, held>>

NoEntry == [owner |-> Nobody, done |-> FALSE]
NothingSold == [quote |-> NoQuote, fresh |-> FALSE, place |-> Nobody]
NotCalled == [via |-> "none", key |-> Nobody, cart |-> Nobody, creates |-> FALSE, answer |-> Nobody]

BotInit ==
  /\ profiles \in {0, 1} /\ strangers = FALSE
  /\ home \in Places
  /\ shipQuote = [q \in ShipQuotes |-> [status |-> "NONE", place |-> Nobody]]
  /\ slot = [k \in BotKeys |-> NoEntry] /\ receipt = slot
  /\ sold = [c \in Calls |-> NothingSold]
  /\ call = [c \in Calls |-> NotCalled]
  /\ todo = [c \in Calls |-> <<>>]
  /\ held = [c \in Calls |-> {}]

-----------------------------------------------------------------------------
(* What a call does, and the locks it takes on the way *)

(* Customer before quote on both routes ("T8 - lock order"); a checkout     *)
(* serializes on the phone before it looks for the customer.               *)
QuotedSaleReversed == <<"verify", "quote", "customer", "sell", "stamp">>

QuotedSale == <<"verify", "customer", "quote", "sell", "stamp">>

Path(via, cart) ==
  CASE via = "sale" /\ cart.quote = NoQuote     -> <<"sell", "stamp">>
    [] via = "sale" /\ cart.quote # NoQuote     -> QuotedSale
    [] via = "checkout" /\ cart.quote = NoQuote -> <<"phone", "customer", "sell">>
    [] via = "checkout" /\ cart.quote # NoQuote ->
         <<"phone", "customer", "verify", "quote", "sell">>

Doing(c, step) == todo[c] # <<>> /\ Head(todo[c]) = step
Goes(c) == todo' = [todo EXCEPT ![c] = Tail(@)]
Ends(c) == todo' = [todo EXCEPT ![c] = <<>>] /\ held' = [held EXCEPT ![c] = {}]

Free(lock, c) == \A d \in Calls \ {c} : lock \notin held[d]
Locks(c, locks) == held' = [held EXCEPT ![c] = @ \cup locks]

PhoneLock == <<"phone">>
CustomerLock == <<"customer">>
AddressLock == <<"address">>
QuoteLock(c) == <<"quote", call[c].cart.quote>>

(* What the next step of a call waits for.  The insert of a sale needs a   *)
(* share of its customer, who is there already unless the call creates him.*)
Wanted(c) ==
  CASE Doing(c, "phone")                      -> PhoneLock
    [] Doing(c, "customer")                   -> CustomerLock
    [] Doing(c, "sell") /\ ~call[c].creates   -> CustomerLock
    [] Doing(c, "quote")                      -> QuoteLock(c)
    [] OTHER                                  -> <<"nothing">>

-----------------------------------------------------------------------------
(* POST /chatbot-api/sales *)

Asks(c, via, k, cart, answer) ==
  call' = [call EXCEPT ![c] = [via |-> via, key |-> k, cart |-> cart,
                               creates |-> FALSE, answer |-> answer]]

(* acquireSaleRegistrationIdempotency, for a customer who is known; with a *)
(* quote, to an address of his.                                            *)
RegisterSale(c, k, cart) ==
  /\ call[c] = NotCalled /\ profiles > 0
  /\ cart.quote # NoQuote => cart.saved
  /\ IF slot[k] = NoEntry
     THEN /\ slot' = [slot EXCEPT ![k] = [owner |-> c, done |-> FALSE]]
          /\ Asks(c, "sale", k, cart, Nobody)
          /\ todo' = [todo EXCEPT ![c] = Path("sale", cart)]
     ELSE /\ Asks(c, "sale", k, cart,
                  IF slot[k].done /\ call[slot[k].owner].cart = cart THEN slot[k].owner ELSE Nobody)
          /\ UNCHANGED <<slot, todo>>
  /\ UNCHANGED <<profiles, strangers, home, shipQuote, receipt, sold, held>>

(* POST /chatbot-api/checkouts, up to the receipt: the lock of the key is  *)
(* tried, not waited for.                                                  *)
Checkout(c, k, cart) ==
  /\ call[c] = NotCalled
  /\ IF Free(<<"key", k>>, c) /\ receipt[k] = NoEntry
     THEN /\ Asks(c, "checkout", k, cart, Nobody)
          /\ todo' = [todo EXCEPT ![c] = Path("checkout", cart)]
          /\ Locks(c, {<<"key", k>>})
     ELSE /\ Asks(c, "checkout", k, cart,
                  IF receipt[k].done /\ call[receipt[k].owner].cart = cart
                  THEN receipt[k].owner ELSE Nobody)
          /\ UNCHANGED <<todo, held>>
  /\ UNCHANGED <<profiles, strangers, home, shipQuote, slot, receipt, sold>>

LockPhone(c) ==
  /\ Doing(c, "phone") /\ Free(PhoneLock, c)
  /\ Locks(c, {PhoneLock}) /\ Goes(c)
  /\ UNCHANGED <<profiles, strangers, home, shipQuote, slot, receipt, sold, call>>

(* The customer of a checkout: created when the phone has none, and locked *)
(* with the saved address when it has one; two of them are ambiguous.      *)
Matches(c) == IF call[c].cart.saved THEN profiles = 1 ELSE profiles <= 1

MatchCustomer(c) ==
  /\ call[c].via = "checkout" /\ Doing(c, "customer")
  /\ Matches(c)
  /\ profiles = 0 \/ Free(CustomerLock, c)
  /\ IF profiles = 0
     THEN call' = [call EXCEPT ![c].creates = TRUE] /\ UNCHANGED held
     ELSE Locks(c, {CustomerLock} \cup IF call[c].cart.saved THEN {AddressLock} ELSE {})
          /\ UNCHANGED call
  /\ Goes(c)
  /\ UNCHANGED <<profiles, strangers, home, shipQuote, slot, receipt, sold>>

LockCustomer(c) ==
  /\ call[c].via = "sale" /\ Doing(c, "customer") /\ Free(CustomerLock, c)
  /\ Locks(c, {CustomerLock}) /\ Goes(c)
  /\ UNCHANGED <<profiles, strangers, home, shipQuote, slot, receipt, sold, call>>

(* The address that the sale goes to.                                      *)
Target(c) == IF call[c].cart.saved THEN home ELSE call[c].cart.place

(* verifyShippingQuote: inside the transaction of a checkout, before that  *)
(* of a sale.                                                              *)
Verified(c) == LET q == shipQuote[call[c].cart.quote] IN
               q.status = "LIVE" /\ q.place = Target(c)

Verify(c) ==
  /\ Doing(c, "verify") /\ Verified(c)
  /\ Goes(c)
  /\ UNCHANGED <<profiles, strangers, home, shipQuote, slot, receipt, sold, call, held>>

LockQuote(c) ==
  /\ Doing(c, "quote") /\ Free(QuoteLock(c), c)
  /\ Locks(c, {QuoteLock(c)}) /\ Goes(c)
  /\ UNCHANGED <<profiles, strangers, home, shipQuote, slot, receipt, sold, call>>

-----------------------------------------------------------------------------
(* The sale *)

Spent(q) == \E d \in Calls : sold[d] # NothingSold /\ sold[d].quote = q

(* What confirmBotSale checks under the lock of the quote.                 *)
UsableUnchecked(q) == q # NoQuote => ~Spent(q)

Usable(q) == q # NoQuote => shipQuote[q].status = "LIVE" /\ ~Spent(q)

(* confirmBotSale, its commit, and the receipt of a checkout in the same   *)
(* transaction.                                                            *)
Sell(c) ==
  LET q == call[c].cart.quote
      checkout == call[c].via = "checkout"
  IN
  /\ Doing(c, "sell") /\ Free(Wanted(c), c)
  /\ Usable(q)
  /\ sold' = [sold EXCEPT ![c] = [quote |-> q, place |-> Target(c),
                                  fresh |-> q = NoQuote \/ shipQuote[q].status = "LIVE"]]
  /\ receipt' = IF checkout
                THEN [receipt EXCEPT ![call[c].key] = [owner |-> c, done |-> TRUE]] ELSE receipt
  /\ profiles' = IF call[c].creates THEN profiles + 1 ELSE profiles
  /\ call' = IF checkout THEN [call EXCEPT ![c].answer = c] ELSE call
  /\ held' = [held EXCEPT ![c] = {}] /\ Goes(c)
  /\ UNCHANGED <<strangers, home, shipQuote, slot>>

(* markSaleRegistrationIdempotencySucceeded.                               *)
StampSale(c) ==
  /\ Doing(c, "stamp")
  /\ slot' = [slot EXCEPT ![call[c].key].done = TRUE]
  /\ call' = [call EXCEPT ![c].answer = c]
  /\ Goes(c)
  /\ UNCHANGED <<profiles, strangers, home, shipQuote, receipt, sold, held>>

(* Only what a refused quote rolled back frees the key.                    *)
ReleasedAfterAnyError(c) == call[c].via = "sale"

Released(c) ==
  /\ call[c].via = "sale"
  /\ \/ Doing(c, "verify") /\ ~Verified(c)
     \/ Doing(c, "sell") /\ ~Usable(call[c].cart.quote)

(* The call throws, or its server dies: its transaction is rolled back.    *)
Fail(c) ==
  /\ todo[c] # <<>>
  /\ Ends(c)
  /\ \/ UNCHANGED slot
     \/ Released(c) /\ slot' = [slot EXCEPT ![call[c].key] = NoEntry]
  /\ UNCHANGED <<profiles, strangers, home, shipQuote, receipt, sold, call>>

-----------------------------------------------------------------------------
(* Around the calls *)

(* ShippingQuoteService.quote.                                             *)
IssueQuote(q, place) ==
  /\ shipQuote[q].status = "NONE"
  /\ shipQuote' = [shipQuote EXCEPT ![q] = [status |-> "LIVE", place |-> place]]
  /\ UNCHANGED <<profiles, strangers, home, slot, receipt, sold, call, todo, held>>

ExpireQuote(q) ==
  /\ shipQuote[q].status = "LIVE"
  /\ shipQuote' = [shipQuote EXCEPT ![q].status = "EXPIRED"]
  /\ UNCHANGED <<profiles, strangers, home, slot, receipt, sold, call, todo, held>>

(* CustomersService: the address is edited, or another customer gets the   *)
(* phone; neither takes the lock of the phone.                             *)
EditAddress(place) ==
  /\ place # home /\ \A c \in Calls : AddressLock \notin held[c]
  /\ home' = place
  /\ UNCHANGED <<profiles, strangers, shipQuote, slot, receipt, sold, call, todo, held>>

WriteCustomer ==
  /\ profiles < 2
  /\ profiles' = profiles + 1 /\ strangers' = TRUE
  /\ UNCHANGED <<home, shipQuote, slot, receipt, sold, call, todo, held>>

-----------------------------------------------------------------------------
BotNext ==
  \/ \E c \in Calls, k \in BotKeys, cart \in Carts : RegisterSale(c, k, cart) \/ Checkout(c, k, cart)
  \/ \E c \in Calls : \/ LockPhone(c) \/ MatchCustomer(c) \/ LockCustomer(c)
                      \/ Verify(c) \/ LockQuote(c) \/ Sell(c) \/ StampSale(c) \/ Fail(c)
  \/ \E q \in ShipQuotes : ExpireQuote(q) \/ \E place \in Places : IssueQuote(q, place)
  \/ \E place \in Places : EditAddress(place)
  \/ WriteCustomer

BotSpec == BotInit /\ [][BotNext]_botVars

-----------------------------------------------------------------------------
(* However a key is retried, after errors and deaths on either side of the *)
(* commit, its route sells once for it; and whoever gets an answer gets    *)
(* the sale of the cart that he sent.                                      *)
OneSalePerBotKey ==
  \A c, d \in Calls :
    /\ sold[c] # NothingSold /\ sold[d] # NothingSold /\ call[c].via = call[d].via
         /\ call[c].key = call[d].key => c = d
    /\ call[c].answer = d =>
         /\ sold[d] # NothingSold
         /\ call[d].cart = call[c].cart /\ call[d].key = call[c].key /\ call[d].via = call[c].via

(* A quote is spent once, over both routes, while it is live; and by a     *)
(* checkout on the address that was quoted.  (A sale reads the address     *)
(* again after it verified the quote against it.)                          *)
QuoteIsHonoured ==
  /\ \A c, d \in Calls : sold[c].quote = sold[d].quote /\ sold[c].quote # NoQuote => c = d
  /\ \A c \in Calls : sold[c].quote # NoQuote =>
       /\ sold[c].fresh
       /\ call[c].via = "checkout" => sold[c].place = shipQuote[sold[c].quote].place

(* Checkouts that race for a new phone create one customer, unless someone *)
(* outside the checkouts adds one.                                         *)
OneCustomerPerPhone == ~strangers => profiles <= 1

(* What retries and races make, they make once.                            *)
NothingTwice == OneSalePerBotKey /\ OneCustomerPerPhone

(* Slots, receipts, locks and retries are the means; the end is what the   *)
(* chatbot is promised (BotPromise).                                       *)
OrderOf(c) == [via |-> call[c].via, key |-> call[c].key, cart |-> call[c].cart]
Buyers == {c \in Calls : sold[c] # NothingSold}
Listeners == {c \in Calls : call[c].answer # Nobody}

Shop == INSTANCE BotPromise
  WITH customers <- profiles,
       Orders <- [via : {"sale", "checkout"}, key : BotKeys, cart : Carts],
       sales <- {OrderOf(c) : c \in Buyers},
       spent <- {sold[c].quote : c \in Buyers} \ {NoQuote},
       told <- {[asked |-> OrderOf(c), got |-> OrderOf(call[c].answer)] : c \in Listeners}

SoldAsPromised == Shop!Spec

(* There is always one call, of any that are in progress, that waits for   *)
(* none of them.                                                           *)
NoCircularWait ==
  \A S \in SUBSET Calls : S # {} =>
    \E c \in S : \A d \in S \ {c} : Wanted(c) \notin held[d]
=============================================================================
