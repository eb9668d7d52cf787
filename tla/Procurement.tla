----------------------------- MODULE Procurement -----------------------------
(***************************************************************************)
(* Suppliers and purchase orders of one tenant.  A command comes with an   *)
(* idempotency key and with the versions its sender read; it runs in one   *)
(* READ COMMITTED transaction that takes, in this order, the key (or gives *)
(* up), the order, the supplier and the products, and writes with every    *)
(* change an audit row and the receipt that answers a repetition.  What    *)
(* differs between two products is whether they fit the unit on the line.  *)
(*                                                                         *)
(* Any command may fail or lose its answer, and be repeated.               *)
(***************************************************************************)
EXTENDS Naturals, FiniteSets

CONSTANTS
  Orders,
  Suppliers,
  Buyers,        \* senders, each with one command at a time
  CommandKeys,   \* Idempotency-Key values
  Looks,         \* what else a supplier's row says: [name, status]
  Lines,         \* "short" of a quantity or cost, or "whole"
  MaxVersion,    \* the version no row may pass, 2147483647 in the code
  MaxCalls,      \* bound on calls
  Collection,    \* the target of a creation
  NoOne

ASSUME ProcurementAssumption ==
  /\ \A look \in Looks : look.status \in {"ACTIVE", "ARCHIVED"}
  /\ Lines \subseteq {"short", "whole"} /\ MaxVersion \in Nat \ {0} /\ MaxCalls \in Nat
  /\ NoOne \notin Suppliers \cup Looks /\ Orders \cap Suppliers = {}
  /\ Collection \notin Orders \cup Suppliers

VARIABLES
  po,           \* procurement_purchase_orders, and the lines of each
  supplier,     \* procurement_suppliers
  productFits,  \* the product on the lines is sold in the unit they name
  command,      \* what each buyer is doing
  written,      \* audits and receipts, which are written together
  calls

procurementVars == <<po, supplier, productFits, command, written, calls>>

Contents == [supplier : Suppliers \cup {NoOne}, lines : Lines]

NoOrder == [status |-> "NONE", version |-> 0, supplier |-> NoOne, lines |-> "short",
            agreed |-> NoOne, frozen |-> NoOne]
NoSupplier == [version |-> 0, look |-> NoOne]
NoRequest == [op |-> "none", on |-> NoOne, version |-> 0, what |-> NoOne]
NoCommand == [phase |-> "idle", key |-> NoOne, request |-> NoRequest, read |-> NoOne, told |-> 0]

Request(op, on, version, what) == [op |-> op, on |-> on, version |-> version, what |-> what]

(* Some suppliers were added before.                                       *)
ProcurementInit ==
  /\ po = [o \in Orders |-> NoOrder]
  /\ supplier \in [Suppliers -> {NoSupplier} \cup [version : {1}, look : Looks]]
  /\ productFits = TRUE
  /\ command = [c \in Buyers |-> NoCommand]
  /\ written = {[key |-> NoOne, request |-> Request("ADD", Collection, 0, supplier[s].look),
                 object |-> s, version |-> 1] : s \in {i \in Suppliers : supplier[i] # NoSupplier}}
  /\ calls = 0

OrderExists(o) == po[o].status \in {"DRAFT", "CONFIRMED", "CANCELLED"}
SupplierExists(s) == supplier[s].look # NoOne
Refers(o, s) == OrderExists(o) /\ po[o].supplier = s

-----------------------------------------------------------------------------
(* A request, and what its sender has on the screen *)

Shown(o) ==
  [supplier |-> po[o].supplier, lines |-> po[o].lines, fits |-> productFits,
   from |-> IF po[o].supplier = NoOne THEN NoSupplier ELSE supplier[po[o].supplier]]

OrderRequests ==
  {Request("CREATE", Collection, 0, content) : content \in Contents} \cup
  UNION {{Request(op, o, po[o].version, NoOne) : op \in {"DELETE", "CANCEL"}} \cup
         {Request("REPLACE", o, po[o].version, content) : content \in Contents} \cup
         {Request("CONFIRM", o, po[o].version, Shown(o))} : o \in {i \in Orders : OrderExists(i)}}

SupplierRequests ==
  {Request("ADD", Collection, 0, look) : look \in Looks} \cup
  UNION {{Request("REMOVE", s, supplier[s].version, NoOne)} \cup
         {Request("UPDATE", s, supplier[s].version, look) : look \in Looks \ {supplier[s].look}} :
         s \in {i \in Suppliers : SupplierExists(i)}}

-----------------------------------------------------------------------------
(* Keys, locks and answers *)

Req(c) == command[c].request
InTransaction(c) == command[c].phase \in {"keyed", "ordered", "admitted"}
SameNamespace(request, key, other, otherKey) ==
  request.op = other.op /\ request.on = other.on /\ key = otherKey

KeyTaken(c) ==
  \E d \in Buyers \ {c} :
    InTransaction(d) /\ SameNamespace(Req(c), command[c].key, Req(d), command[d].key)

(* The receipts of the key, and the one that the same body produced.       *)
ReceiptsOf(c) == {e \in written : SameNamespace(Req(c), command[c].key, e.request, e.key)}
RepliesOfKey(c) == ReceiptsOf(c)

Replays(c) == {e \in ReceiptsOf(c) : e.request = Req(c)}

SupplierOf(c) ==
  CASE Req(c).op \in {"CREATE", "REPLACE"} -> Req(c).what.supplier
    [] Req(c).op = "CONFIRM" -> po[Req(c).on].supplier
    [] OTHER -> Req(c).on

OrderFree(o) == \A c \in Buyers : command[c].phase \in {"ordered", "admitted"} => Req(c).on # o
SupplierUnlocked(s) == TRUE

SupplierFree(s) == \A c \in Buyers : command[c].phase = "admitted" => SupplierOf(c) # s

Goes(c, phase, read) == command' = [command EXCEPT ![c].phase = phase, ![c].read = read]
Replied(c, version) ==
  command' = [command EXCEPT ![c].phase = "answered", ![c].read = NoOne, ![c].told = version]
Refused(c) == Replied(c, 0)

(* The write, its audit and its receipt: the answer is the new version.    *)
Commits(c, object, version) ==
  /\ written' = written \cup
       {[key |-> command[c].key, request |-> Req(c), object |-> object, version |-> version]}
  /\ Replied(c, version)

-----------------------------------------------------------------------------
Call == calls < MaxCalls /\ calls' = calls + 1

Send(c) ==
  /\ command[c].phase \in {"idle", "answered"}
  /\ Call
  /\ \E key \in CommandKeys, request \in OrderRequests \cup SupplierRequests :
       command' = [command EXCEPT ![c] =
                     [NoCommand EXCEPT !.phase = "sent", !.key = key, !.request = request]]
  /\ UNCHANGED <<po, supplier, productFits, written>>

Repeat(c) ==
  /\ command[c].phase = "answered"
  /\ Call
  /\ command' = [command EXCEPT ![c].phase = "sent", ![c].told = 0]
  /\ UNCHANGED <<po, supplier, productFits, written>>

(* The transaction is rolled back, or its answer is lost.                  *)
LoseCommand(c) ==
  /\ InTransaction(c) \/ command[c].told # 0
  /\ Refused(c)
  /\ UNCHANGED <<po, supplier, productFits, written, calls>>

(* pg_try_advisory_xact_lock, and the receipt that another may have left.  *)
TakeKey(c) ==
  /\ command[c].phase = "sent"
  /\ IF KeyTaken(c) \/ (ReceiptsOf(c) # {} /\ Replays(c) = {}) THEN Refused(c)
     ELSE IF Replays(c) = {} THEN Goes(c, "keyed", NoOne)
     ELSE \E e \in Replays(c) : Replied(c, e.version)
  /\ UNCHANGED <<po, supplier, productFits, written, calls>>

OrderIsCurrent(c) ==
  LET o == Req(c).on IN
  /\ OrderExists(o)
  /\ po[o].version = Req(c).version /\ po[o].version < MaxVersion
  /\ IF Req(c).op = "CANCEL" THEN po[o].status # "CANCELLED" ELSE po[o].status = "DRAFT"

LockOrder(c) ==
  /\ command[c].phase = "keyed" /\ Req(c).op \in {"REPLACE", "CONFIRM"}
  /\ OrderFree(Req(c).on)
  /\ IF OrderIsCurrent(c) THEN Goes(c, "ordered", NoOne) ELSE Refused(c)
  /\ UNCHANGED <<po, supplier, productFits, written, calls>>

(* A deletion and a cancellation lock nothing but the order.               *)
CloseOrder(c) ==
  LET o == Req(c).on IN
  /\ command[c].phase = "keyed" /\ Req(c).op \in {"DELETE", "CANCEL"}
  /\ OrderFree(o)
  /\ IF OrderIsCurrent(c)
     THEN /\ po' = [po EXCEPT
              ![o].version = @ + 1,
              ![o].status = IF Req(c).op = "CANCEL" THEN "CANCELLED" ELSE "DELETED"]
          /\ Commits(c, o, po[o].version + 1)
     ELSE Refused(c) /\ UNCHANGED <<po, written>>
  /\ UNCHANGED <<supplier, productFits, calls>>

(* admit: a draft may keep a supplier that was archived since, not take    *)
(* one; a confirmation wants the one its sender saw, and ACTIVE.           *)
SupplierAdmitted(c) ==
  LET s == SupplierOf(c) IN
  CASE Req(c).op = "CONFIRM" ->
         /\ s # NoOne
         /\ supplier[s].version = Req(c).what.from.version
         /\ supplier[s].look.status = "ACTIVE"
    [] OTHER ->
         \/ s = NoOne
         \/ Req(c).op = "REPLACE" /\ s = po[Req(c).on].supplier
         \/ SupplierExists(s) /\ supplier[s].look.status = "ACTIVE"

LockSupplier(c) ==
  LET s == SupplierOf(c) IN
  /\ \/ command[c].phase = "ordered"
     \/ command[c].phase = "keyed" /\ Req(c).op = "CREATE"
  /\ s # NoOne => SupplierFree(s)
  /\ IF SupplierAdmitted(c)
     THEN Goes(c, "admitted", IF s = NoOne THEN NoSupplier ELSE supplier[s])
     ELSE Refused(c)
  /\ UNCHANGED <<po, supplier, productFits, written, calls>>

(* The token says which references the lines have and what they are, but   *)
(* not how much is ordered; a line that gives its cost in another unit has *)
(* none.                                                                   *)
Token(sup, lines, fits) ==
  IF sup = NoOne \/ (lines = "whole" /\ ~fits) THEN NoOne ELSE <<sup, fits>>

ConfirmationAllowed(c) ==
  LET o == Req(c).on
      shown == Req(c).what
      token == Token(po[o].supplier, po[o].lines, productFits) IN
  /\ token # NoOne
  /\ token = Token(shown.supplier, shown.lines, shown.fits)
  /\ po[o].lines = "whole"

(* A line may keep what no longer fits, not take it.                       *)
LinesAdmitted(c) ==
  \/ Req(c).what.lines = "short" \/ productFits
  \/ Req(c).op = "REPLACE" /\ po[Req(c).on].lines = "whole"

Confirmed(c, o) ==
  [status |-> "CONFIRMED", version |-> po[o].version + 1,
   supplier |-> po[o].supplier, lines |-> po[o].lines,
   agreed |-> Req(c).what, frozen |-> [Shown(o) EXCEPT !.from = command[c].read]]

Drafted(c, o) ==
  [status |-> "DRAFT", version |-> po[o].version + 1,
   supplier |-> Req(c).what.supplier, lines |-> Req(c).what.lines,
   agreed |-> po[o].agreed, frozen |-> po[o].frozen]

(* The products are locked, and all is written, in one step: nothing more  *)
(* is waited for.                                                          *)
WriteOrder(c) ==
  /\ command[c].phase = "admitted" /\ Req(c).op \in {"CREATE", "REPLACE", "CONFIRM"}
  /\ IF IF Req(c).op = "CONFIRM" THEN ConfirmationAllowed(c) ELSE LinesAdmitted(c)
     THEN \E o \in Orders :
            /\ IF Req(c).op = "CREATE" THEN po[o] = NoOrder ELSE o = Req(c).on
            /\ po' = [po EXCEPT ![o] =
                 IF Req(c).op = "CONFIRM" THEN Confirmed(c, o) ELSE Drafted(c, o)]
            /\ Commits(c, o, po[o].version + 1)
     ELSE Refused(c) /\ UNCHANGED <<po, written>>
  /\ UNCHANGED <<supplier, productFits, calls>>

-----------------------------------------------------------------------------
(* Commands on suppliers *)

SupplierIsCurrent(c) ==
  LET s == Req(c).on IN
  SupplierExists(s) /\ supplier[s].version = Req(c).version /\ supplier[s].version < MaxVersion

SaveSupplier(c) ==
  /\ command[c].phase = "keyed" /\ Req(c).op \in {"ADD", "UPDATE"}
  /\ Req(c).op = "UPDATE" => SupplierFree(Req(c).on)
  /\ IF Req(c).op = "UPDATE" /\ ~SupplierIsCurrent(c)
     THEN Refused(c) /\ UNCHANGED <<supplier, written>>
     ELSE \E s \in Suppliers :
            /\ IF Req(c).op = "ADD" THEN supplier[s] = NoSupplier ELSE s = Req(c).on
            /\ supplier' = [supplier EXCEPT ![s] =
                 [version |-> @.version + 1, look |-> Req(c).what]]
            /\ Commits(c, s, supplier[s].version + 1)
  /\ UNCHANGED <<po, productFits, calls>>

(* The orders are read without locks: their writers lock them first.       *)
LookForOrders(c) ==
  LET s == Req(c).on IN
  /\ command[c].phase = "keyed" /\ Req(c).op = "REMOVE"
  /\ SupplierFree(s)
  /\ IF SupplierIsCurrent(c) /\ ~\E o \in Orders : Refers(o, s)
     THEN Goes(c, "admitted", supplier[s])
     ELSE Refused(c)
  /\ UNCHANGED <<po, supplier, productFits, written, calls>>

RemoveSupplier(c) ==
  LET s == Req(c).on IN
  /\ command[c].phase = "admitted" /\ Req(c).op = "REMOVE"
  /\ supplier' = [supplier EXCEPT ![s] = [version |-> @.version + 1, look |-> NoOne]]
  /\ Commits(c, s, supplier[s].version + 1)
  /\ UNCHANGED <<po, productFits, calls>>

(* Somebody changes the unit of the product, or its type.                  *)
ChangeProduct ==
  /\ productFits' = ~productFits
  /\ UNCHANGED <<po, supplier, command, written, calls>>

ProcurementNext ==
  \/ \E c \in Buyers :
       \/ Send(c) \/ Repeat(c) \/ LoseCommand(c) \/ TakeKey(c)
       \/ LockOrder(c) \/ CloseOrder(c) \/ LockSupplier(c) \/ WriteOrder(c)
       \/ SaveSupplier(c) \/ LookForOrders(c) \/ RemoveSupplier(c)
  \/ ChangeProduct

ProcurementSpec == ProcurementInit /\ [][ProcurementNext]_procurementVars

-----------------------------------------------------------------------------
Row == [version : Nat, look : Looks \cup {NoOne}]
Screen == [supplier : Suppliers \cup {NoOne}, lines : Lines \cup {"short"}, fits : BOOLEAN, from : Row]

RequestType ==
  [op : {"CREATE"}, on : {Collection}, version : Nat, what : Contents] \cup
  [op : {"REPLACE"}, on : Orders, version : Nat, what : Contents] \cup
  [op : {"DELETE", "CANCEL"}, on : Orders, version : Nat, what : {NoOne}] \cup
  [op : {"CONFIRM"}, on : Orders, version : Nat, what : Screen] \cup
  [op : {"ADD"}, on : {Collection}, version : Nat, what : Looks] \cup
  [op : {"UPDATE"}, on : Suppliers, version : Nat, what : Looks] \cup
  [op : {"REMOVE"}, on : Suppliers, version : Nat, what : {NoOne}] \cup
  {NoRequest}

OrderType ==
  [status : {"NONE", "DRAFT", "CONFIRMED", "CANCELLED", "DELETED"}, version : Nat,
   supplier : Suppliers \cup {NoOne}, lines : Lines \cup {"short"},
   agreed : Screen \cup {NoOne}, frozen : Screen \cup {NoOne}]

CommandType ==
  [phase : {"idle", "sent", "keyed", "ordered", "admitted", "answered"},
   key : CommandKeys \cup {NoOne}, request : RequestType, read : Row \cup {NoOne}, told : Nat]

(* Every row, request and answer has the values it can have.               *)
ProcurementTypeOK ==
  /\ po \in [Orders -> OrderType]
  /\ supplier \in [Suppliers -> Row]
  /\ productFits \in BOOLEAN
  /\ command \in [Buyers -> CommandType]
  /\ \A e \in written : e.version \in Nat

(* A confirmed order is the one its buyer had on the screen when he        *)
(* confirmed it: the supplier by its whole row, the lines and what their   *)
(* product was, though he sent back nothing but two versions and a token   *)
(* (confirmPurchaseOrder).                                                 *)
ConfirmedAsSeen == \A o \in Orders : po[o].frozen = po[o].agreed

(* What a transaction has read and locked stays true until it commits: the *)
(* version of its order, the supplier it was admitted with, and, for the   *)
(* removal of a supplier that read the orders without a lock, that no      *)
(* order refers to it.  The foreign key never has to refuse anything       *)
(* (readPurchaseOrderReferences, SupplierCommands.execute).                *)
ReadsHold ==
  \A c \in Buyers :
    /\ InTransaction(c) /\ command[c].phase # "keyed" /\ Req(c).on \in Orders =>
         po[Req(c).on].version = Req(c).version
    /\ command[c].phase = "admitted" /\ SupplierOf(c) # NoOne =>
         supplier[SupplierOf(c)] = command[c].read
    /\ command[c].phase = "admitted" /\ Req(c).op = "REMOVE" =>
         ~\E o \in Orders : Refers(o, Req(c).on)

OrdersStand == ConfirmedAsSeen /\ ReadsHold

(* However often a command is sent, under whatever key, it takes effect    *)
(* once; who hears success hears of the effect of what he asked; and every *)
(* version of every row, the last one of a deleted row too, has one author *)
(* (execute).                                                              *)
ToldOfItsEffect ==
  /\ \A c \in Buyers :
       command[c].told # 0 =>
         \E e \in written : /\ e.request = Req(c) /\ e.key = command[c].key
                            /\ e.version = command[c].told
  /\ \A e, f \in written :
       e.key # NoOne /\ SameNamespace(e.request, e.key, f.request, f.key) => e = f
  /\ \A i \in Orders \cup Suppliers :
       LET entries == {e \in written : e.object = i}
           last == IF i \in Orders THEN po[i].version ELSE supplier[i].version IN
       /\ {e.version : e \in entries} = 1..last
       /\ Cardinality(entries) = last

(* Transactions, locks, versions and tokens are the means; the end is that *)
(* commands do what they do one at a time (PurchasePromise).               *)
Agreed(o) ==
  [status |-> po[o].status, version |-> po[o].version, supplier |-> po[o].supplier,
   lines |-> po[o].lines, agreed |-> po[o].frozen]

Purchase == INSTANCE PurchasePromise
  WITH orders <- [o \in Orders |-> Agreed(o)], suppliers <- supplier,
       fits <- productFits, effects <- written

OrdersAsPromised == Purchase!Spec

-----------------------------------------------------------------------------
(* The inductive invariant behind OrdersStand *)

(* A confirmation under way knows the row of the order, and that of the    *)
(* supplier, by their versions.                                            *)
Remembers(c) ==
  LET o == Req(c).on
      shown == Req(c).what
      s == shown.supplier IN
  Req(c).op = "CONFIRM" =>
    /\ Req(c).version <= po[o].version
    /\ Req(c).version = po[o].version => shown.supplier = po[o].supplier /\ shown.lines = po[o].lines
    /\ s # NoOne =>
         /\ shown.from.version <= supplier[s].version
         /\ shown.from.version = supplier[s].version => shown.from = supplier[s]

(* What the rows locked by a command say until it commits.                 *)
Holding(c) == command[c].phase \in {"ordered", "admitted"}

Holds(c) ==
  LET s == SupplierOf(c) IN
  /\ Holding(c) => Req(c).op \in {"CREATE", "REPLACE", "CONFIRM", "REMOVE"}
  /\ command[c].phase = "ordered" => Req(c).op \in {"REPLACE", "CONFIRM"}
  /\ Holding(c) /\ Req(c).op \in {"REPLACE", "CONFIRM"} =>
       po[Req(c).on].version = Req(c).version /\ po[Req(c).on].status = "DRAFT"
  /\ command[c].phase = "admitted" /\ s # NoOne => supplier[s] = command[c].read /\ SupplierExists(s)
  /\ command[c].phase = "admitted" /\ Req(c).op = "CONFIRM" =>
       s # NoOne /\ command[c].read.version = Req(c).what.from.version
  /\ command[c].phase = "admitted" /\ Req(c).op = "REMOVE" => ~\E o \in Orders : Refers(o, s)

(* No two commands hold a row.                                             *)
Apart(c, d) ==
  /\ Holding(c) /\ Holding(d) /\ Req(c).on \in Orders => Req(c).on # Req(d).on
  /\ command[c].phase = "admitted" /\ command[d].phase = "admitted" /\ SupplierOf(c) # NoOne =>
       SupplierOf(c) # SupplierOf(d)

(* What the foreign key enforces.                                          *)
SuppliersExist ==
  \A o \in Orders : OrderExists(o) /\ po[o].supplier # NoOne => SupplierExists(po[o].supplier)

ProcurementInv ==
  /\ ProcurementTypeOK
  /\ \A c \in Buyers : Remembers(c) /\ Holds(c)
  /\ \A c, d \in Buyers : c # d => Apart(c, d)
  /\ SuppliersExist
  /\ ConfirmedAsSeen
=============================================================================
