------------------------------ MODULE Positions ------------------------------
(***************************************************************************)
(* The positions pages of the UI server (ui/server/routers/position.py over *)
(* position_service.py): every request loads the positions file, changes   *)
(* its copy and writes the whole file again, in a thread of its own and     *)
(* without a lock.  The write empties the file first, and the server may be *)
(* killed at any time.                                                     *)
(*                                                                         *)
(* Shares are counted in lots, prices in whole units, and every trade costs *)
(* Fee.                                                                    *)
(***************************************************************************)
EXTENDS Integers, FiniteSets, Functions

CONSTANTS
    Share,   \* instruments
    Request, \* request threads
    Quotes,  \* prices a request may state
    Fee,     \* calc_trade_fee
    MaxLots, \* bound on the lots of a position and on the cash that is set
    MaxEdits \* bound on the edits that are answered

ASSUME PositionsAssumption ==
    /\ Fee \in Nat /\ MaxLots \in Nat /\ MaxEdits \in Nat
    /\ Quotes \subseteq Nat \ {0}
    /\ Share # {}

VARIABLES
    disk,   \* the file: a Book, or Torn
    draft,  \* draft[q]: the book q is about to write
    where,  \* where[q]: "idle", "loaded", "opened" (the file is empty)
    books,  \* auxiliary: the book after the answered edits, one after the other
    edits,  \* auxiliary: how many they are
    edit,   \* auxiliary: edit[q]: what q does to a book
    mishap  \* auxiliary: two edits have overlapped, or one was cut off

positionsVars == <<disk, draft, where, books, edits, edit, mishap>>

\* A position: its lots, and what one has cost.  due is auxiliary: the cash the
\* owner has set, with the gains of sales, without fees of sales and roundings.
Position == [shares : Int, price : Int]
IsBook(b) ==
    /\ b.cash \in Int /\ b.due \in Int
    /\ \E S \in SUBSET Share : b.positions \in [S -> Position]

Torn == [torn |-> TRUE]
EmptyBook == [cash |-> 0, due |-> 0, positions |-> [s \in {} |-> [shares |-> 0, price |-> 0]]]

-----------------------------------------------------------------------------
(* What a handler makes of the positions it has loaded.  Each is a set: it  *)
(* is empty when the handler answers with an error and writes nothing.     *)

Value(p) == p.shares * p.price

Of(b, s) == IF s \in DOMAIN b.positions THEN b.positions[s] ELSE [shares |-> 0, price |-> 0]

With(b, s, p) == [x \in DOMAIN b.positions \union {s} |-> IF x = s THEN p ELSE b.positions[x]]
Without(b, s) == Restrict(b.positions, DOMAIN b.positions \ {s})

\* The book b with the positions ps instead, for which n is paid.
Traded(b, ps, n, gain) == [cash |-> b.cash - n, due |-> b.due + gain, positions |-> ps]

FeeOf(n) == IF n = 0 THEN 0 ELSE Fee

\* The price of one of n lots that cost x, rounded.
Average(x, n) == IF n < 0 THEN (-x) \div (-n) ELSE x \div n

Answer(accepted, b) == IF accepted THEN {b} ELSE {}

\* Wrong variant: a second purchase is added to the lots, and its price replaces
\* the price of the first.
AddReplacing(b, s, n, p) ==
    Answer(n # 0, Traded(b, With(b, s, [shares |-> Of(b, s).shares + n, price |-> p]), n * p, 0))

\* add_or_update: any amount, also a negative one; the average price of a new
\* position of nothing is a division by zero.  The fee is part of what the lots
\* have cost, unless no lots are left: then the old ones go at the new price.
Add(b, s, n, p) ==
    LET old   == Of(b, s)
        paid  == n * p + FeeOf(n)
        sum   == old.shares + n
        price == Average(Value(old) + paid, sum)
    IN  IF s \in DOMAIN b.positions /\ sum <= 0
        THEN {Traded(b, With(b, s, [shares |-> sum, price |-> p]), paid,
                     old.shares * (p - old.price) - FeeOf(n))}
        ELSE IF s \notin DOMAIN b.positions /\ n = 0 THEN {}
        ELSE {Traded(b, With(b, s, [shares |-> sum, price |-> price]), paid,
                     sum * price - Value(old) - paid)}

\* sell_position: not more than there is; p = 0 stands for the price it has cost.
Sell(b, s, n, p) ==
    LET old   == Of(b, s)
        price == IF p = 0 THEN old.price ELSE p
        rest  == [old EXCEPT !.shares = @ - n]
    IN  Answer(n \in 1..old.shares /\ price > 0,
               Traded(b, IF rest.shares = 0 THEN Without(b, s) ELSE With(b, s, rest),
                      Fee - n * price, n * (price - old.price) - Fee))

SetCash(b, c) == Answer(c >= 0, Traded(b, b.positions, b.cash - c, c - b.cash))

\* update: 0 stands for a field the request leaves alone.  What the old position
\* has cost comes back with its fee, and the new one is paid for.
Update(b, s, n, p) ==
    LET old  == Of(b, s)
        new  == [shares |-> IF n = 0 THEN old.shares ELSE n,
                 price  |-> IF p = 0 THEN old.price ELSE p]
        fees == (IF Value(new) > 0 THEN Fee ELSE 0) - (IF Value(old) > 0 THEN Fee ELSE 0)
    IN  Answer(s \in DOMAIN b.positions /\ n >= 0,
               Traded(b, With(b, s, new), Value(new) - Value(old) + fees, -fees))

\* remove: the position is sold at what it has cost.
Delete(b, s) ==
    LET old == Of(b, s)
    IN  Answer(s \in DOMAIN b.positions,
               Traded(b, Without(b, s), FeeOf(Value(old)) - Value(old), -FeeOf(Value(old))))

Edits == [what : {"add", "sell", "cash", "account", "update", "remove"},
          of : Share, n : -1..MaxLots, p : Quotes \union {0}]

\* set_account changes rates that the model has not.
Edited(b, x) ==
    CASE x.what = "add"     -> IF x.p = 0 THEN {} ELSE Add(b, x.of, x.n, x.p)
      [] x.what = "sell"    -> Sell(b, x.of, x.n, x.p)
      [] x.what = "cash"    -> SetCash(b, x.n)
      [] x.what = "account" -> {b}
      [] x.what = "update"  -> Update(b, x.of, x.n, x.p)
      [] x.what = "remove"  -> Delete(b, x.of)

-----------------------------------------------------------------------------

PositionsTypeOK ==
    /\ disk = Torn \/ IsBook(disk)
    /\ IsBook(books)
    /\ \A q \in Request : IsBook(draft[q]) /\ edit[q] \in Edits
    /\ where \in [Request -> {"idle", "loaded", "opened"}]
    /\ edits \in 0..MaxEdits
    /\ mishap \in BOOLEAN

PositionsInit ==
    /\ disk = EmptyBook /\ books = EmptyBook
    /\ draft = [q \in Request |-> EmptyBook]
    /\ edit = [q \in Request |-> CHOOSE x \in Edits : TRUE]
    /\ where = [q \in Request |-> "idle"]
    /\ edits = 0
    /\ mishap = FALSE

InBounds(b) == \A s \in DOMAIN b.positions : b.positions[s].shares \in -MaxLots..MaxLots

Busy == {q \in Request : where[q] # "idle"}

\* A file that is torn raises, and the request writes nothing.
Load(q, x) ==
    /\ where[q] = "idle"
    /\ edits + Cardinality(Busy) < MaxEdits
    /\ disk # Torn
    /\ \E b \in Edited(disk, x) : InBounds(b) /\ draft' = [draft EXCEPT ![q] = b]
    /\ edit' = [edit EXCEPT ![q] = x]
    /\ where' = [where EXCEPT ![q] = "loaded"]
    /\ mishap' = (mishap \/ Busy # {})
    /\ UNCHANGED <<disk, books, edits>>

\* save_positions_file: write_text opens the file, which empties it, ...
OpenFile(q) ==
    /\ where[q] = "loaded"
    /\ disk' = Torn
    /\ where' = [where EXCEPT ![q] = "opened"]
    /\ UNCHANGED <<draft, books, edits, edit, mishap>>

\* ... and writes from the start: over what another request has written, of
\* which a longer text leaves its end.
WriteFile(q) ==
    /\ where[q] = "opened"
    /\ disk' \in {draft[q]} \union (IF disk = Torn THEN {} ELSE {Torn})
    /\ where' = [where EXCEPT ![q] = "idle"]
    /\ edits' = edits + 1
    /\ books' \in IF Edited(books, edit[q]) = {} THEN {books} ELSE Edited(books, edit[q])
    /\ draft' = [draft EXCEPT ![q] = EmptyBook]
    /\ UNCHANGED <<edit, mishap>>

\* The server is killed, and starts again.
Kill ==
    /\ Busy # {}
    /\ where' = [q \in Request |-> "idle"]
    /\ draft' = [q \in Request |-> EmptyBook]
    /\ mishap' = TRUE
    /\ UNCHANGED <<disk, books, edits, edit>>

PositionsNext ==
    \/ \E q \in Request :
          \/ \E x \in Edits : Load(q, x)
          \/ OpenFile(q) \/ WriteFile(q)
    \/ Kill

PositionsSpec == PositionsInit /\ [][PositionsNext]_positionsVars

-----------------------------------------------------------------------------
\* Properties.

\* Every answered edit is in the file, once, unless two have overlapped or one
\* was cut off.
EditsKept == ~mishap /\ (\A q \in Request : where[q] # "opened") => disk = books

\* Even then the cash and the positions of a file that can be read are those of
\* one story: what is due to the owner is there, as cash or as what lots have cost.
BooksBalance ==
    disk # Torn =>
        disk.cash + FoldFunction(LAMBDA p, sum : Value(p) + sum, 0, disk.positions) = disk.due

\* What the file says of the edits.
FileHonest == EditsKept /\ BooksBalance
=============================================================================
