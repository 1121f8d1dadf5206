------------------------------- MODULE Listing -------------------------------
(***************************************************************************)
(* RoomService::handleGetRooms and UserService::handleGetAllUsers: a list  *)
(* cut into pages by limit and offset.  Every request reads the table      *)
(* anew, so the pages a client collects one after the other come from      *)
(* different states of the table.                                          *)
(*                                                                         *)
(* Rooms come newest first, and are created and deleted by other requests; *)
(* created_at is taken to grow from one insertion to the next.  Users come *)
(* without an ORDER BY, in the order in which SQLite stored them, and      *)
(* nothing deletes one.  The member counts of a page of rooms, read room   *)
(* by room after it, are left out.                                         *)
(***************************************************************************)
EXTENDS Integers, Sequences, SequencesExt, FiniteSets

CONSTANTS
    Item,                    \* ids of rooms or users
    DefaultLimit, MaxLimit,  \* 50 and 100 in the code
    Asked,                   \* the limits a client may ask for
    NotANumber               \* a limit that stoi does not take

ASSUME LimitAssumption ==
    /\ DefaultLimit \in Nat \ {0}
    /\ MaxLimit \in Nat \ {0}
    /\ Asked \subseteq Int \cup {NotANumber}

VARIABLES
    list,     \* which list it is
    order,    \* what is stored, in the order of getAllRooms or getAllUsers
    drawn,    \* the ids that were given so far
    pager     \* a client that collects all pages

vars == <<list, order, drawn, pager>>

Least(a, b) == IF a < b THEN a ELSE b

\* History since the first page was asked for: `here' the items stored all the
\* time, `created' and `deleted' how many were; `twice' those listed again;
\* `total' what the last answer said of the table.
Ready == [pc |-> "ready", offset |-> 0, seen |-> {}, twice |-> {},
          here |-> {}, created |-> 0, deleted |-> 0, total |-> 0]

Init ==
    /\ list \in {"rooms", "users"}
    /\ order \in {<<>>} \cup {<<r>> : r \in Item}
    /\ drawn = ToSet(order)
    /\ pager = Ready

TypeOK ==
    /\ list \in {"rooms", "users"}
    /\ order \in Seq(Item)
    /\ drawn \subseteq Item
    /\ pager \in [pc : {"ready", "paging", "done"}, offset : Nat,
                  seen : SUBSET Item, twice : SUBSET Item, here : SUBSET Item,
                  created : Nat, deleted : Nat, total : Nat]

Paging == pager.pc = "paging"

\* Variant: users come newest first, as the rooms do.
InsertedInFront(s, r) == Cons(r, s)

\* ORDER BY created_at DESC; without an order a new row is behind all others.
Inserted(s, r) == IF list = "rooms" THEN Cons(r, s) ELSE Append(s, r)

\* createRoom, createUser: ids of deleted rooms do not come back.
Create(r) ==
    /\ r \notin drawn
    /\ order' = Inserted(order, r)
    /\ drawn' = drawn \cup {r}
    /\ pager' = IF Paging THEN [pager EXCEPT !.created = @ + 1] ELSE pager
    /\ UNCHANGED list

DeleteRoom(r) ==
    /\ list = "rooms"
    /\ \E i \in DOMAIN order : order[i] = r /\ order' = RemoveAt(order, i)
    /\ pager' = IF Paging THEN [pager EXCEPT !.deleted = @ + 1, !.here = @ \ {r}]
                          ELSE pager
    /\ UNCHANGED <<list, drawn>>

\* No number, or one outside 1 .. MaxLimit: the default.
LimitFor(asked) ==
    IF asked = NotANumber THEN DefaultLimit
    ELSE IF asked <= 0 \/ asked > MaxLimit THEN DefaultLimit
    ELSE asked

Page(s, limit, offset) ==
    LET start == Least(offset, Len(s))
    IN  SubSeq(s, start + 1, Least(start + limit, Len(s)))

\* The client begins with offset 0.
Begin ==
    /\ pager.pc = "ready"
    /\ pager' = [Ready EXCEPT !.pc = "paging", !.here = ToSet(order)]
    /\ UNCHANGED <<list, order, drawn>>

\* The answer names the limit it used and the total; the client goes on by the
\* one until it has passed the other.
GetPage ==
    /\ Paging
    /\ \E asked \in Asked :
           LET limit == LimitFor(asked)
               items == ToSet(Page(order, limit, pager.offset))
               next == pager.offset + limit
           IN  pager' = [pager EXCEPT
                            !.offset = next,
                            !.seen = @ \cup items,
                            !.twice = @ \cup (items \cap pager.seen),
                            !.total = Len(order),
                            !.pc = IF next >= Len(order) THEN "done" ELSE @]
    /\ UNCHANGED <<list, order, drawn>>

Next ==
    \/ \E r \in Item : Create(r) \/ DeleteRoom(r)
    \/ Begin
    \/ GetPage

Spec == Init /\ [][Next]_vars

-----------------------------------------------------------------------------
(* Properties.                                                             *)

\* What a client has collected differs from the list only by what others did
\* meanwhile, whatever limits it asks for.  A room that is stored all the time
\* is missing only because others were deleted, each of which hides at most
\* one, and is listed twice only because others were created, each of which
\* pushes at most one onto the next page.  Users are never missing and never
\* twice, and in the end there are as many as the last answer said.
CollectedOrChanged ==
    /\ pager.pc = "done" => Cardinality(pager.here \ pager.seen) <= pager.deleted
    /\ Cardinality(pager.twice) <= IF list = "rooms" THEN pager.created ELSE 0
    /\ list = "users" /\ pager.pc = "done" => Cardinality(pager.seen) = pager.total
=============================================================================
