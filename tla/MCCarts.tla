------------------------------ MODULE MCCarts ------------------------------
(***************************************************************************)
(* Carts for TLC: three scenarios, each with the bounds its question needs.*)
(*   races   two accounts, two tabs, one item of a product; nothing is paid*)
(*   orders  one account and one request at a time, with payments, and a   *)
(*           product whose sale can end                                    *)
(*   lines   one account, two tabs and two products; no cart expires       *)
(***************************************************************************)
EXTENDS Carts, TLC

CONSTANTS c1, c2, u1, u2, t1, t2, p1, p2

VARIABLE scenario

Symmetry == Permutations(Carts) \cup Permutations(Users) \cup Permutations(Tabs)

InUse == {u \in Users : AccountCarts(u) # {} \/ login = u
                          \/ \E t \in Tabs : request[t].user = u}

OneAccount == Cardinality(InUse) <= 1
OneRequest == Cardinality({t \in Tabs : request[t].phase # "idle"}) <= 1
OneProduct == \A c \in Carts : Chosen(lines[c]) \subseteq {p1}
OneOfEach  == \A c \in Carts, p \in Products : lines[c][p] <= 1
NoPayment  == \A c \in Carts : history[c] = {}
AllOnSale  == onSale = Products
NoneExpired == \A c \in Carts : Exists(c) => unexpired[c]

Within ==
  \/ scenario = "races"  /\ OneProduct /\ OneOfEach /\ NoPayment /\ AllOnSale
  \/ scenario = "orders" /\ OneAccount /\ OneRequest /\ OneProduct /\ OneOfEach
  \/ scenario = "lines"  /\ OneAccount /\ NoPayment /\ NoneExpired /\ AllOnSale

ScenarioInit == Init /\ scenario \in {"races", "orders", "lines"}
ScenarioNext == Next /\ UNCHANGED scenario /\ Within'
ScenarioSpec == ScenarioInit /\ [][ScenarioNext]_<<vars, scenario>>

=============================================================================
